-------------------------- MODULE ProductPagesProofs --------------------------
(***************************************************************************)
(* What is proved of ProductPayload: of every page that says what is sold  *)
(* (ProductPages), each provider reads the price, the old price, the       *)
(* currency and the stock.                                                 *)
(***************************************************************************)
EXTENDS ProductFetch, TLAPS, WellFoundedInduction

-----------------------------------------------------------------------------
(* The first of what is filled.                                            *)

(* A set of naturals has a least element.                                  *)
LEMMA LeastIsIn ==
  ASSUME NEW S, S \subseteq Nat, S # {}
  PROVE  Min(S) \in S /\ \A j \in S : Min(S) <= j
<1>1. PICK x \in S : \A y \in S : ~ (<<y, x>> \in OpToRel(<, Nat))
  BY WFMin, NatLessThanWellFounded
<1>2. \A y \in S : ~(y < x)
  BY <1>1 DEF OpToRel
<1>3. \A y \in S : x <= y
  BY <1>2
<1> QED
  BY <1>3 DEF Min

LEMMA ValueRead ==
  ASSUME NEW fields, IsFields(fields), NEW path
  PROVE  /\ Filled(fields, path) = {} => ValueAt(fields, path) = None
         /\ Filled(fields, path) # {}
              => /\ ValueAt(fields, path) # None
                 /\ \E i \in Filled(fields, path) :
                      ValueAt(fields, path) = fields[path][i]
<1>1. CASE Filled(fields, path) = {}
  BY <1>1 DEF ValueAt
<1>2. CASE Filled(fields, path) # {}
  <2>1. path \in DOMAIN fields /\ Filled(fields, path) \subseteq DOMAIN fields[path]
    BY <1>2 DEF Filled
  <2>2. Filled(fields, path) \subseteq Nat
    BY <2>1 DEF IsFields
  <2>3. Min(Filled(fields, path)) \in Filled(fields, path)
    BY <1>2, <2>2, LeastIsIn
  <2>4. ValueAt(fields, path) = fields[path][Min(Filled(fields, path))]
    BY <1>2 DEF ValueAt
  <2>5. ValueAt(fields, path) # None
    BY <2>1, <2>3, <2>4 DEF IsFields, Range
  <2> QED
    BY <2>3, <2>4, <2>5
<1> QED
  BY <1>1, <1>2

(* _first_value reads the first path that is filled, if there is one.      *)
IsFirst(fields, paths, i) ==
  /\ i \in DOMAIN paths /\ Filled(fields, paths[i]) # {}
  /\ \A k \in DOMAIN paths : Filled(fields, paths[k]) # {} => i <= k

LEMMA FirstRead ==
  ASSUME NEW fields, IsFields(fields), NEW paths, DOMAIN paths \subseteq Nat
  PROVE  \/ /\ ~SomeFilled(fields, Range(paths))
            /\ FirstValue(fields, paths) = None
         \/ \E i : /\ IsFirst(fields, paths, i)
                   /\ FirstValue(fields, paths) = ValueAt(fields, paths[i])
<1> DEFINE filled == {i \in DOMAIN paths : Filled(fields, paths[i]) # {}}
<1>1. CASE filled = {}
  <2>1. ~SomeFilled(fields, Range(paths))
    BY <1>1 DEF SomeFilled, Range
  <2> QED
    BY <1>1, <2>1 DEF FirstValue
<1>2. CASE filled # {}
  <2>1. Min(filled) \in filled /\ \A k \in filled : Min(filled) <= k
    <3> HIDE DEF filled
    <3>1. filled \subseteq Nat
      BY DEF filled
    <3> QED
      BY <1>2, <3>1, LeastIsIn
  <2>2. IsFirst(fields, paths, Min(filled))
    BY <2>1 DEF IsFirst
  <2>3. FirstValue(fields, paths) = ValueAt(fields, paths[Min(filled)])
    BY <1>2 DEF FirstValue
  <2> QED
    BY <2>2, <2>3
<1> QED
  BY <1>1, <1>2

-----------------------------------------------------------------------------
(* Prices.                                                                 *)

LEMMA AmountSaid ==
  ASSUME NEW v, v # None, NEW n \in Int, Says(v, n)
  PROVE  Amount(v) = n
<1>1. CASE v = Number(n)
  BY <1>1 DEF Number, Amount
<1>2. CASE v.is = "text" /\ ~Kept(v.group, v) /\ n = 100 * v.whole + v.cents
  BY <1>2 DEF Amount, ReadText
<1> QED
  BY <1>1, <1>2 DEF Says, Kept

(* The amount read at a path that is filled.                               *)
LEMMA PriceRead ==
  ASSUME NEW fields, IsFields(fields), NEW P, NEW n \in Int \cup {None},
         PriceIn(fields, P, n), NEW path \in P, Filled(fields, path) # {}
  PROVE  n \in Int /\ Amount(ValueAt(fields, path)) = Unit(path) * n
<1>1. PICK i \in Filled(fields, path) : ValueAt(fields, path) = fields[path][i]
  BY ValueRead
<1>2. n \in Int /\ Says(ValueAt(fields, path), Unit(path) * n)
  BY <1>1 DEF PriceIn
<1>3. Unit(path) * n \in Int
  BY <1>2 DEF Unit
<1> QED
  BY <1>2, <1>3, ValueRead, AmountSaid

(* A price in kopecks, by its name or for a size, is divided by a hundred. *)
LEMMA UnitUndone ==
  ASSUME NEW n \in Int, NEW path
  PROVE  n = IF path \in InKopecks THEN (Unit(path) * n) \div 100
             ELSE Unit(path) * n
<1>1. InKopecks = NamedInKopecks \cup OfSizes
  BY DEF InKopecks, FlatKopecks, NamedInKopecks, OfSizes
<1>2. (100 * n) \div 100 = n
  OBVIOUS
<1> QED
  BY <1>1, <1>2 DEF Unit

(* _first_price reads the first path that is filled, where all are amounts.*)
LEMMA FirstPriceRead ==
  ASSUME NEW fields, IsFields(fields), NEW paths, DOMAIN paths \subseteq Nat,
         \A i \in DOMAIN paths :
           Filled(fields, paths[i]) # {}
             => Amount(ValueAt(fields, paths[i])) # None
  PROVE  \/ /\ ~SomeFilled(fields, Range(paths))
            /\ FirstPrice(fields, paths) = None
         \/ \E i : /\ IsFirst(fields, paths, i)
                   /\ \A n \in Int :
                        Amount(ValueAt(fields, paths[i])) = Unit(paths[i]) * n
                          => FirstPrice(fields, paths) = n
<1> DEFINE readable == {i \in DOMAIN paths :
                          Amount(ValueAt(fields, paths[i])) # None}
<1>1. \A i \in DOMAIN paths : i \in readable <=> Filled(fields, paths[i]) # {}
  BY ValueRead DEF Amount
<1>2. CASE readable = {}
  <2>1. ~SomeFilled(fields, Range(paths))
    BY <1>1, <1>2 DEF SomeFilled, Range
  <2> QED
    BY <1>2, <2>1 DEF FirstPrice
<1>3. CASE readable # {}
  <2>1. Min(readable) \in readable /\ \A k \in readable : Min(readable) <= k
    <3>1. readable \subseteq Nat
      OBVIOUS
    <3> HIDE DEF readable
    <3> QED
      BY <1>3, <3>1, LeastIsIn
  <2>2. IsFirst(fields, paths, Min(readable))
    <3> HIDE DEF readable
    <3>1. Min(readable) \in DOMAIN paths
      BY <2>1 DEF readable
    <3> QED
      BY <1>1, <2>1, <3>1 DEF IsFirst
  <2>3. ASSUME NEW n \in Int,
               Amount(ValueAt(fields, paths[Min(readable)]))
                 = Unit(paths[Min(readable)]) * n
        PROVE  FirstPrice(fields, paths) = n
    <3>1. FirstPrice(fields, paths)
            = IF paths[Min(readable)] \in InKopecks
              THEN Amount(ValueAt(fields, paths[Min(readable)])) \div 100
              ELSE Amount(ValueAt(fields, paths[Min(readable)]))
      BY <1>3 DEF FirstPrice
    <3> HIDE DEF readable
    <3> QED
      BY <2>3, <3>1, UnitUndone
  <2> QED
    BY <2>2, <2>3
<1> QED
  BY <1>2, <1>3

(* Where all the fields say one price, that price is read.                 *)
LEMMA OnePriceRead ==
  ASSUME NEW fields, IsFields(fields), NEW paths, DOMAIN paths \subseteq Nat,
         NEW n \in Int \cup {None}, PriceIn(fields, Range(paths), n),
         n # None => SomeFilled(fields, Range(paths))
  PROVE  FirstPrice(fields, paths) = n
<1>1. ASSUME NEW i \in DOMAIN paths, Filled(fields, paths[i]) # {}
      PROVE  /\ n \in Int
             /\ Amount(ValueAt(fields, paths[i])) = Unit(paths[i]) * n
             /\ Amount(ValueAt(fields, paths[i])) # None
  <2>1. paths[i] \in Range(paths)
    BY DEF Range
  <2>2. n \in Int /\ Amount(ValueAt(fields, paths[i])) = Unit(paths[i]) * n
    BY <1>1, <2>1, PriceRead
  <2> QED
    BY <2>2, PageAssumption DEF Unit
<1>2. CASE ~SomeFilled(fields, Range(paths)) /\ FirstPrice(fields, paths) = None
  BY <1>2
<1>3. ASSUME NEW i, IsFirst(fields, paths, i),
             \A m \in Int : Amount(ValueAt(fields, paths[i])) = Unit(paths[i]) * m
                              => FirstPrice(fields, paths) = m
      PROVE  FirstPrice(fields, paths) = n
  BY <1>1, <1>3 DEF IsFirst
<1> QED
  BY <1>1, <1>2, <1>3, FirstPriceRead

(* The price is read from priceU only if there is no discount.             *)
LEMMA WildberriesPricesRead ==
  ASSUME NEW fields, IsFields(fields), NEW sold, IsSale(sold),
         NEW sale, DOMAIN sale \subseteq Nat,
         NEW base, DOMAIN base \subseteq Nat,
         WildberriesPrices(fields, sale, base, sold),
         Discounted \subseteq Range(sale), "priceU" \in Range(base),
         \A i, j \in DOMAIN sale :
           sale[i] \in Discounted /\ sale[j] = "priceU" => i < j
  PROVE  /\ FirstPrice(fields, sale) = sold.price
         /\ FirstPrice(fields, base) = sold.old
<1>1. FirstPrice(fields, base) = sold.old
  BY OnePriceRead DEF WildberriesPrices, IsSale
<1>2. ASSUME NEW i \in DOMAIN sale, Filled(fields, sale[i]) # {}
      PROVE  \E n \in {sold.price, sold.old} :
               /\ n \in Int
               /\ Amount(ValueAt(fields, sale[i])) = Unit(sale[i]) * n
               /\ sale[i] # "priceU" => n = sold.price
  <2>1. /\ PriceIn(fields, Range(sale) \ {"priceU"}, sold.price)
        /\ PriceIn(fields, Range(base), sold.old)
        /\ sold.price \in Int \cup {None} /\ sold.old \in Int \cup {None}
    BY DEF WildberriesPrices, IsSale
  <2>2. CASE sale[i] = "priceU"
    <3>1. Filled(fields, "priceU") # {} /\ "priceU" \in Range(base)
      BY <1>2, <2>2
    <3>2. /\ sold.old \in Int
          /\ Amount(ValueAt(fields, "priceU")) = Unit("priceU") * sold.old
      BY <2>1, <3>1, PriceRead
    <3> WITNESS sold.old \in {sold.price, sold.old}
    <3> QED
      BY <2>2, <3>2
  <2>3. CASE sale[i] # "priceU"
    <3>1. sale[i] \in Range(sale) \ {"priceU"}
      BY <2>3 DEF Range
    <3>2. /\ sold.price \in Int
          /\ Amount(ValueAt(fields, sale[i])) = Unit(sale[i]) * sold.price
      BY <1>2, <2>1, <3>1, PriceRead
    <3> WITNESS sold.price \in {sold.price, sold.old}
    <3> QED
      BY <3>2
  <2> QED
    BY <2>2, <2>3
<1>3. \A i \in DOMAIN sale :
        Filled(fields, sale[i]) # {} => Amount(ValueAt(fields, sale[i])) # None
  BY <1>2, PageAssumption DEF Unit
<1>4. CASE ~SomeFilled(fields, Range(sale)) /\ FirstPrice(fields, sale) = None
  BY <1>1, <1>4 DEF WildberriesPrices
<1>5. ASSUME NEW i, IsFirst(fields, sale, i),
             \A n \in Int : Amount(ValueAt(fields, sale[i])) = Unit(sale[i]) * n
                              => FirstPrice(fields, sale) = n
      PROVE  FirstPrice(fields, sale) = sold.price
  <2>1. PICK n \in {sold.price, sold.old} :
          /\ FirstPrice(fields, sale) = n
          /\ sale[i] # "priceU" => n = sold.price
    BY <1>2, <1>5 DEF IsFirst
  <2>2. CASE sale[i] = "priceU" /\ sold.price # sold.old
    <3>1. PICK path \in Discounted : Filled(fields, path) # {}
      BY <1>5, <2>2 DEF WildberriesPrices, SomeFilled, IsFirst
    <3>2. PICK k \in DOMAIN sale : sale[k] = path
      BY <3>1 DEF Range
    <3>3. k < i /\ i <= k
      BY <1>5, <2>2, <3>1, <3>2 DEF IsFirst
    <3>4. i \in Nat /\ k \in Nat
      BY <1>5, <3>2 DEF IsFirst
    <3> QED
      BY <3>3, <3>4
  <2> QED
    BY <2>1, <2>2
<1>6. FirstPrice(fields, sale) = sold.price
  BY <1>3, <1>4, <1>5, FirstPriceRead
<1> QED
  BY <1>1, <1>6

LEMMA DirectPricesRead ==
  ASSUME NEW fields, IsFields(fields), NEW sold, IsSale(sold),
         WildberriesPrices(fields, DirectPrice, DirectOldPrice, sold)
  PROVE  /\ FirstPrice(fields, DirectPrice) = sold.price
         /\ FirstPrice(fields, DirectOldPrice) = sold.old
<1>1. /\ DOMAIN DirectPrice \subseteq Nat /\ DOMAIN DirectOldPrice \subseteq Nat
      /\ Discounted \subseteq Range(DirectPrice)
      /\ "priceU" \in Range(DirectOldPrice)
  BY DEF DirectPrice, DirectOldPrice, Discounted, Range
<1>2. ASSUME NEW i \in DOMAIN DirectPrice, NEW j \in DOMAIN DirectPrice,
             DirectPrice[i] \in Discounted, DirectPrice[j] = "priceU"
      PROVE  i < j
  BY <1>2 DEF DirectPrice, Discounted
<1> QED
  BY <1>1, <1>2, WildberriesPricesRead

LEMMA ApifyPricesRead ==
  ASSUME NEW fields, IsFields(fields), NEW sold, IsSale(sold),
         WildberriesPrices(fields, ApifyPrice, ApifyOldPrice, sold)
  PROVE  /\ FirstPrice(fields, ApifyPrice) = sold.price
         /\ FirstPrice(fields, ApifyOldPrice) = sold.old
<1>1. /\ DOMAIN ApifyPrice \subseteq Nat /\ DOMAIN ApifyOldPrice \subseteq Nat
      /\ Discounted \subseteq Range(ApifyPrice)
      /\ "priceU" \in Range(ApifyOldPrice)
  BY DEF ApifyPrice, ApifyOldPrice, Discounted, Range
<1>2. ASSUME NEW i \in DOMAIN ApifyPrice, NEW j \in DOMAIN ApifyPrice,
             ApifyPrice[i] \in Discounted, ApifyPrice[j] = "priceU"
      PROVE  i < j
  BY <1>2 DEF ApifyPrice, Discounted
<1> QED
  BY <1>1, <1>2, WildberriesPricesRead

(* Zyte and the mock provider take the first value for the price as it is. *)
LEMMA GenericPriceRead ==
  ASSUME NEW fields, IsFields(fields), NEW paths, DOMAIN paths \subseteq Nat,
         \A path \in Range(paths) : Unit(path) = 1,
         NEW n \in Int \cup {None}, PriceIn(fields, Range(paths), n),
         n # None => SomeFilled(fields, Range(paths))
  PROVE  Amount(FirstValue(fields, paths)) = n
<1>1. CASE ~SomeFilled(fields, Range(paths)) /\ FirstValue(fields, paths) = None
  BY <1>1 DEF Amount
<1>2. ASSUME NEW i, IsFirst(fields, paths, i),
             FirstValue(fields, paths) = ValueAt(fields, paths[i])
      PROVE  Amount(FirstValue(fields, paths)) = n
  <2>1. paths[i] \in Range(paths)
    BY <1>2 DEF IsFirst, Range
  <2>2. n \in Int /\ Amount(ValueAt(fields, paths[i])) = Unit(paths[i]) * n
    BY <1>2, <2>1, PriceRead DEF IsFirst
  <2>3. Unit(paths[i]) = 1
    BY <2>1
  <2> QED
    BY <1>2, <2>2, <2>3
<1> QED
  BY <1>1, <1>2, FirstRead

LEMMA GenericPricesRead ==
  ASSUME NEW fields, IsFields(fields), NEW sold, IsSale(sold),
         OtherPrices(fields, GenericPrice, GenericOldPrice, sold)
  PROVE  /\ Amount(FirstValue(fields, GenericPrice)) = sold.price
         /\ Amount(FirstValue(fields, GenericOldPrice)) = sold.old
<1>1. /\ DOMAIN GenericPrice \subseteq Nat /\ DOMAIN GenericOldPrice \subseteq Nat
      /\ \A path \in Range(GenericPrice) : Unit(path) = 1
      /\ \A path \in Range(GenericOldPrice) : Unit(path) = 1
  BY DEF GenericPrice, GenericOldPrice, Range, Unit, NamedInKopecks, OfSizes
<1> QED
  BY <1>1, GenericPriceRead DEF OtherPrices, IsSale

-----------------------------------------------------------------------------
(* The currency.                                                           *)

(* A value along paths is one of those that are filled.                    *)
LEMMA FirstIsFilled ==
  ASSUME NEW fields, IsFields(fields), NEW paths, DOMAIN paths \subseteq Nat
  PROVE  \/ /\ ~SomeFilled(fields, Range(paths))
            /\ FirstValue(fields, paths) = None
         \/ /\ FirstValue(fields, paths) # None
            /\ \E path \in Range(paths) : \E i \in Filled(fields, path) :
                 FirstValue(fields, paths) = fields[path][i]
<1>1. ASSUME NEW k, IsFirst(fields, paths, k),
             FirstValue(fields, paths) = ValueAt(fields, paths[k])
      PROVE  /\ FirstValue(fields, paths) # None
             /\ \E path \in Range(paths) : \E i \in Filled(fields, path) :
                  FirstValue(fields, paths) = fields[path][i]
  <2>1. paths[k] \in Range(paths)
    BY <1>1 DEF IsFirst, Range
  <2>2. /\ ValueAt(fields, paths[k]) # None
        /\ \E i \in Filled(fields, paths[k]) :
             ValueAt(fields, paths[k]) = fields[paths[k]][i]
    BY <1>1, ValueRead DEF IsFirst
  <2> QED
    BY <1>1, <2>1, <2>2
<1> QED
  BY <1>1, FirstRead

LEMMA CurrencyRead ==
  ASSUME NEW fields, IsFields(fields), NEW sold,
         NEW paths, DOMAIN paths \subseteq Nat, NEW signs, NEW known,
         CurrencyIn(fields, Range(paths), known, sold),
         RoubleSigns \cup known \subseteq DOMAIN signs,
         DOMAIN signs \subseteq RoubleSigns \cup {"RUB"} \cup DOMAIN Foreign,
         known \subseteq DOMAIN Foreign,
         DOMAIN signs \cap DOMAIN Foreign \subseteq known,
         \A w \in RoubleSigns \cup {"RUB"} :
           w \in DOMAIN signs => signs[w] = "RUB",
         \A w \in known : signs[w] = Foreign[w]
  PROVE  CurrencyOf(FirstValue(fields, paths), sold.price, signs) = sold.currency
<1> DEFINE v == FirstValue(fields, paths)
<1>1. CASE ~SomeFilled(fields, Range(paths)) /\ v = None
  BY <1>1 DEF CurrencyIn, CurrencyOf
<1>2. CASE v # None /\ \E path \in Range(paths) : \E i \in Filled(fields, path) :
                         v = fields[path][i]
  <2>1. \/ v.word \in RoubleSigns /\ sold.currency = "RUB"
        \/ v.word \in known /\ sold.currency = Foreign[v.word]
        \/ v.word \notin RoubleSigns \cup DOMAIN Foreign /\ sold.currency = v.word
    BY <1>2 DEF CurrencyIn
  <2>2. CurrencyOf(v, sold.price, signs)
          = IF v.word \in DOMAIN signs THEN signs[v.word] ELSE v.word
    BY <1>2 DEF CurrencyOf
  <2> HIDE DEF v
  <2>3. ASSUME v.word \in RoubleSigns, sold.currency = "RUB"
        PROVE  CurrencyOf(v, sold.price, signs) = sold.currency
    BY <2>2, <2>3
  <2>4. ASSUME v.word \in known, sold.currency = Foreign[v.word]
        PROVE  CurrencyOf(v, sold.price, signs) = sold.currency
    BY <2>2, <2>4
  <2>5. ASSUME v.word \notin RoubleSigns \cup DOMAIN Foreign, sold.currency = v.word
        PROVE  CurrencyOf(v, sold.price, signs) = sold.currency
    BY <2>2, <2>5
  <2>6. CurrencyOf(v, sold.price, signs) = sold.currency
    BY <2>1, <2>3, <2>4, <2>5
  <2> QED
    BY <2>6 DEF v
<1> QED
  BY <1>1, <1>2, FirstIsFilled

(* The providers of Wildberries pages know the signs of the rouble, the    *)
(* others those of the dollar and the euro too.                            *)
LEMMA WildberriesCurrencyRead ==
  ASSUME NEW fields, IsFields(fields), NEW sold,
         CurrencyIn(fields, Range(CurrencyPaths), {}, sold)
  PROVE  CurrencyOf(FirstValue(fields, CurrencyPaths), sold.price, Sign)
           = sold.currency
<1>1. DOMAIN CurrencyPaths \subseteq Nat
  BY DEF CurrencyPaths
<1>2. /\ DOMAIN Sign = RoubleSigns \cup {"RUB"}
      /\ DOMAIN Foreign = {"dollar sign", "euro sign"}
      /\ \A w \in DOMAIN Sign : Sign[w] = "RUB"
      /\ DOMAIN Sign \cap DOMAIN Foreign = {}
  BY DEF Sign, RoubleSigns, Foreign
<1>3. /\ RoubleSigns \cup {} \subseteq DOMAIN Sign
      /\ DOMAIN Sign \subseteq RoubleSigns \cup {"RUB"} \cup DOMAIN Foreign
      /\ {} \subseteq DOMAIN Foreign /\ DOMAIN Sign \cap DOMAIN Foreign \subseteq {}
      /\ \A w \in RoubleSigns \cup {"RUB"} : w \in DOMAIN Sign => Sign[w] = "RUB"
      /\ \A w \in {} : Sign[w] = Foreign[w]
  BY <1>2
<1> QED
  BY <1>1, <1>3, CurrencyRead

LEMMA GenericCurrencyRead ==
  ASSUME NEW fields, IsFields(fields), NEW sold,
         CurrencyIn(fields, Range(GenericCurrencyPaths), DOMAIN Foreign, sold)
  PROVE  CurrencyOf(FirstValue(fields, GenericCurrencyPaths), sold.price,
                    GenericSign) = sold.currency
<1>1. DOMAIN GenericCurrencyPaths \subseteq Nat
  BY DEF GenericCurrencyPaths
<1>2. /\ DOMAIN GenericSign = RoubleSigns \cup {"RUB"} \cup DOMAIN Foreign
      /\ \A w \in RoubleSigns \cup {"RUB"} : GenericSign[w] = "RUB"
      /\ \A w \in DOMAIN Foreign : GenericSign[w] = Foreign[w]
  BY DEF Sign, GenericSign, RoubleSigns, Foreign
<1> QED
  BY <1>1, <1>2, CurrencyRead

-----------------------------------------------------------------------------
(* The stock.  What a provider shows is not at odds with it.               *)
Shows(availability, n) ==
  /\ availability = "in_stock" => n # None /\ n > 0
  /\ availability \in {"unavailable", "out_of_stock"} => n = 0

LEMMA UnknownShows ==
  ASSUME NEW n
  PROVE  Shows("unknown", n)
BY DEF Shows

LEMMA QuantityShows ==
  ASSUME NEW n \in Nat, NEW m \in Int, m > 0 <=> n > 0
  PROVE  Shows(InStock(m > 0), n)
<1>1. CASE m > 0
  BY <1>1, PageAssumption DEF InStock, Shows
<1>2. CASE ~(m > 0)
  BY <1>2 DEF InStock, Shows
<1> QED
  BY <1>1, <1>2

(* The words for yes and no that a page may use.                           *)
SaysYes == {"true", "available", "in_stock", "instock", "yes", "1"}
SaysNo == {"false", "unavailable", "out_of_stock", "outofstock", "no",
           "sold_out", "0", "net_v_nalichii"}

LEMMA WordShows ==
  ASSUME NEW v, NEW n, v.is = "word", TellsStock(v, n),
         NEW yes, yes \subseteq SaysYes, NEW no, no \subseteq SaysNo,
         NEW gone \in {"unavailable", "out_of_stock"}
  PROVE  Shows(Worded(v.word, yes, no, gone), n)
<1>1. /\ v.word \in yes => n # None /\ n > 0
      /\ v.word \in no => n = 0
  BY DEF TellsStock, SaysYes, SaysNo
<1>2. CASE v.word \in yes
  <2>1. v.word \notin no /\ v.word \notin Preorder
    BY <1>2 DEF SaysYes, SaysNo, Preorder
  <2>2. Worded(v.word, yes, no, gone) = "in_stock"
    BY <1>2, <2>1 DEF Worded
  <2> QED
    BY <1>1, <1>2, <2>2 DEF Shows
<1>3. CASE v.word \notin yes
  <2>1. \/ v.word \in no /\ Worded(v.word, yes, no, gone) = gone
        \/ Worded(v.word, yes, no, gone) \in {"preorder", "unknown"}
    BY <1>3 DEF Worded
  <2> QED
    BY <1>1, <1>3, <2>1 DEF Shows
<1> QED
  BY <1>2, <1>3

(* A value of the stock is a flag, a number or a word.                     *)
LEMMA StockSaid ==
  ASSUME NEW fields, IsFields(fields), NEW n, NEW paths,
         DOMAIN paths \subseteq Nat, Range(paths) \subseteq StockPaths,
         StockIn(fields, StockPaths, n)
  PROVE  \/ FirstValue(fields, paths) = None
         \/ /\ FirstValue(fields, paths) # None
            /\ TellsStock(FirstValue(fields, paths), n)
            /\ FirstValue(fields, paths).is \in {"flag", "number", "word"}
<1>1. CASE FirstValue(fields, paths) = None
  BY <1>1
<1>2. CASE /\ FirstValue(fields, paths) # None
           /\ \E path \in Range(paths) : \E i \in Filled(fields, path) :
                FirstValue(fields, paths) = fields[path][i]
  <2>1. TellsStock(FirstValue(fields, paths), n)
    BY <1>2 DEF StockIn
  <2>2. FirstValue(fields, paths).is \in {"flag", "number", "word"}
    BY <2>1 DEF TellsStock
  <2> QED
    BY <1>2, <2>1, <2>2
<1> QED
  BY <1>1, <1>2, FirstIsFilled

LEMMA FlagShows ==
  ASSUME NEW v, v.is = "flag", NEW n \in Nat \cup {None}, TellsStock(v, n)
  PROVE  /\ Shows(InStock(v.set), n)
         /\ Shows(IF v.set THEN "in_stock" ELSE "out_of_stock", n)
<1>1. n # None /\ n \in Nat /\ (v.set <=> n > 0)
  BY DEF TellsStock
<1>2. CASE v.set
  BY <1>1, <1>2 DEF InStock, Shows
<1>3. CASE ~v.set
  BY <1>1, <1>3 DEF InStock, Shows
<1> QED
  BY <1>2, <1>3

LEMMA NumberTells ==
  ASSUME NEW v, v # None, v.is = "number", NEW n \in Nat \cup {None},
         TellsStock(v, n)
  PROVE  /\ n \in Nat /\ v.amount \in Int /\ (v.amount > 0 <=> n > 0)
         /\ Amount(v) = v.amount
<1>1. Amount(v) = v.amount
  BY DEF Amount
<1> QED
  BY <1>1 DEF TellsStock

LEMMA NoAmount ==
  ASSUME NEW v, v.is \in {"flag", "word"}
  PROVE  Amount(v) = None
BY DEF Amount

(* _total_quantity is the stock, or there is none.                         *)
LEMMA QuantityRead ==
  ASSUME NEW fields, IsFields(fields), NEW n \in Nat \cup {None},
         StockIn(fields, StockPaths, n), StockOfSizes(fields, n)
  PROVE  \/ TotalQuantity(fields) = None
         \/ /\ n \in Nat /\ TotalQuantity(fields) \in Int
            /\ TotalQuantity(fields) > 0 <=> n > 0
<1> DEFINE paths == <<"totalQuantity", "total_quantity">>
           v == FirstValue(fields, paths)
           stocks == StockValues(fields)
           total == Total([i \in DOMAIN stocks |-> stocks[i].amount])
<1>1. DOMAIN paths \subseteq Nat /\ Range(paths) \subseteq StockPaths
  BY DEF Range, StockPaths
<1>2. \/ v = None
      \/ v # None /\ TellsStock(v, n) /\ v.is \in {"flag", "number", "word"}
  <2> HIDE DEF paths
  <2> QED
    BY <1>1, StockSaid
<1>3. CASE Amount(v) # None
  <2>1. v # None /\ v.is = "number" /\ TellsStock(v, n)
    <3> HIDE DEF v
    <3>1. v # None
      BY <1>3 DEF Amount
    <3> QED
      BY <1>2, <1>3, <3>1, NoAmount
  <2>2. TotalQuantity(fields) = Amount(v)
    BY <1>3 DEF TotalQuantity
  <2> HIDE DEF v
  <2> QED
    BY <2>1, <2>2, NumberTells
<1>4. CASE Amount(v) = None
  <2>1. TotalQuantity(fields)
          = IF stocks = << >> THEN None
            ELSE InAllStocks([i \in DOMAIN stocks |-> Amount(stocks[i])])
    BY <1>4 DEF TotalQuantity
  <2>2. /\ \A i \in DOMAIN stocks : stocks[i] # None /\ stocks[i].is = "number"
        /\ stocks # << >> => n # None /\ total \in Int /\ (total > 0 <=> n > 0)
    BY DEF StockOfSizes
  <2> HIDE DEF stocks
  <2>3. [i \in DOMAIN stocks |-> Amount(stocks[i])]
          = [i \in DOMAIN stocks |-> stocks[i].amount]
    <3>1. ASSUME NEW i \in DOMAIN stocks
          PROVE  Amount(stocks[i]) = stocks[i].amount
      BY <2>2 DEF Amount
    <3> QED
      BY <3>1
  <2>4. InAllStocks([i \in DOMAIN stocks |-> Amount(stocks[i])]) = total
    BY <2>3 DEF InAllStocks
  <2> HIDE DEF total
  <2> QED
    BY <2>1, <2>2, <2>4
<1> QED
  BY <1>3, <1>4

LEMMA DirectStockRead ==
  ASSUME NEW fields, IsFields(fields), NEW n \in Nat \cup {None},
         StockIn(fields, StockPaths, n), StockOfSizes(fields, n)
  PROVE  Shows(DirectAvailability(fields), n)
<1> DEFINE paths == <<"availability", "availabilityStatus", "status", "inStock",
                      "isAvailable", "available", "stock", "quantity">>
           v == FirstValue(fields, paths)
           quantity == TotalQuantity(fields)
<1>1. DOMAIN paths \subseteq Nat /\ Range(paths) \subseteq StockPaths
  BY DEF Range, StockPaths
<1>2. \/ v = None
      \/ v # None /\ TellsStock(v, n) /\ v.is \in {"flag", "number", "word"}
  <2> HIDE DEF paths
  <2> QED
    BY <1>1, StockSaid
<1>3. DirectAvailability(fields)
        = IF quantity # None THEN InStock(quantity > 0)
          ELSE IF v = None THEN "unknown"
          ELSE CASE v.is = "flag" -> InStock(v.set)
                 [] Amount(v) # None -> InStock(Amount(v) > 0)
                 [] OTHER -> Worded(v.word, Yes, No \cup {"sold_out"},
                                    "unavailable")
  BY DEF DirectAvailability
<1> HIDE DEF v, quantity
<1>4. CASE quantity # None
  <2>1. n \in Nat /\ quantity \in Int /\ (quantity > 0 <=> n > 0)
    BY <1>4, QuantityRead DEF quantity
  <2>2. DirectAvailability(fields) = InStock(quantity > 0)
    BY <1>3, <1>4
  <2> QED
    BY <2>1, <2>2, QuantityShows
<1>5. CASE quantity = None /\ v = None
  <2>1. DirectAvailability(fields) = "unknown"
    BY <1>3, <1>5
  <2> QED
    BY <2>1, UnknownShows
<1>6. CASE quantity = None /\ v # None /\ v.is = "flag"
  <2>1. Amount(v) = None /\ TellsStock(v, n)
    BY <1>2, <1>6, NoAmount
  <2>2. DirectAvailability(fields) = InStock(v.set)
    BY <1>3, <1>6, <2>1
  <2> QED
    BY <1>6, <2>1, <2>2, FlagShows
<1>7. CASE quantity = None /\ v # None /\ v.is = "number"
  <2>1. /\ n \in Nat /\ v.amount \in Int /\ (v.amount > 0 <=> n > 0)
        /\ Amount(v) = v.amount
    BY <1>2, <1>7, NumberTells
  <2>2. Amount(v) # None
    BY <2>1, PageAssumption
  <2>3. DirectAvailability(fields) = InStock(Amount(v) > 0)
    BY <1>3, <1>7, <2>2
  <2> QED
    BY <2>1, <2>3, QuantityShows
<1>8. CASE quantity = None /\ v # None /\ v.is = "word"
  <2>1. Amount(v) = None /\ TellsStock(v, n)
    BY <1>2, <1>8, NoAmount
  <2>2. DirectAvailability(fields)
          = Worded(v.word, Yes, No \cup {"sold_out"}, "unavailable")
    BY <1>3, <1>8, <2>1
  <2>3. Yes \subseteq SaysYes /\ No \cup {"sold_out"} \subseteq SaysNo
    BY DEF Yes, No, SaysYes, SaysNo
  <2> QED
    BY <1>8, <2>1, <2>2, <2>3, WordShows
<1> QED
  BY <1>2, <1>4, <1>5, <1>6, <1>7, <1>8

(* Where the stock is told of by more than isSoldOut, the other field is   *)
(* read before it.                                                         *)
LEMMA ApifyStockRead ==
  ASSUME NEW fields, IsFields(fields), NEW n \in Nat \cup {None},
         StockIn(fields, StockPaths, n), ~SaysOnlySoldOut(fields)
  PROVE  Shows(ApifyAvailability(fields), n)
<1> DEFINE paths == <<"availability", "availabilityStatus", "status", "inStock",
                      "isAvailable", "available", "stock", "quantity",
                      "totalQuantity", "total_quantity", "isSoldOut">>
           v == FirstValue(fields, paths)
<1>1. /\ DOMAIN paths \subseteq Nat
      /\ \A i \in DOMAIN paths : paths[i] \in StockPaths \/ i = 11
      /\ \A path \in StockPaths : \E i \in DOMAIN paths : i < 11 /\ paths[i] = path
      /\ paths[11] = "isSoldOut"
  BY DEF StockPaths
<1>2. \/ v = None
      \/ v # None /\ TellsStock(v, n) /\ v.is \in {"flag", "number", "word"}
  <2> HIDE DEF paths
  <2>1. CASE v = None
    BY <2>1
  <2>2. ASSUME NEW i, IsFirst(fields, paths, i), v = ValueAt(fields, paths[i])
        PROVE  v # None /\ TellsStock(v, n) /\ v.is \in {"flag", "number", "word"}
    <3>1. i \in DOMAIN paths /\ Filled(fields, paths[i]) # {}
      BY <2>2 DEF IsFirst
    <3>2. paths[i] \in StockPaths
      <4>1. ASSUME i = 11
            PROVE  FALSE
        <5>1. PICK path \in StockPaths : Filled(fields, path) # {}
          BY <1>1, <3>1, <4>1 DEF SaysOnlySoldOut, SomeFilled
        <5>2. PICK k \in DOMAIN paths : k < 11 /\ paths[k] = path
          BY <1>1
        <5>3. i <= k
          BY <2>2, <5>1, <5>2 DEF IsFirst
        <5> QED
          BY <1>1, <4>1, <5>2, <5>3
      <4> QED
        BY <1>1, <3>1, <4>1
    <3>3. v # None /\ TellsStock(v, n)
      BY <2>2, <3>1, <3>2, ValueRead DEF StockIn
    <3> QED
      BY <3>3 DEF TellsStock
  <2> QED
    BY <1>1, <2>1, <2>2, FirstRead
<1>3. ApifyAvailability(fields)
        = IF v = None THEN "unknown"
          ELSE CASE v.is = "flag" -> InStock(v.set)
                 [] v.is = "number" -> InStock(v.amount > 0)
                 [] OTHER -> Worded(v.word, Yes \cup {"1"},
                                    No \cup {"sold_out", "0", "net_v_nalichii"},
                                    "unavailable")
  BY DEF ApifyAvailability
<1> HIDE DEF v
<1>4. CASE v = None
  <2>1. ApifyAvailability(fields) = "unknown"
    BY <1>3, <1>4
  <2> QED
    BY <2>1, UnknownShows
<1>5. CASE v # None /\ v.is = "flag"
  <2>1. ApifyAvailability(fields) = InStock(v.set)
    BY <1>3, <1>5
  <2> QED
    BY <1>2, <1>5, <2>1, FlagShows
<1>6. CASE v # None /\ v.is = "number"
  <2>1. ApifyAvailability(fields) = InStock(v.amount > 0)
    BY <1>3, <1>6
  <2>2. n \in Nat /\ v.amount \in Int /\ (v.amount > 0 <=> n > 0)
    BY <1>2, <1>6, NumberTells
  <2> QED
    BY <2>1, <2>2, QuantityShows
<1>7. CASE v # None /\ v.is = "word"
  <2>1. ApifyAvailability(fields)
          = Worded(v.word, Yes \cup {"1"},
                   No \cup {"sold_out", "0", "net_v_nalichii"}, "unavailable")
    BY <1>3, <1>7
  <2>2. /\ Yes \cup {"1"} \subseteq SaysYes
        /\ No \cup {"sold_out", "0", "net_v_nalichii"} \subseteq SaysNo
    BY DEF Yes, No, SaysYes, SaysNo
  <2> QED
    BY <1>2, <1>7, <2>1, <2>2, WordShows
<1> QED
  BY <1>2, <1>4, <1>5, <1>6, <1>7

(* isSoldOut alone is read like a flag of what is available.               *)
LEMMA SoldOutRead ==
  ASSUME NEW fields, IsFields(fields), NEW n, SoldOutIn(fields, n),
         SaysOnlySoldOut(fields)
  PROVE  ApifyAvailability(fields) = IF n = 0 THEN "in_stock" ELSE "unavailable"
<1> DEFINE paths == <<"availability", "availabilityStatus", "status", "inStock",
                      "isAvailable", "available", "stock", "quantity",
                      "totalQuantity", "total_quantity", "isSoldOut">>
           v == FirstValue(fields, paths)
<1>1. /\ DOMAIN paths \subseteq Nat
      /\ \A i \in DOMAIN paths : paths[i] \in StockPaths \/ paths[i] = "isSoldOut"
      /\ 11 \in DOMAIN paths /\ paths[11] = "isSoldOut"
  BY DEF StockPaths
<1>2. v # None /\ v.is = "flag" /\ v.set \in BOOLEAN /\ (v.set <=> n = 0)
  <2> HIDE DEF paths
  <2>1. SomeFilled(fields, Range(paths))
    BY <1>1 DEF SaysOnlySoldOut, SomeFilled, Range
  <2>2. PICK i : IsFirst(fields, paths, i) /\ v = ValueAt(fields, paths[i])
    BY <1>1, <2>1, FirstRead
  <2>3. paths[i] = "isSoldOut" /\ Filled(fields, "isSoldOut") # {}
    BY <1>1, <2>2 DEF IsFirst, SaysOnlySoldOut, SomeFilled
  <2>4. v # None /\ \E k \in Filled(fields, "isSoldOut") : v = fields["isSoldOut"][k]
    BY <2>2, <2>3, ValueRead
  <2> QED
    BY <2>4 DEF SoldOutIn
<1>3. ApifyAvailability(fields)
        = IF v = None THEN "unknown"
          ELSE CASE v.is = "flag" -> InStock(v.set)
                 [] v.is = "number" -> InStock(v.amount > 0)
                 [] OTHER -> Worded(v.word, Yes \cup {"1"},
                                    No \cup {"sold_out", "0", "net_v_nalichii"},
                                    "unavailable")
  BY DEF ApifyAvailability
<1> HIDE DEF v
<1>4. ApifyAvailability(fields) = InStock(v.set)
  BY <1>2, <1>3
<1> QED
  BY <1>2, <1>4 DEF InStock

LEMMA GenericStockRead ==
  ASSUME NEW fields, IsFields(fields), NEW n \in Nat \cup {None},
         StockIn(fields, StockPaths, n)
  PROVE  Shows(GenericAvailability(fields), n)
<1> DEFINE paths == <<"availability", "availabilityStatus", "inStock",
                      "isAvailable", "stock">>
           v == FirstValue(fields, paths)
<1>1. DOMAIN paths \subseteq Nat /\ Range(paths) \subseteq StockPaths
  BY DEF Range, StockPaths
<1>2. \/ v = None
      \/ v # None /\ TellsStock(v, n) /\ v.is \in {"flag", "number", "word"}
  <2> HIDE DEF paths
  <2> QED
    BY <1>1, StockSaid
<1>3. GenericAvailability(fields)
        = IF v = None THEN "unknown"
          ELSE CASE v.is = "flag" -> IF v.set THEN "in_stock" ELSE "out_of_stock"
                 [] v.is = "number" -> IF v.amount = 100 THEN "in_stock"
                                       ELSE IF v.amount = 0 THEN "out_of_stock"
                                       ELSE "unknown"
                 [] OTHER -> Worded(v.word, Yes \cup {"1"}, No \cup {"0"},
                                    "out_of_stock")
  BY DEF GenericAvailability
<1> HIDE DEF v
<1>4. CASE v = None
  <2>1. GenericAvailability(fields) = "unknown"
    BY <1>3, <1>4
  <2> QED
    BY <2>1, UnknownShows
<1>5. CASE v # None /\ v.is = "flag"
  <2>1. GenericAvailability(fields)
          = IF v.set THEN "in_stock" ELSE "out_of_stock"
    BY <1>3, <1>5
  <2> QED
    BY <1>2, <1>5, <2>1, FlagShows
<1>6. CASE v # None /\ v.is = "number"
  <2>1. GenericAvailability(fields)
          = IF v.amount = 100 THEN "in_stock"
            ELSE IF v.amount = 0 THEN "out_of_stock" ELSE "unknown"
    BY <1>3, <1>6
  <2>2. n \in Nat /\ v.amount \in Int /\ (v.amount > 0 <=> n > 0)
    BY <1>2, <1>6, NumberTells
  <2> QED
    BY <2>1, <2>2, PageAssumption DEF Shows
<1>7. CASE v # None /\ v.is = "word"
  <2>1. GenericAvailability(fields)
          = Worded(v.word, Yes \cup {"1"}, No \cup {"0"}, "out_of_stock")
    BY <1>3, <1>7
  <2>2. Yes \cup {"1"} \subseteq SaysYes /\ No \cup {"0"} \subseteq SaysNo
    BY DEF Yes, No, SaysYes, SaysNo
  <2> QED
    BY <1>2, <1>7, <2>1, <2>2, WordShows
<1> QED
  BY <1>2, <1>4, <1>5, <1>6, <1>7
=============================================================================
