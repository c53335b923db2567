--------------------------- MODULE MCProductFetch ----------------------------
(* ProductFetch with the defaults of infra/config.py in units of 50 ms.    *)
EXTENDS ProductFetch, TLC

Defaults ==
  /\ RequestTimeout = 60 * 20
  /\ 4 * BaseDelay = 20
  /\ MaxDelay = 5 * 20
  /\ Deadline = 180 * 20

ASSUME UnitIsConsistent == Defaults

Seg(w, n, e) == [word |-> w, number |-> n, capital |-> FALSE, escapes |-> e]
Capital(s) == [s EXCEPT !.capital = TRUE]

(* Paths of cards and of pages that are not cards.                         *)
Paths ==
  {<<Seg("catalog", None, e), Seg("", n, 0), last>> :
     e \in {0, 1}, n \in {"7", "8"},
     last \in {Seg("detail.aspx", None, 0),
               Capital(Seg("detail.aspx", None, 0)), Seg("tea", None, 0)}}
  \cup {<<Seg("catalog", None, 0), Seg("", "7", 1), Seg("detail.aspx", None, 0)>>,
        <<Seg("catalog", None, 0), Seg("tea", None, 0), Seg("detail.aspx", None, 0)>>,
        <<Seg("catalog", None, 0), Seg("", "7", 0)>>}
  \cup {<<Capital(Seg("product", None, 0)), Seg(w, n, e)>> :
          w \in {"", "tea"}, n \in {None, "7", "8"}, e \in {0, 1}}
  \cup {<<Capital(Seg("product--tea", None, e)), Seg("", n, 0), Seg("tea", "7", 0)>> :
          e \in {0, 1}, n \in {"7", "8"}}

(* Spellings of a link apart from its path.                                *)
Plain == [scheme |-> "https", host |-> None, login |-> FALSE, port |-> None,
          path |-> << >>, query |-> FALSE]
Spelled(h, p) ==
  LET l == [Plain EXCEPT !.host = [name |-> h, respelt |-> FALSE], !.path = p]
  IN  {l,
       [l EXCEPT !.scheme = "http", !.query = TRUE, !.host.respelt = TRUE],
       [l EXCEPT !.scheme = "ftp"],
       [l EXCEPT !.port = "explicit"],
       [l EXCEPT !.port = "invalid"],
       [l EXCEPT !.login = TRUE]}

Links ==
  {Plain}
  \cup UNION {Spelled(h, p) :
                h \in {"ozon.ru", "www.wildberries.ru", "m.wildberries.ru",
                       "market.yandex.ru", "shop.example"},
                p \in Paths}

WildberriesLinks ==
  Spelled("m.wildberries.ru",
          <<Seg("catalog", None, 0), Seg("", "7", 0),
            Seg("detail.aspx", None, 0)>>)

-----------------------------------------------------------------------------
(* Pages.  The product costs 1 234.50, before the discount 2 000; amounts  *)
(* in kopecks.                                                             *)
Sale == 123450
Base == 200000

One(v) == <<v>>
Kopecks(n) == One(Number(100 * n))
Roubles(n) == One(Number(n))
Count(n) == One(Number(100 * n))
Name(path) == path :> One(Word("name"))

Sold(price, old, stock) ==
  [price |-> price, old |-> old, stock |-> stock,
   currency |-> IF price = None THEN None ELSE "RUB"]

PageOf(at, fields, sold) ==
  [at |-> at, fields |-> fields, sold |-> sold, marks |-> {}, pow |-> FALSE]

Blank == PageOf("none", << >>, Sold(None, None, None))
Marked(p, marks) == [p EXCEPT !.marks = marks]

(* Stock in every way the direct provider finds it.                        *)
Stocks(n) ==
  {"totalQuantity" :> Count(n),
   "sizes.stocks.qty" :> <<Number(0), Number(100 * n)>>,
   ("sizes.stocks.qty" :> Count(0)) @@ ("sizes.qty" :> Count(n)),
   "inStock" :> One(Flag(n > 0)),
   ("availability" :> One(Empty))
     @@ ("status" :> One(Word(IF n > 0 THEN "available" ELSE "sold_out")))}

SizePrices ==
  ("sizes.price.product" :> <<Number(100 * Sale), Number(100 * Sale)>>)
    @@ ("sizes.price.basic" :> <<Number(100 * Base), Number(100 * Base)>>)
FlatPrices == ("salePriceU" :> Kopecks(Sale)) @@ ("priceU" :> Kopecks(Base))
RoublePrices == ("salePriceRub" :> Roubles(Sale)) @@ ("priceRub" :> Roubles(Base))

(* Cards of card.wb.ru with prices by size, flat prices or both, and what  *)
(* the basket hosts and other answers give.                                *)
DirectPages ==
  {PageOf("products", SizePrices @@ stock @@ Name("name"), Sold(Sale, Base, 3)) :
     stock \in Stocks(3)}
  \cup {PageOf("data.products", SizePrices @@ stock, Sold(Sale, Base, 0)) :
          stock \in Stocks(0)}
  \cup {PageOf("product", prices, Sold(Sale, Base, None)) :
          prices \in {FlatPrices, FlatPrices @@ SizePrices, RoublePrices}}
  \cup {PageOf("data.product", "priceU" :> Kopecks(Base), Sold(Base, Base, None)),
        PageOf("products", Name("name"), Sold(None, None, None)),
        PageOf("products", "id" :> Count(7), Sold(None, None, None)),
        PageOf("products", "salePriceU" :> Kopecks(-1), Sold(-1, None, None)),
        PageOf("root", Name("imt_name"), Sold(None, None, None)),
        Blank, [Blank EXCEPT !.pow = TRUE],
        Marked(Blank, {"antibot"}),
        Marked(PageOf("products", FlatPrices @@ Name("name"),
                      Sold(Sale, Base, None)), {"antibot"})}

(* Items of an Apify dataset.                                              *)
ApifyPages ==
  {PageOf("product", FlatPrices @@ Name("name") @@ stock, Sold(Sale, Base, n)) :
     <<n, stock>> \in
       {<<3, "availability" :> One(Word("in_stock"))>>,
        <<3, ("availability" :> One(Empty)) @@ ("totalQuantity" :> Count(3))>>,
        <<0, ("availability" :> One(Word("unavailable")))
               @@ ("inStock" :> One(Flag(FALSE)))>>,
        <<0, "quantity" :> Count(0)>>}}
  \cup {PageOf("root", RoublePrices @@ Name("name") @@ ("totalQuantity" :> Count(3)),
               Sold(Sale, Base, 3)),
        PageOf("root", RoublePrices @@ Name("name")
                         @@ ("isSoldOut" :> One(Flag(FALSE)))
                         @@ ("totalQuantity" :> Count(3)), Sold(Sale, Base, 3)),
        PageOf("item", FlatPrices @@ Name("name")
                         @@ ("isSoldOut" :> One(Flag(TRUE))), Sold(Sale, Base, 0)),
        PageOf("item", FlatPrices @@ Name("name")
                         @@ ("isSoldOut" :> One(Flag(FALSE))), Sold(Sale, Base, 3)),
        PageOf("item", "salePriceU" :> Kopecks(-1), Sold(-1, None, None)),
        PageOf("item", "id" :> Count(7), Sold(None, None, None)),
        Blank}
  \cup {Marked(Blank, {m}) : m \in {"missing", "limited", "forbidden", "antibot"}}

(* Texts of an amount in the notations that are read.                      *)
Texts(n) ==
  {Written(n \div 100, n % 100, g, p) :
     <<g, p>> \in {<<"none", "dot">>, <<"none", "comma">>, <<"space", "dot">>,
                   <<"space", "comma">>, <<"comma", "dot">>}}

GenericPages ==
  {PageOf(at, ("price" :> One(sale)) @@ ("oldPrice" :> One(Number(Base)))
                @@ ("currency" :> One(Word("rouble sign")))
                @@ ("inStock" :> One(Flag(TRUE))), Sold(Sale, Base, 3)) :
     at \in {"product", "root"}, sale \in Texts(Sale) \cup {Number(Sale)}}
  \cup {PageOf("productData",
               ("title" :> One(Word("name")))
                 @@ ("price" :> One(Written(2000, 0, "space", "none")))
                 @@ ("availability" :> One(Word("out_of_stock"))),
               Sold(Base, None, 0)),
        PageOf("product", ("price" :> One(Number(-1))), Sold(-1, None, None)),
        Blank, Marked(Blank, {"antibot"})}

Pages ==
  [wildberries_direct |-> DirectPages, apify |-> ApifyPages,
   zyte |-> GenericPages, mock |-> GenericPages]
=============================================================================
