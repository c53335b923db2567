------------------------------ MODULE ProductUrls ------------------------------
(***************************************************************************)
(* normalize_product_url: the links that name a product card, and the one  *)
(* URL under which each card is monitored, locked and kept as a source.    *)
(*                                                                         *)
(* A link is a record.  Its host is a name and whether that is respelt     *)
(* (capitals, a final dot).  Its path is the sequence of the segments that *)
(* are not empty; a segment is a word and the number that follows it (None *)
(* for no number, the empty word for a number alone), whether it has       *)
(* capitals, and how many layers of percent escapes it has more than the   *)
(* canonical spelling.                                                     *)
(***************************************************************************)
EXTENDS Naturals, Sequences

CONSTANTS
  Link,  \* links that users submit
  Digits, \* numbers of products, as written
  None

Segment == [word : {"", "catalog", "detail.aspx", "product", "tea",
                    "product--tea"},
            number : Digits \cup {None}, capital : BOOLEAN, escapes : Nat]

ASSUME LinkAssumption ==
  \A l \in Link :
    /\ l.scheme \in {"http", "https", "ftp"}
    /\ l.host = None \/ l.host.respelt \in BOOLEAN
    /\ l.port \in {None, "explicit", "invalid"}
    /\ l.login \in BOOLEAN /\ l.query \in BOOLEAN
    /\ l.path \in Seq(Segment)
    /\ \A i \in DOMAIN l.path : l.path[i].word = "" => ~l.path[i].capital

-----------------------------------------------------------------------------
(* _RULES: the hosts of each marketplace, and the one that is kept.        *)
Hosts == [ozon |-> {"ozon.ru", "www.ozon.ru", "m.ozon.ru"},
          wildberries |-> {"wildberries.ru", "www.wildberries.ru",
                           "m.wildberries.ru"},
          yandex_market |-> {"market.yandex.ru", "www.market.yandex.ru",
                             "m.market.yandex.ru"}]
Marketplace == DOMAIN Hosts

ASSUME NullAssumption ==
  /\ None # "invalid"
  /\ None \notin [name : UNION {Hosts[m] : m \in Marketplace}, respelt : BOOLEAN]

(* The variant keeps the host of the link.                                 *)
HostKept(l, m) == [l.host EXCEPT !.respelt = FALSE]
CanonicalHost(l, m) ==
  [name |-> CASE m = "ozon" -> "www.ozon.ru"
              [] m = "wildberries" -> "www.wildberries.ru"
              [] m = "yandex_market" -> "market.yandex.ru",
   respelt |-> FALSE]

Sells(m, l) == l.host # None /\ l.host.name \in Hosts[m]

(* A segment compared without regard to case, and one that is a number.    *)
Is(s, word) == s.word = word /\ s.number = None /\ s.escapes = 0
IsNumber(s) == s.word = "" /\ s.number # None /\ s.escapes = 0

Lower(word) ==
  [word |-> word, number |-> None, capital |-> FALSE, escapes |-> 0]

(* quote(unquote(s)).  The variant quotes only.                            *)
Quoted(s) == [s EXCEPT !.escapes = @ + 1]
Requoted(s) == [s EXCEPT !.escapes = 0]

IsProductSlug(s) == s.word = "product--tea"

(* The path under which a card is kept, << >> for a link that names none.  *)
(* The variant of the first loses the number at the end of the slug.       *)
OzonPathByWord(p) ==
  IF Len(p) >= 2 /\ Is(p[1], "product") /\ p[2].number # None
  THEN <<Lower("product"), [Requoted(p[2]) EXCEPT !.number = None]>>
  ELSE << >>
OzonPath(p) ==
  IF Len(p) >= 2 /\ Is(p[1], "product") /\ p[2].number # None
  THEN <<Lower("product"), Requoted(p[2])>>
  ELSE << >>

WildberriesPath(p) ==
  IF Len(p) >= 3 /\ Is(p[1], "catalog") /\ IsNumber(p[2])
     /\ Is(p[3], "detail.aspx")
  THEN <<Lower("catalog"), p[2], Lower("detail.aspx")>>
  ELSE << >>

YandexPath(p) ==
  IF Len(p) >= 2 /\ IsProductSlug(p[1]) /\ IsNumber(p[2])
  THEN <<Requoted(p[1]), p[2]>>
  ELSE << >>

PathOf(m, p) ==
  CASE m = "ozon" -> OzonPath(p)
    [] m = "wildberries" -> WildberriesPath(p)
    [] m = "yandex_market" -> YandexPath(p)

(* What is required of a link whatever the marketplace.                    *)
IsWebLink(l) ==
  /\ l.scheme \in {"http", "https"}
  /\ l.host # None
  /\ ~l.login
  /\ l.port # "invalid"

Supports(m, l) == IsWebLink(l) /\ Sells(m, l) /\ PathOf(m, l.path) # << >>
IsSupported(l) == \E m \in Marketplace : Supports(m, l)
MarketplaceOf(l) == CHOOSE m \in Marketplace : Sells(m, l)

Normalized(l) ==
  LET m == MarketplaceOf(l)
  IN  [scheme |-> "https", host |-> CanonicalHost(l, m), login |-> FALSE,
       port |-> None, path |-> PathOf(m, l.path), query |-> FALSE]

-----------------------------------------------------------------------------
(* create_monitor: the link is an HttpUrl, normalises, and belongs to the  *)
(* marketplace that the user chose, if any.  The form offers Wildberries.  *)
Accepts(l, chosen) ==
  /\ l.scheme # "ftp" /\ l.host # None /\ l.port # "invalid"
  /\ IsSupported(l)
  /\ chosen \in {None, MarketplaceOf(l)}

(* The links of monitors, and the URLs stored for them.                    *)
Accepted == {l \in Link : \E c \in Marketplace \cup {None} : Accepts(l, c)}
Stored == {Normalized(l) : l \in Accepted}

(* Reference: the product that a supported link names.                     *)
Card(l) == <<MarketplaceOf(l), l.path[2].number>>
=============================================================================
