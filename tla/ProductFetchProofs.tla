-------------------------- MODULE ProductFetchProofs --------------------------
(***************************************************************************)
(* What is proved of ProductUrls and ProductFetch: for every set of links, *)
(* any pages and answers, any number of basket hosts and attempts, and any *)
(* delays and deadline.                                                    *)
(***************************************************************************)
EXTENDS ProductPagesProofs

-----------------------------------------------------------------------------
(* Links and the URLs stored for them.                                     *)

LEMMA Marketplaces == Marketplace = {"ozon", "wildberries", "yandex_market"}
BY DEF Marketplace, Hosts

(* A host belongs to one marketplace.                                      *)
LEMMA HostsAreDisjoint ==
  ASSUME NEW l, NEW m \in Marketplace, Sells(m, l)
  PROVE  MarketplaceOf(l) = m
<1>1. ASSUME NEW n \in Marketplace, Sells(n, l)
      PROVE  n = m
  BY <1>1, Marketplaces DEF Sells, Hosts
<1> QED
  BY <1>1 DEF MarketplaceOf

LEMMA RequotedTwice ==
  ASSUME NEW s \in Segment
  PROVE  /\ Requoted(s) \in Segment
         /\ Requoted(Requoted(s)) = Requoted(s)
         /\ Requoted(s).word = s.word /\ Requoted(s).number = s.number
         /\ Requoted(s).escapes = 0
BY DEF Segment, Requoted

(* The path of a card is its own canonical path, and names the same card.  *)
LEMMA PathIsFinal ==
  ASSUME NEW m \in Marketplace, NEW p \in Seq(Segment), PathOf(m, p) # << >>
  PROVE  /\ PathOf(m, PathOf(m, p)) = PathOf(m, p)
         /\ PathOf(m, p)[2].number = p[2].number
<1>1. CASE m = "ozon"
  <2>1. /\ PathOf(m, p) = <<Lower("product"), Requoted(p[2])>>
        /\ p[2].number # None /\ p[2] \in Segment
    BY <1>1 DEF PathOf, OzonPath
  <2>2. Requoted(p[2]).number # None
    BY <2>1, RequotedTwice
  <2>3. Is(Lower("product"), "product")
    BY DEF Is, Lower
  <2>4. OzonPath(<<Lower("product"), Requoted(p[2])>>)
          = <<Lower("product"), Requoted(Requoted(p[2]))>>
    BY <2>2, <2>3 DEF OzonPath
  <2> QED
    BY <1>1, <2>1, <2>4, RequotedTwice DEF PathOf
<1>2. CASE m = "wildberries"
  <2>1. /\ PathOf(m, p) = <<Lower("catalog"), p[2], Lower("detail.aspx")>>
        /\ IsNumber(p[2])
    BY <1>2 DEF PathOf, WildberriesPath
  <2>2. Is(Lower("catalog"), "catalog") /\ Is(Lower("detail.aspx"), "detail.aspx")
    BY DEF Is, Lower
  <2>3. WildberriesPath(<<Lower("catalog"), p[2], Lower("detail.aspx")>>)
          = <<Lower("catalog"), p[2], Lower("detail.aspx")>>
    BY <2>1, <2>2 DEF WildberriesPath
  <2> QED
    BY <1>2, <2>1, <2>3 DEF PathOf
<1>3. CASE m = "yandex_market"
  <2>1. /\ PathOf(m, p) = <<Requoted(p[1]), p[2]>>
        /\ p[1] \in Segment /\ IsProductSlug(p[1]) /\ IsNumber(p[2])
    BY <1>3 DEF PathOf, YandexPath
  <2>2. IsProductSlug(Requoted(p[1]))
    BY <2>1, RequotedTwice DEF IsProductSlug
  <2>3. YandexPath(<<Requoted(p[1]), p[2]>>) = <<Requoted(Requoted(p[1])), p[2]>>
    BY <2>1, <2>2 DEF YandexPath
  <2> QED
    BY <1>3, <2>1, <2>3, RequotedTwice DEF PathOf
<1> QED
  BY <1>1, <1>2, <1>3, Marketplaces

LEMMA CanonicalHostSells ==
  ASSUME NEW l, NEW m \in Marketplace
  PROVE  /\ CanonicalHost(l, m) # None
         /\ CanonicalHost(l, m).name \in Hosts[m]
<1>1. CanonicalHost(l, m).name \in Hosts[m]
  BY Marketplaces DEF CanonicalHost, Hosts
<1>2. CanonicalHost(l, m)
        \in [name : UNION {Hosts[n] : n \in Marketplace}, respelt : BOOLEAN]
  BY <1>1 DEF CanonicalHost
<1> QED
  BY <1>1, <1>2, NullAssumption

LEMMA LinksHavePaths ==
  ASSUME NEW l \in Link
  PROVE  l.path \in Seq(Segment)
BY LinkAssumption

LEMMA SupportedBy ==
  ASSUME NEW l, IsSupported(l)
  PROVE  /\ MarketplaceOf(l) \in Marketplace
         /\ Supports(MarketplaceOf(l), l)
BY HostsAreDisjoint DEF IsSupported, Supports

(* normalize_product_url is a projection: it accepts what it returns, does *)
(* not change it again, and keeps the card.                                *)
LEMMA NormalizedIsFinal ==
  ASSUME NEW l \in Link, IsSupported(l)
  PROVE  /\ IsSupported(Normalized(l))
         /\ MarketplaceOf(Normalized(l)) = MarketplaceOf(l)
         /\ Normalized(Normalized(l)) = Normalized(l)
         /\ Card(Normalized(l)) = Card(l)
<1> DEFINE m == MarketplaceOf(l)
           n == Normalized(l)
<1>1. m \in Marketplace /\ PathOf(m, l.path) # << >>
  BY SupportedBy DEF Supports
<1>2. /\ n.scheme = "https" /\ ~n.login /\ n.port = None
      /\ n.host = CanonicalHost(l, m) /\ n.path = PathOf(m, l.path)
      /\ n = [scheme |-> "https", host |-> CanonicalHost(l, m),
              login |-> FALSE, port |-> None, path |-> PathOf(m, l.path),
              query |-> FALSE]
  BY DEF Normalized
<1>3. PathOf(m, n.path) = n.path /\ n.path[2].number = l.path[2].number
  BY <1>1, <1>2, LinksHavePaths, PathIsFinal
<1> HIDE DEF m, n
<1>4. Sells(m, n)
  BY <1>1, <1>2, CanonicalHostSells DEF Sells
<1>5. MarketplaceOf(n) = m
  BY <1>1, <1>4, HostsAreDisjoint
<1>6. Supports(m, n)
  BY <1>1, <1>2, <1>3, <1>4, CanonicalHostSells, NullAssumption
     DEF Supports, IsWebLink
<1>7. IsSupported(n)
  BY <1>1, <1>6 DEF IsSupported
<1>8. Normalized(n) = n
  <2>1. Normalized(n) =
          [scheme |-> "https", host |-> CanonicalHost(n, m), login |-> FALSE,
           port |-> None, path |-> PathOf(m, n.path), query |-> FALSE]
    BY <1>5 DEF Normalized
  <2>2. CanonicalHost(n, m) = CanonicalHost(l, m)
    BY DEF CanonicalHost
  <2> QED
    BY <1>2, <1>3, <2>1, <2>2
<1>9. Card(n) = <<m, l.path[2].number>>
  BY <1>3, <1>5 DEF Card
<1> QED
  BY <1>5, <1>7, <1>8, <1>9 DEF Card, m, n

(* A stored URL is the normal form of a link that was accepted.            *)
LEMMA StoredIsNormal ==
  ASSUME NEW u \in Stored
  PROVE  /\ IsSupported(u) /\ Normalized(u) = u
         /\ \E l \in Link : /\ IsSupported(l) /\ u = Normalized(l)
                            /\ MarketplaceOf(l) = MarketplaceOf(u)
                            /\ Card(l) = Card(u)
BY NormalizedIsFinal DEF Stored, Accepted, Accepts

-----------------------------------------------------------------------------
(* Spec never leaves the URLs that are stored.                             *)
THEOREM UrlStays == Spec => [](url \in Stored)
<1>1. Init => url \in Stored
  BY DEF Init
<1>2. url \in Stored /\ [Next]_vars => (url \in Stored)'
  BY DEF Next, vars, callVars, RefuseUrl, Ask, Wake, DeadlineComes, ShutDown,
         CutOff
<1> QED
  BY <1>1, <1>2, PTL DEF Spec

(* A Wildberries URL that is stored has its article where every provider   *)
(* looks for it.                                                           *)
LEMMA WildberriesIsAsked ==
  ASSUME url \in Stored, MarketplaceOf(url) = "wildberries"
  PROVE  Refusal = None
<1>1. Supports("wildberries", url) /\ Normalized(url) = url
  BY StoredIsNormal, SupportedBy
<1>2. HasArticle(url.path)
  BY <1>1 DEF Supports, PathOf, WildberriesPath, HasArticle
<1> QED
  BY <1>1, <1>2, StoredIsNormal DEF Refusal, ForeignMarketplace

(* A check locks and files the product under the URL stored for its        *)
(* monitor, and every provider asks about a Wildberries link.              *)
THEOREM UrlIsFinal == Spec => []StoredUrlIsFinal
<1>1. url \in Stored => StoredUrlIsFinal
  BY StoredIsNormal, WildberriesIsAsked DEF StoredUrlIsFinal
<1> QED
  BY <1>1, UrlStays, PTL

(* Monitors that share a source watch one product.                         *)
THEOREM SourcesAreCards == Spec => []SourceIsOneCard
<1>1. url \in Stored => SourceIsOneCard
  <2> SUFFICES ASSUME url \in Stored, NEW l \in Accepted, Normalized(l) = url
               PROVE  Card(l) = Card(url)
    BY DEF SourceIsOneCard
  <2> QED
    BY NormalizedIsFinal DEF Accepted, Accepts
<1> QED
  BY <1>1, UrlStays, PTL

(* Wildberries links to one card have one normal form.                     *)
LEMMA WildberriesIsByNumber ==
  ASSUME NEW l \in Link, NEW k \in Link, IsSupported(l), IsSupported(k),
         MarketplaceOf(l) = "wildberries", Card(l) = Card(k)
  PROVE  Normalized(l) = Normalized(k)
<1>1. ASSUME NEW j \in Link, IsSupported(j), MarketplaceOf(j) = "wildberries"
      PROVE  /\ PathOf("wildberries", j.path)
                  = <<Lower("catalog"), j.path[2], Lower("detail.aspx")>>
             /\ j.path[2] = [word |-> "", number |-> j.path[2].number,
                             capital |-> FALSE, escapes |-> 0]
  <2>1. PathOf("wildberries", j.path) # << >>
    BY <1>1, SupportedBy DEF Supports
  <2>2. /\ PathOf("wildberries", j.path)
             = <<Lower("catalog"), j.path[2], Lower("detail.aspx")>>
        /\ IsNumber(j.path[2]) /\ Len(j.path) >= 3
    BY <2>1 DEF PathOf, WildberriesPath
  <2>3. 2 \in DOMAIN j.path /\ j.path[2] \in Segment
    BY <1>1, <2>2, LinksHavePaths
  <2>4. ~j.path[2].capital
    BY <1>1, <2>2, <2>3, LinkAssumption DEF IsNumber
  <2> QED
    BY <2>2, <2>3, <2>4 DEF IsNumber, Segment
<1>2. MarketplaceOf(k) = "wildberries" /\ l.path[2].number = k.path[2].number
  BY DEF Card
<1>3. PathOf("wildberries", l.path) = PathOf("wildberries", k.path)
  <2>1. /\ l.path[2] = [word |-> "", number |-> l.path[2].number,
                        capital |-> FALSE, escapes |-> 0]
        /\ k.path[2] = [word |-> "", number |-> k.path[2].number,
                        capital |-> FALSE, escapes |-> 0]
    BY <1>1, <1>2
  <2>2. l.path[2] = k.path[2]
    BY <1>2, <2>1, Zenon
  <2> QED
    BY <1>1, <1>2, <2>2
<1> QED
  BY <1>2, <1>3 DEF Normalized, CanonicalHost

(* They are filed under one source, however they are spelled.              *)
THEOREM CardsAreSources == Spec => []CardHasOneSource
<1>1. url \in Stored => CardHasOneSource
  <2> SUFFICES ASSUME url \in Stored, NEW l \in Accepted,
                      Card(l) = Card(url), MarketplaceOf(l) = "wildberries"
               PROVE  Normalized(l) = url
    BY DEF CardHasOneSource
  <2>1. PICK k \in Link : /\ IsSupported(k) /\ url = Normalized(k)
                          /\ MarketplaceOf(k) = MarketplaceOf(url)
                          /\ Card(k) = Card(url)
    BY StoredIsNormal
  <2>2. l \in Link /\ IsSupported(l)
    BY DEF Accepted, Accepts
  <2> QED
    BY <2>1, <2>2, WildberriesIsByNumber
<1> QED
  BY <1>1, UrlStays, PTL

-----------------------------------------------------------------------------
(* The fetch.  While it asks, an attempt has asked the endpoints before    *)
(* the one it is at; a fetch that is not done has met only what is asked   *)
(* again, and sleeps only if an attempt is left.                           *)
AskedAgain == {"provider_timeout", "provider_rate_limited",
               "provider_request_error"}

AsksInOrder == phase = "asking" => asked = 1..(endpoint - 1)
GoesOn ==
  /\ phase # "done" => error \in {None} \cup AskedAgain
  /\ phase = "sleeping" => attempt < MaxAttempts

FetchInv == TypeOK /\ AsksInOrder /\ GoesOn /\ NotFoundIsExhaustive

LEMMA SomeEndpoint ==
  ASSUME provider \in Provider
  PROVE  Endpoints \in Nat \ {0}
BY FetchAssumption DEF Endpoints, CardEndpoints

(* What a provider may make of an answer: a success has a page, and only   *)
(* the providers with one endpoint find out by themselves that a product   *)
(* is missing.                                                             *)
LEMMA VerdictTyped ==
  ASSUME provider \in Provider, NEW a \in Answer, NEW p
  PROVE  /\ Verdict(a, p) \in Error \cup {"success", "next"}
         /\ Verdict(a, p) = "success" => a = "200"
         /\ Verdict(a, p) = "product_not_found" => Endpoints = 1
<1>1. \A v : Validated(v) \in {"success", "unexpected_product_fetch_error"}
  BY DEF Validated
<1>2. \A v : Recognised(v) \in {"success", "unexpected_product_fetch_error",
                                "page_structure_changed"}
  BY <1>1 DEF Recognised
<1>3. DirectVerdict(p) \in {"success", "unexpected_product_fetch_error",
                            "page_structure_changed", "provider_blocked", "next"}
  BY <1>2 DEF DirectVerdict
<1>4. DatasetVerdict(p) \in {"success", "unexpected_product_fetch_error",
                             "page_structure_changed", "provider_blocked",
                             "provider_rate_limited", "product_not_found"}
  BY <1>2 DEF DatasetVerdict
<1>5. /\ Unread(a) \in {"provider_timeout", "provider_request_error",
                        "provider_payload_error"}
  BY DEF Unread
<1>6. CASE provider = "apify"
  <2>1. Verdict(a, p) = ApifyVerdict(a, p)
    BY <1>6 DEF Verdict
  <2>2. /\ ApifyVerdict(a, p) \in Error \cup {"success", "next"}
        /\ ApifyVerdict(a, p) = "success" => a = "200"
    BY <1>4, <1>5 DEF ApifyVerdict, Error
  <2> QED
    BY <1>6, <2>1, <2>2 DEF Endpoints
<1>7. CASE provider = "zyte"
  <2>1. Verdict(a, p) = ZyteVerdict(a, p)
    BY <1>7 DEF Verdict
  <2>2. /\ ZyteVerdict(a, p) \in Error \cup {"success", "next"}
        /\ ZyteVerdict(a, p) = "success" => a = "200"
    BY <1>1, <1>5 DEF ZyteVerdict, Error
  <2> QED
    BY <1>7, <2>1, <2>2 DEF Endpoints
<1>8. CASE provider = "mock"
  <2>1. Verdict(a, p) = MockVerdict(a, p)
    BY <1>8 DEF Verdict
  <2>2. /\ MockVerdict(a, p) \in Error \cup {"success", "next"}
        /\ MockVerdict(a, p) = "success" => a = "200"
    BY <1>1 DEF MockVerdict, Error
  <2> QED
    BY <1>8, <2>1, <2>2 DEF Endpoints
<1>9. CASE provider = "wildberries_direct"
  <2>1. Verdict(a, p) \in {CardVerdict(a, p), BasketVerdict(a, p)}
    BY <1>9 DEF Verdict
  <2>2. /\ CardVerdict(a, p) \in (Error \ {"product_not_found"})
                                   \cup {"success", "next"}
        /\ CardVerdict(a, p) = "success" => a = "200"
    BY <1>3, <1>5 DEF CardVerdict, Error
  <2>3. /\ BasketVerdict(a, p) \in (Error \ {"product_not_found"})
                                     \cup {"success", "next"}
        /\ BasketVerdict(a, p) = "success" => a = "200"
    BY <1>3, <1>5 DEF BasketVerdict, Error
  <2> QED
    BY <2>1, <2>2, <2>3
<1> QED
  BY <1>6, <1>7, <1>8, <1>9, FetchAssumption

(* The delays are not negative.                                            *)
LEMMA DelaysTyped ==
  ASSUME NEW n \in 1..MaxAttempts
  PROVE  Delays(n) \subseteq Nat
<1> DEFINE full == BaseDelay * 2 ^ (n - 1)
           delay == IF full < MaxDelay THEN full ELSE MaxDelay
<1>1. full \in Nat
  BY PowerAssumption, FetchAssumption
<1> HIDE DEF full
<1>2. delay \in Nat
  BY <1>1, FetchAssumption
<1> HIDE DEF delay
<1>3. delay \div JitterPart \in 0..delay
  BY <1>2, FetchAssumption
<1>4. {delay - delay \div JitterPart, delay + delay \div JitterPart} \subseteq Nat
  BY <1>2, <1>3
<1> QED
  BY <1>4 DEF Delays, full, delay

(* The except clause of the retry policy.                                  *)
LEMMA RaiseKeepsInv ==
  ASSUME FetchInv, phase = "asking", NEW e \in Error, Raise(e),
         UNCHANGED <<callVars, page>>, elapsed' \in Nat,
         asked' \subseteq 1..Endpoints,
         e = "product_not_found" => asked' = 1..Endpoints
  PROVE  FetchInv'
<1>1. /\ result = None /\ page = None
      /\ attempt \in 1..MaxAttempts /\ MaxAttempts \in Nat
  BY FetchAssumption, ResultAssumption DEF FetchInv, TypeOK
<1>2. error' = e /\ attempt' = attempt /\ endpoint' = endpoint
      /\ provider' = provider /\ url' = url /\ worker' = worker
      /\ page' = None
  BY <1>1 DEF Raise, callVars
<1>3. Endpoints' = Endpoints
  BY <1>2 DEF Endpoints
<1>4. CASE Retryable(e) /\ ~IsLastAttempt
  <2>1. phase' = "sleeping" /\ result' = None /\ attempt < MaxAttempts
    BY <1>1, <1>4 DEF Raise, IsLastAttempt
  <2>2. e \in AskedAgain
    BY <1>4 DEF Retryable, AskedAgain
  <2> QED
    BY <1>1, <1>2, <1>3, <2>1, <2>2, ResultAssumption
       DEF FetchInv, TypeOK, AsksInOrder, GoesOn, NotFoundIsExhaustive, Error
<1>5. CASE ~(Retryable(e) /\ ~IsLastAttempt)
  <2>1. phase' = "done" /\ result' \in Error \cup {"cut_off"}
    BY <1>5 DEF Raise, End, Error
  <2>2. result' = "product_not_found" => e = "product_not_found"
    BY <1>5 DEF Raise, End
  <2>3. result' # None /\ result' # "success"
    BY <2>1, ResultAssumption DEF Error
  <2> QED
    BY <1>1, <1>2, <1>3, <2>1, <2>2, <2>3
       DEF FetchInv, TypeOK, AsksInOrder, GoesOn, NotFoundIsExhaustive
<1> QED
  BY <1>4, <1>5

LEMMA RefuseKeepsInv ==
  ASSUME FetchInv, RefuseUrl
  PROVE  FetchInv'
<1>1. Refusal \in Error \ {"product_not_found"}
  BY DEF RefuseUrl, Refusal, Error
<1> QED
  BY <1>1, RaiseKeepsInv DEF RefuseUrl, FetchInv, TypeOK

LEMMA AskKeepsInv ==
  ASSUME FetchInv, NEW a \in Answer, NEW p \in Page[provider] \cup {None},
         NEW d \in Duration, Ask(a, p, d)
  PROVE  FetchInv'
<1> DEFINE v == Verdict(a, p)
<1>1. /\ provider \in Provider /\ Endpoints \in Nat \ {0}
      /\ endpoint \in 1..Endpoints /\ asked = 1..(endpoint - 1)
      /\ result = None /\ page = None
  BY SomeEndpoint, ResultAssumption DEF Ask, FetchInv, TypeOK, AsksInOrder
<1>2. elapsed' \in Nat
  <2>1. d \in Nat
    BY FetchAssumption DEF Duration
  <2> QED
    BY <2>1 DEF Ask, FetchInv, TypeOK
<1>3. asked' = 1..endpoint
  BY <1>1 DEF Ask
<1>4. /\ UNCHANGED callVars
      /\ provider' = provider /\ url' = url /\ worker' = worker
      /\ Endpoints' = Endpoints
  BY DEF Ask, callVars, Endpoints
<1>5. /\ v \in Error \cup {"success", "next"}
      /\ v = "success" => p # None
      /\ v = "product_not_found" => Endpoints = 1
  BY <1>1, VerdictTyped DEF Ask
<1>6. CASE v = "success" /\ End("success") /\ page' = p
           /\ UNCHANGED <<attempt, endpoint, error>>
  <2>1. /\ phase' = "done" /\ result' = "success" /\ page' # None
        /\ page' \in Page[provider'] \cup {None}
        /\ attempt' = attempt /\ endpoint' = endpoint /\ error' = error
    BY <1>4, <1>5, <1>6 DEF End
  <2>2. result' # None
    BY <2>1, ResultAssumption
  <2> QED
    BY <1>1, <1>2, <1>3, <1>4, <2>1, <2>2
       DEF FetchInv, TypeOK, AsksInOrder, GoesOn, NotFoundIsExhaustive
<1>7. CASE v = "next" /\ endpoint < Endpoints /\ endpoint' = endpoint + 1
           /\ UNCHANGED <<phase, attempt, error, result, page>>
  BY <1>1, <1>2, <1>3, <1>4, <1>7, ResultAssumption
     DEF FetchInv, TypeOK, AsksInOrder, GoesOn, NotFoundIsExhaustive, Ask
<1>8. CASE v = "next" /\ endpoint = Endpoints /\ Raise("product_not_found")
           /\ UNCHANGED page
  <2>1. "product_not_found" \in Error
    BY DEF Error
  <2> QED
    BY <1>1, <1>2, <1>3, <1>4, <1>8, <2>1, RaiseKeepsInv DEF Ask
<1>9. CASE v \in Error /\ Raise(v) /\ UNCHANGED page
  <2>1. v = "product_not_found" => asked' = 1..Endpoints
    BY <1>1, <1>3, <1>5
  <2>2. asked' \subseteq 1..Endpoints
    BY <1>1, <1>3
  <2> QED
    BY <1>2, <1>4, <1>9, <2>1, <2>2, RaiseKeepsInv DEF Ask
<1> QED
  BY <1>6, <1>7, <1>8, <1>9 DEF Ask

LEMMA WakeKeepsInv ==
  ASSUME FetchInv, NEW d \in Delays(attempt), Wake(d)
  PROVE  FetchInv'
<1>1. /\ attempt \in 1..MaxAttempts /\ attempt < MaxAttempts
      /\ MaxAttempts \in Nat /\ result = None
      /\ Endpoints \in Nat \ {0} /\ d \in Nat /\ elapsed \in Nat
  BY FetchAssumption, SomeEndpoint, DelaysTyped
     DEF Wake, FetchInv, TypeOK, GoesOn
<1>2. /\ elapsed' \in Nat /\ phase' = "asking" /\ attempt' \in 1..MaxAttempts
      /\ endpoint' = 1 /\ asked' = {} /\ error' = error /\ result' = None
      /\ page' = page /\ provider' = provider /\ url' = url /\ worker' = worker
  BY <1>1 DEF Wake, callVars, FirstEndpoint
<1>3. Endpoints' = Endpoints
  BY <1>2 DEF Endpoints
<1>4. asked' = 1..(endpoint' - 1)
  BY <1>2
<1>5. endpoint' \in 1..Endpoints'
  BY <1>1, <1>2, <1>3
<1> QED
  BY <1>1, <1>2, <1>3, <1>4, <1>5, ResultAssumption
     DEF FetchInv, TypeOK, AsksInOrder, GoesOn, NotFoundIsExhaustive, Wake, Error

LEMMA CutOffKeepsInv ==
  ASSUME FetchInv, CutOff, elapsed' \in Nat
  PROVE  FetchInv'
<1>1. CASE phase = "asking" /\ Raise("cancelled")
  <2>1. "cancelled" \in Error
    BY DEF Error
  <2> QED
    BY <1>1, <2>1, RaiseKeepsInv DEF CutOff, FetchInv, TypeOK
<1>2. CASE phase = "sleeping" /\ End("cut_off")
           /\ UNCHANGED <<attempt, endpoint, error>>
  <2>1. /\ phase' = "done" /\ result' = "cut_off" /\ page' = page
        /\ attempt' = attempt /\ endpoint' = endpoint /\ error' = error
        /\ asked' = asked
        /\ provider' = provider /\ url' = url /\ worker' = worker
    BY <1>2 DEF End, CutOff, callVars
  <2>2. Endpoints' = Endpoints
    BY <2>1 DEF Endpoints
  <2>3. result = None /\ page = None /\ result' # None
    BY <1>2, <2>1, ResultAssumption DEF FetchInv, TypeOK
  <2> QED
    BY <2>1, <2>2, <2>3
       DEF FetchInv, TypeOK, AsksInOrder, GoesOn, NotFoundIsExhaustive
<1> QED
  BY <1>1, <1>2 DEF CutOff

(* The invariant of the fetch.                                             *)
THEOREM FetchSound == Spec => []FetchInv
<1>1. Init => FetchInv
  BY SomeEndpoint, FetchAssumption, ResultAssumption
     DEF Init, FetchInv, TypeOK, AsksInOrder, GoesOn, NotFoundIsExhaustive,
         Error
<1>2. FetchInv /\ [Next]_vars => FetchInv'
  <2> SUFFICES ASSUME FetchInv, [Next]_vars
               PROVE  FetchInv'
    OBVIOUS
  <2>1. CASE UNCHANGED vars
    <3>1. Endpoints' = Endpoints
      BY <2>1 DEF vars, callVars, Endpoints
    <3> QED
      BY <2>1, <3>1 DEF vars, callVars, FetchInv, TypeOK, AsksInOrder, GoesOn,
                        NotFoundIsExhaustive
  <2>2. CASE RefuseUrl
    BY <2>2, RefuseKeepsInv
  <2>3. ASSUME NEW a \in Answer, NEW p \in Page[provider] \cup {None},
               NEW d \in Duration, Ask(a, p, d)
        PROVE  FetchInv'
    BY <2>3, AskKeepsInv
  <2>4. ASSUME NEW d \in Delays(attempt), Wake(d)
        PROVE  FetchInv'
    BY <2>4, WakeKeepsInv
  <2>5. CASE DeadlineComes
    BY <2>5, CutOffKeepsInv, FetchAssumption DEF DeadlineComes
  <2>6. CASE ShutDown
    BY <2>6, CutOffKeepsInv DEF ShutDown, FetchInv, TypeOK
  <2> QED
    BY <2>1, <2>2, <2>3, <2>4, <2>5, <2>6 DEF Next
<1> QED
  BY <1>1, <1>2, PTL DEF Spec

(* Every variable has its type; a call that is done has a result.          *)
THEOREM TypeCorrect == Spec => []TypeOK
<1>1. FetchInv => TypeOK
  BY DEF FetchInv
<1> QED
  BY <1>1, FetchSound, PTL

(* A product is reported missing only by an attempt that asked all the     *)
(* endpoints.                                                              *)
THEOREM MissingEverywhere == Spec => []NotFoundIsExhaustive
<1>1. FetchInv => NotFoundIsExhaustive
  BY DEF FetchInv
<1> QED
  BY <1>1, FetchSound, PTL

(* Nothing is sent after an error that is not asked again.                 *)
THEOREM RefusalIsFinal == Spec => RefusalEndsFetch
<1>1. FetchInv /\ [Next]_vars
        => [requests' # requests
              => error \in {None, "provider_timeout", "provider_rate_limited",
                            "provider_request_error"}]_vars
  <2> SUFFICES ASSUME FetchInv, Next, requests' # requests
               PROVE  error \in {None} \cup AskedAgain
    BY DEF AskedAgain
  <2>1. phase = "asking"
    BY DEF Next, RefuseUrl, Ask, Wake, DeadlineComes, ShutDown, CutOff
  <2> QED
    BY <2>1 DEF FetchInv, GoesOn
<1> QED
  BY <1>1, FetchSound, PTL DEF Spec, RefusalEndsFetch

-----------------------------------------------------------------------------
(* What a success was read from.  A provider of Wildberries pages succeeds *)
(* only with a page where it finds a product.                              *)
ProductFound ==
  result = "success" =>
    /\ provider = "apify" => ApifyProduct(page) # None
    /\ provider = "wildberries_direct" => DirectProduct(page) # None

LEMMA VerdictHasProduct ==
  ASSUME provider \in Provider, NEW a \in Answer, NEW p,
         Verdict(a, p) = "success"
  PROVE  /\ provider = "apify" => ApifyProduct(p) # None
         /\ provider = "wildberries_direct" => DirectProduct(p) # None
<1>1. Unread(a) # "success"
  BY DEF Unread
<1>2. ASSUME provider = "apify"
      PROVE  ApifyProduct(p) # None
  <2>1. ApifyVerdict(a, p) = "success"
    BY <1>2 DEF Verdict
  <2>2. a = "200" /\ DatasetVerdict(p) = "success"
    BY <1>1, <2>1 DEF ApifyVerdict
  <2> QED
    BY <2>2 DEF DatasetVerdict
<1>3. ASSUME provider = "wildberries_direct"
      PROVE  DirectProduct(p) # None
  <2>1. CardVerdict(a, p) = "success" \/ BasketVerdict(a, p) = "success"
    BY <1>3 DEF Verdict
  <2>2. CardVerdict(a, p) = "success" => DirectVerdict(p) = "success"
    BY <1>1 DEF CardVerdict
  <2>3. BasketVerdict(a, p) = "success" => DirectVerdict(p) = "success"
    BY <1>1 DEF BasketVerdict
  <2>4. DirectVerdict(p) = "success"
    BY <2>1, <2>2, <2>3
  <2> QED
    BY <2>4 DEF DirectVerdict
<1> QED
  BY <1>2, <1>3

LEMMA RaiseIsNoSuccess ==
  ASSUME phase = "asking", FetchInv, NEW e \in Error, Raise(e)
  PROVE  result' # "success"
<1>1. result # "success"
  BY ResultAssumption DEF FetchInv, TypeOK
<1>2. CASE UNCHANGED result
  BY <1>1, <1>2
<1>3. CASE result' \in Error \cup {"cut_off", "provider_request_error"}
  BY <1>3 DEF Error
<1> QED
  BY <1>2, <1>3 DEF Raise, End

THEOREM SuccessHasProduct == Spec => []ProductFound
<1>1. Init => ProductFound
  BY ResultAssumption DEF Init, ProductFound
<1>2. FetchInv /\ ProductFound /\ [Next]_vars => ProductFound'
  <2> SUFFICES ASSUME FetchInv, ProductFound, [Next]_vars
               PROVE  ProductFound'
    OBVIOUS
  <2>1. CASE UNCHANGED vars
    BY <2>1 DEF vars, callVars, ProductFound
  <2>2. CASE RefuseUrl
    <3>1. Refusal \in Error /\ Raise(Refusal) /\ phase = "asking"
      BY <2>2 DEF RefuseUrl, Refusal, Error
    <3> QED
      BY <3>1, RaiseIsNoSuccess DEF ProductFound
  <2>3. ASSUME NEW a \in Answer, NEW p \in Page[provider] \cup {None},
               NEW d \in Duration, Ask(a, p, d)
        PROVE  ProductFound'
    <3>1. phase = "asking" /\ provider' = provider /\ provider \in Provider
      BY <2>3 DEF Ask, callVars, FetchInv, TypeOK
    <3>2. result # "success"
      BY <3>1, ResultAssumption DEF FetchInv, TypeOK
    <3>3. CASE Verdict(a, p) = "success" /\ page' = p
      BY <3>1, <3>3, VerdictHasProduct DEF ProductFound
    <3>4. CASE UNCHANGED result
      BY <3>2, <3>4 DEF ProductFound
    <3>5. ASSUME NEW e \in Error, Raise(e)
          PROVE  ProductFound'
      BY <3>1, <3>5, RaiseIsNoSuccess DEF ProductFound
    <3>6. "product_not_found" \in Error
      BY DEF Error
    <3> QED
      BY <2>3, <3>3, <3>4, <3>5, <3>6 DEF Ask
  <2>4. ASSUME NEW d \in Delays(attempt), Wake(d)
        PROVE  ProductFound'
    BY <2>4 DEF Wake, callVars, ProductFound
  <2>5. ASSUME CutOff
        PROVE  ProductFound'
    <3>1. "cancelled" \in Error
      BY DEF Error
    <3>2. CASE phase = "asking" /\ Raise("cancelled")
      BY <3>1, <3>2, RaiseIsNoSuccess DEF ProductFound
    <3>3. CASE End("cut_off")
      BY <3>3 DEF End, ProductFound
    <3> QED
      BY <2>5, <3>2, <3>3 DEF CutOff
  <2> QED
    BY <2>1, <2>2, <2>3, <2>4, <2>5 DEF Next, DeadlineComes, ShutDown
<1> QED
  BY <1>1, <1>2, FetchSound, PTL DEF Spec

(* The snapshot has the price, the currency and the stock of the page.     *)
LEMMA SnapshotRead ==
  ASSUME FetchInv, ProductFound, result = "success"
  PROVE  /\ Snapshot.price = page.sold.price
         /\ Snapshot.old = page.sold.old
         /\ Snapshot.currency = page.sold.currency
         /\ ~OnlySoldOutFlag => Shows(Snapshot.availability, page.sold.stock)
<1>1. provider \in Provider /\ page \in Page[provider]
  BY DEF FetchInv, TypeOK
<1>2. PageSays(provider, page)
  BY <1>1, PageAssumption
<1>3. CASE provider = "apify"
  <2> DEFINE fields == ApifyProduct(page)
  <2>1. ApifyPageSays(fields, page.sold)
    BY <1>2, <1>3 DEF PageSays, ProductFound
  <2>2. Snapshot = ApifyValues(fields)
    BY <1>3 DEF Snapshot
  <2> HIDE DEF fields
  <2>3. /\ IsFields(fields) /\ IsSale(page.sold)
        /\ WildberriesPrices(fields, ApifyPrice, ApifyOldPrice, page.sold)
        /\ CurrencyIn(fields, Range(CurrencyPaths), {}, page.sold)
        /\ StockIn(fields, StockPaths, page.sold.stock)
    BY <2>1 DEF ApifyPageSays
  <2>4. /\ FirstPrice(fields, ApifyPrice) = page.sold.price
        /\ FirstPrice(fields, ApifyOldPrice) = page.sold.old
    BY <2>3, ApifyPricesRead
  <2>5. CurrencyOf(FirstValue(fields, CurrencyPaths), page.sold.price, Sign)
          = page.sold.currency
    BY <2>3, WildberriesCurrencyRead
  <2>6. ASSUME ~OnlySoldOutFlag
        PROVE  Shows(ApifyAvailability(fields), page.sold.stock)
    <3>1. ~SaysOnlySoldOut(fields)
      BY <1>3, <2>6 DEF OnlySoldOutFlag, fields
    <3> QED
      BY <2>3, <3>1, ApifyStockRead DEF IsSale
  <2> QED
    BY <2>2, <2>4, <2>5, <2>6 DEF ApifyValues
<1>4. CASE provider = "wildberries_direct"
  <2> DEFINE fields == DirectProduct(page)
  <2>1. DirectPageSays(fields, page.sold)
    BY <1>2, <1>4 DEF PageSays, ProductFound
  <2>2. Snapshot = DirectValues(fields)
    BY <1>4 DEF Snapshot
  <2> HIDE DEF fields
  <2>3. /\ IsFields(fields) /\ IsSale(page.sold)
        /\ WildberriesPrices(fields, DirectPrice, DirectOldPrice, page.sold)
        /\ CurrencyIn(fields, Range(CurrencyPaths), {}, page.sold)
        /\ StockIn(fields, StockPaths, page.sold.stock)
        /\ StockOfSizes(fields, page.sold.stock)
    BY <2>1 DEF DirectPageSays
  <2>4. /\ FirstPrice(fields, DirectPrice) = page.sold.price
        /\ FirstPrice(fields, DirectOldPrice) = page.sold.old
    BY <2>3, DirectPricesRead
  <2>5. CurrencyOf(FirstValue(fields, CurrencyPaths), page.sold.price, Sign)
          = page.sold.currency
    BY <2>3, WildberriesCurrencyRead
  <2>6. Shows(DirectAvailability(fields), page.sold.stock)
    BY <2>3, DirectStockRead DEF IsSale
  <2> QED
    BY <2>2, <2>4, <2>5, <2>6 DEF DirectValues
<1>5. CASE provider \in {"zyte", "mock"}
  <2> DEFINE fields == IF provider = "zyte" THEN ZyteProduct(page) ELSE page.fields
  <2>1. GenericPageSays(fields, page.sold)
    BY <1>2, <1>5 DEF PageSays
  <2>2. Snapshot = GenericValues(fields)
    BY <1>5 DEF Snapshot
  <2> HIDE DEF fields
  <2>3. /\ IsFields(fields) /\ IsSale(page.sold)
        /\ OtherPrices(fields, GenericPrice, GenericOldPrice, page.sold)
        /\ CurrencyIn(fields, Range(GenericCurrencyPaths), DOMAIN Foreign, page.sold)
        /\ StockIn(fields, StockPaths, page.sold.stock)
    BY <2>1 DEF GenericPageSays
  <2>4. /\ Amount(FirstValue(fields, GenericPrice)) = page.sold.price
        /\ Amount(FirstValue(fields, GenericOldPrice)) = page.sold.old
    BY <2>3, GenericPricesRead
  <2>5. CurrencyOf(FirstValue(fields, GenericCurrencyPaths), page.sold.price,
                   GenericSign) = page.sold.currency
    BY <2>3, GenericCurrencyRead
  <2>6. Shows(GenericAvailability(fields), page.sold.stock)
    BY <2>3, GenericStockRead DEF IsSale
  <2> QED
    BY <2>2, <2>4, <2>5, <2>6 DEF GenericValues
<1> QED
  BY <1>1, <1>3, <1>4, <1>5, FetchAssumption

(* The price of a snapshot is the price the page asks, in its currency,    *)
(* and so is the old price, for every page that says what is sold.         *)
THEOREM PricesAreRead == Spec => []PriceAsSold
<1>1. FetchInv /\ ProductFound => PriceAsSold
  BY SnapshotRead DEF PriceAsSold
<1> QED
  BY <1>1, FetchSound, SuccessHasProduct, PTL

(* A product that is sold out is not shown as in stock, nor one that is in *)
(* stock as gone, for every page that says what is sold, but for the pages *)
(* for Apify that have isSoldOut alone.                                    *)
THEOREM StocksAreRead == Spec => []StockAsSold
<1>1. FetchInv /\ ProductFound => StockAsSold
  BY SnapshotRead DEF StockAsSold, Shows
<1> QED
  BY <1>1, FetchSound, SuccessHasProduct, PTL

(* Those pages are all read the wrong way round: sold out is shown as in   *)
(* stock, and in stock as unavailable.                                     *)
THEOREM SoldOutIsInverted ==
  Spec => [](result = "success" /\ OnlySoldOutFlag
               => Snapshot.availability
                    = IF page.sold.stock = 0 THEN "in_stock" ELSE "unavailable")
<1>1. FetchInv /\ ProductFound
        => (result = "success" /\ OnlySoldOutFlag
              => Snapshot.availability
                   = IF page.sold.stock = 0 THEN "in_stock" ELSE "unavailable")
  <2> SUFFICES ASSUME FetchInv, ProductFound, result = "success", OnlySoldOutFlag
               PROVE  Snapshot.availability
                        = IF page.sold.stock = 0 THEN "in_stock" ELSE "unavailable"
    OBVIOUS
  <2> DEFINE fields == ApifyProduct(page)
  <2>1. provider = "apify" /\ SaysOnlySoldOut(fields)
    BY DEF OnlySoldOutFlag
  <2>2. PageSays(provider, page)
    BY PageAssumption DEF FetchInv, TypeOK
  <2>3. ApifyPageSays(fields, page.sold)
    BY <2>1, <2>2 DEF PageSays, ProductFound
  <2>4. Snapshot = ApifyValues(fields)
    BY <2>1 DEF Snapshot
  <2> HIDE DEF fields
  <2>5. ApifyAvailability(fields)
          = IF page.sold.stock = 0 THEN "in_stock" ELSE "unavailable"
    BY <2>1, <2>3, SoldOutRead DEF ApifyPageSays
  <2> QED
    BY <2>4, <2>5 DEF ApifyValues
<1> QED
  BY <1>1, FetchSound, SuccessHasProduct, PTL

-----------------------------------------------------------------------------
(* How much a fetch may ask.  Attempts before this one have asked each     *)
(* endpoint at most once, and so has this one.                             *)
RequestsSoFar ==
  /\ requests \in Nat
  /\ requests <= (attempt - 1) * Endpoints
                   + (IF phase = "asking" THEN endpoint - 1 ELSE endpoint)

(* Raise ends the attempt at the endpoint it was at.                       *)
LEMMA RaiseKeepsEndpoint ==
  ASSUME NEW e, Raise(e)
  PROVE  attempt' = attempt /\ endpoint' = endpoint /\ phase' # "asking"
BY DEF Raise, End

LEMMA RequestsCounted == Spec => []RequestsSoFar
<1>1. Init => RequestsSoFar
  <2> SUFFICES ASSUME Init
               PROVE  RequestsSoFar
    OBVIOUS
  <2>1. requests = 0 /\ attempt = 1 /\ endpoint = 1 /\ Endpoints \in Nat
    BY SomeEndpoint DEF Init
  <2> QED
    BY <2>1 DEF RequestsSoFar
<1>2. FetchInv /\ RequestsSoFar /\ [Next]_vars => RequestsSoFar'
  <2> SUFFICES ASSUME FetchInv, RequestsSoFar, [Next]_vars
               PROVE  RequestsSoFar'
    OBVIOUS
  <2> DEFINE before == (attempt - 1) * Endpoints
  <2>1. /\ Endpoints \in Nat \ {0} /\ endpoint \in 1..Endpoints
        /\ attempt \in Nat \ {0} /\ before \in Nat
        /\ before + Endpoints = attempt * Endpoints
        /\ requests \in Nat
    <3>1. Endpoints \in Nat \ {0} /\ endpoint \in 1..Endpoints /\ attempt \in Nat \ {0}
      BY SomeEndpoint, FetchAssumption DEF FetchInv, TypeOK
    <3> QED
      BY <3>1 DEF RequestsSoFar
  <2>2. Endpoints' = Endpoints
    BY DEF Next, vars, callVars, RefuseUrl, Ask, Wake, DeadlineComes, ShutDown,
           CutOff, Endpoints
  <2>3. CASE UNCHANGED vars
    BY <2>2, <2>3 DEF vars, RequestsSoFar
  <2>4. ASSUME attempt' = attempt, endpoint' = endpoint, phase' # "asking",
               requests' \in Nat, requests' <= requests + 1,
               phase = "asking" \/ requests' = requests
        PROVE  RequestsSoFar'
    BY <2>1, <2>2, <2>4 DEF RequestsSoFar
  <2>5. CASE RefuseUrl
    BY <2>1, <2>4, <2>5, RaiseKeepsEndpoint DEF RefuseUrl
  <2>6. ASSUME NEW a \in Answer, NEW p \in Page[provider] \cup {None},
               NEW d \in Duration, Ask(a, p, d)
        PROVE  RequestsSoFar'
    <3>1. phase = "asking" /\ requests' = requests + 1
      BY <2>6 DEF Ask
    <3>2. CASE /\ endpoint' = endpoint + 1
               /\ UNCHANGED <<phase, attempt, error, result, page>>
      BY <2>1, <2>2, <3>1, <3>2 DEF RequestsSoFar
    <3>3. CASE End("success") /\ UNCHANGED <<attempt, endpoint, error>>
      BY <2>1, <2>4, <3>1, <3>3 DEF End
    <3>4. CASE \E e : Raise(e)
      BY <2>1, <2>4, <3>1, <3>4, RaiseKeepsEndpoint
    <3> QED
      BY <2>6, <3>2, <3>3, <3>4 DEF Ask
  <2>7. ASSUME NEW d \in Delays(attempt), Wake(d)
        PROVE  RequestsSoFar'
    <3>1. /\ phase = "sleeping" /\ phase' = "asking" /\ endpoint' = 1
          /\ attempt' = attempt + 1 /\ requests' = requests
      BY <2>7 DEF Wake, FirstEndpoint
    <3>2. requests <= attempt * Endpoints
      BY <2>1, <3>1 DEF RequestsSoFar
    <3>3. (attempt' - 1) * Endpoints' = attempt * Endpoints
      BY <2>1, <2>2, <3>1
    <3> QED
      BY <2>1, <3>1, <3>2, <3>3 DEF RequestsSoFar
  <2>8. ASSUME CutOff
        PROVE  RequestsSoFar'
    <3>1. requests' = requests
      BY <2>8 DEF CutOff
    <3>2. attempt' = attempt /\ endpoint' = endpoint /\ phase' # "asking"
      BY <2>8, RaiseKeepsEndpoint DEF CutOff, End
    <3> QED
      BY <2>1, <2>4, <3>1, <3>2
  <2> QED
    BY <2>3, <2>5, <2>6, <2>7, <2>8 DEF Next, DeadlineComes, ShutDown
<1> QED
  BY <1>1, <1>2, FetchSound, PTL DEF Spec

(* Whatever fails, a fetch asks each endpoint at most once per attempt:    *)
(* at most MaxAttempts times the number of endpoints.                      *)
THEOREM RequestsAreBounded == Spec => [](requests <= MaxAttempts * Endpoints)
<1>1. FetchInv /\ RequestsSoFar => requests <= MaxAttempts * Endpoints
  <2> SUFFICES ASSUME FetchInv, RequestsSoFar
               PROVE  requests <= MaxAttempts * Endpoints
    OBVIOUS
  <2>1. /\ Endpoints \in Nat \ {0} /\ endpoint \in 1..Endpoints
        /\ attempt \in Nat /\ MaxAttempts - attempt \in Nat /\ MaxAttempts \in Nat
    BY SomeEndpoint, FetchAssumption DEF FetchInv, TypeOK
  <2>2. requests <= (attempt - 1) * Endpoints + Endpoints
    <3>1. (attempt - 1) * Endpoints \in Int
      BY <2>1
    <3> QED
      BY <2>1, <3>1 DEF RequestsSoFar
  <2>3. (attempt - 1) * Endpoints + Endpoints = attempt * Endpoints
    BY <2>1
  <2>4. attempt * Endpoints + (MaxAttempts - attempt) * Endpoints
          = MaxAttempts * Endpoints
    BY <2>1
  <2>5. (MaxAttempts - attempt) * Endpoints \in Nat /\ attempt * Endpoints \in Nat
    BY <2>1
  <2> QED
    BY <2>1, <2>2, <2>3, <2>4, <2>5 DEF RequestsSoFar
<1> QED
  BY <1>1, FetchSound, RequestsCounted, PTL
=============================================================================
