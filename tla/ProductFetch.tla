---------------------------- MODULE ProductFetch -----------------------------
(***************************************************************************)
(* One call of fetch_product: the providers' requests, their error         *)
(* classes, and the retry policy around them.                              *)
(*                                                                         *)
(* The call runs in a price check.  In a worker arq may cut it off, at the *)
(* job's deadline or when the worker shuts down; the cancellation passes   *)
(* through the same handlers as an error.  In the API nothing ends it.     *)
(*                                                                         *)
(* Time is elapsed, since the job began, in units of 50 ms.  A provider    *)
(* answers with an HTTP status, not at all, or with a page, of which       *)
(* ProductPayload says what is read.                                       *)
(***************************************************************************)
EXTENDS ProductUrls

CONSTANTS
  Provider,       \* providers that may be configured
  MaxAttempts,    \* product_fetch_retry_max_attempts
  BasketHosts,    \* wildberries_basket_max_host
  RequestTimeout, \* product_fetch_request_timeout_seconds
  BaseDelay,      \* product_fetch_retry_base_delay_seconds
  MaxDelay,       \* product_fetch_retry_max_delay_seconds
  JitterPart,     \* 1 / product_fetch_retry_jitter_ratio
  Deadline,       \* the job's timeout
  AnswerTime,     \* how long a request may take
  Page            \* the pages that may be answered to each provider

INSTANCE ProductPages

ASSUME FetchAssumption ==
  /\ Provider \subseteq {"wildberries_direct", "apify", "zyte", "mock"}
  /\ Provider \subseteq DOMAIN Page
  /\ MaxAttempts \in Nat \ {0}
  /\ BasketHosts \in Nat
  /\ RequestTimeout \in Nat \ {0}
  /\ BaseDelay \in Nat /\ MaxDelay \in Nat /\ BaseDelay <= MaxDelay
  /\ JitterPart \in Nat \ {0}
  /\ Deadline \in Nat \ {0}
  /\ AnswerTime \subseteq 1..RequestTimeout
  /\ RequestTimeout \in AnswerTime

(* The pages are of the kind described there.                              *)
PageSays(p, q) ==
  CASE p = "apify" -> ApifyProduct(q) # None => ApifyPageSays(ApifyProduct(q), q.sold)
    [] p = "zyte" -> GenericPageSays(ZyteProduct(q), q.sold)
    [] p = "mock" -> GenericPageSays(q.fields, q.sold)
    [] OTHER -> DirectProduct(q) # None => DirectPageSays(DirectProduct(q), q.sold)

ASSUME PageAssumption ==
  /\ None \notin Int
  /\ \A p \in Provider : \A q \in Page[p] : PageSays(p, q)

(* The factors of the delays are numbers: of powers the provers know       *)
(* nothing.                                                                *)
ASSUME PowerAssumption == \A n \in 1..MaxAttempts : 2 ^ (n - 1) \in Nat

VARIABLES
  provider, url, worker, \* the call: its provider, the monitor's URL, its maker
  phase,     \* asking, sleeping between two attempts, or done
  attempt,   \* number of the attempt, from 1
  endpoint,  \* the endpoint being asked, from 1
  elapsed,   \* time since the job began
  error,     \* how the last failed attempt ended
  result,    \* the error code of the snapshot, "success", or "cut_off"
  page,      \* the page a success was read from, its raw_payload
  asked,     \* history: endpoints answered in this attempt
  requests   \* history: requests sent

callVars == <<provider, url, worker>>
vars == <<callVars, phase, attempt, endpoint, elapsed, error, result, page,
          asked, requests>>

(* card.wb.ru has three endpoints, then come the basket hosts; the other   *)
(* providers have one.                                                     *)
CardEndpoints == 3
Endpoints ==
  IF provider = "wildberries_direct" THEN CardEndpoints + BasketHosts ELSE 1

(* "200" brings a page, "empty" a JSON list without items, "malformed"     *)
(* what is not JSON.  "400" stands for every 4xx not listed.  The mock     *)
(* provider answers from its fixtures, "empty" if it has none.             *)
Answer ==
  IF provider = "mock" THEN {"200", "empty"}
  ELSE {"200", "empty", "malformed", "400", "401", "403", "404", "408", "429",
        "500", "504", "timeout", "transport"}

(* How an attempt ends.  "request_refused" is a provider_request_error     *)
(* raised with retryable=False.                                            *)
Error == {"provider_blocked", "provider_timeout", "provider_rate_limited",
          "provider_request_error", "request_refused",
          "provider_payload_error", "page_structure_changed",
          "product_not_found", "unsupported_product_url",
          "unexpected_product_fetch_error", "cancelled"}

ASSUME ResultAssumption == None \notin Error \cup {"success", "cut_off"}

(* What an answer means to a provider: an error, "success", or "next" for  *)
(* the next endpoint.                                                      *)
Validated(values) ==
  IF IsValid(values) THEN "success" ELSE "unexpected_product_fetch_error"

Recognised(values) ==
  IF HasProductSignal(values) THEN Validated(values)
  ELSE "page_structure_changed"

Unread(a) ==
  CASE a = "timeout" -> "provider_timeout"
    [] a = "transport" -> "provider_request_error"
    [] OTHER -> "provider_payload_error"

(* The markers are looked for in the text of the whole page, before the    *)
(* product is.                                                             *)
DirectVerdict(p) ==
  IF p.marks \cap {"limited", "antibot"} # {} THEN "provider_blocked"
  ELSE IF DirectProduct(p) # None
  THEN Recognised(DirectValues(DirectProduct(p)))
  ELSE IF p.pow THEN "provider_blocked" ELSE "next"

CardVerdict(a, p) ==
  CASE a = "200" -> DirectVerdict(p)
    [] a \in {"403", "429"} -> "provider_blocked"
    [] a \in {"408", "504"} -> "provider_timeout"
    [] a = "500" -> "provider_request_error"
    [] a = "404" -> "next"
    [] a \in {"400", "401"} -> "request_refused"
    [] OTHER -> Unread(a)

(* A basket host that fails is skipped like one that does not know the     *)
(* product, and 408 is an ordinary 4xx.                                    *)
BasketVerdict(a, p) ==
  CASE a = "200" -> DirectVerdict(p)
    [] a \in {"403", "429"} -> "provider_blocked"
    [] a \in {"404", "500", "504"} -> "next"
    [] a \in {"400", "401", "408"} -> "request_refused"
    [] OTHER -> Unread(a)

(* What the parser makes of the first item of Apify's dataset.  An item    *)
(* may report a status: "missing", "limited" and "forbidden".              *)
DatasetVerdict(p) ==
  IF "missing" \in p.marks THEN "product_not_found"
  ELSE IF "limited" \in p.marks THEN "provider_rate_limited"
  ELSE IF p.marks \cap {"forbidden", "antibot"} # {} THEN "provider_blocked"
  ELSE IF ApifyProduct(p) = None THEN "page_structure_changed"
  ELSE Recognised(ApifyValues(ApifyProduct(p)))

(* Apify's body is decoded before the status is looked at, so a status     *)
(* below is one with a JSON body.                                          *)
ApifyVerdict(a, p) ==
  CASE a = "200" -> DatasetVerdict(p)
    [] a = "empty" -> "product_not_found"
    [] a \in {"408", "504"} -> "provider_timeout"
    [] a = "429" -> "provider_rate_limited"
    [] a \in {"401", "403"} -> "provider_blocked"
    [] a = "500" -> "provider_request_error"
    [] a \in {"400", "404"} -> "request_refused"
    [] OTHER -> Unread(a)

(* Zyte takes any object for a product.                                    *)
ZyteVerdict(a, p) ==
  CASE a = "200" -> Validated(GenericValues(ZyteProduct(p)))
    [] a = "429" -> "provider_rate_limited"
    [] a \in {"401", "403"} -> "provider_blocked"
    [] a \in {"500", "504"} -> "provider_request_error"
    [] a \in {"400", "404", "408"} -> "request_refused"
    [] OTHER -> Unread(a)

MockVerdict(a, p) ==
  IF a = "200" THEN Validated(GenericValues(p.fields)) ELSE "product_not_found"

Verdict(a, p) ==
  CASE provider = "apify" -> ApifyVerdict(a, p)
    [] provider = "zyte" -> ZyteVerdict(a, p)
    [] provider = "mock" -> MockVerdict(a, p)
    [] OTHER -> IF endpoint <= CardEndpoints THEN CardVerdict(a, p)
                ELSE BasketVerdict(a, p)

(* The snapshot of a success.                                              *)
Snapshot ==
  CASE provider = "apify" -> ApifyValues(ApifyProduct(page))
    [] provider = "zyte" -> GenericValues(ZyteProduct(page))
    [] provider = "mock" -> GenericValues(page.fields)
    [] OTHER -> DirectValues(DirectProduct(page))

(* The exceptions with retryable = True.  In the variant a blocked request *)
(* inherits the flag of ProviderRequestError.                              *)
RetryableInherited(e) ==
  e \in {"provider_timeout", "provider_rate_limited",
         "provider_request_error", "provider_blocked"}
Retryable(e) ==
  e \in {"provider_timeout", "provider_rate_limited",
         "provider_request_error"}

(* The variant counts the attempts from 0.                                 *)
IsLastAttemptLate == attempt > MaxAttempts
IsLastAttempt == attempt = MaxAttempts

(* The delays after an attempt, the least and the greatest.                *)
Delays(n) ==
  LET full == BaseDelay * 2 ^ (n - 1)
      delay == IF full < MaxDelay THEN full ELSE MaxDelay
  IN  {delay - delay \div JitterPart, delay + delay \div JitterPart}

(* How long an answer takes; the mock provider does not wait.              *)
Duration == IF provider = "mock" THEN {0} ELSE AnswerTime

(* A worker's call goes on only before the deadline.                       *)
InTime(d) == worker => elapsed + d < Deadline

Init ==
  /\ provider \in Provider
  /\ url \in Stored
  /\ worker \in BOOLEAN
  /\ phase = "asking"
  /\ attempt = 1
  /\ endpoint = 1
  /\ elapsed = 0
  /\ error = None
  /\ result = None
  /\ page = None
  /\ asked = {}
  /\ requests = 0

-----------------------------------------------------------------------------
End(r) ==
  /\ phase' = "done"
  /\ result' = r

(* The except clause of the retry policy, around one attempt.  What it     *)
(* does not retry becomes a failure snapshot, a cancellation excepted.     *)
Raise(e) ==
  /\ error' = e
  /\ IF Retryable(e) /\ ~IsLastAttempt
     THEN phase' = "sleeping" /\ UNCHANGED result
     ELSE End(IF e = "cancelled" THEN "cut_off"
              ELSE IF e = "request_refused" THEN "provider_request_error"
              ELSE e)
  /\ UNCHANGED <<attempt, endpoint>>

(* Two of the providers know one marketplace only.                         *)
ForeignMarketplace ==
  provider \in {"wildberries_direct", "apify"} /\ MarketplaceOf(url) # "wildberries"

(* _wildberries_nm_id finds the article in the path.                       *)
HasArticle(p) == Len(p) >= 2 /\ Is(p[1], "catalog") /\ IsNumber(p[2])

(* Why nothing is sent.                                                    *)
Refusal ==
  IF ~IsSupported(url) \/ ForeignMarketplace THEN "unsupported_product_url"
  ELSE IF provider = "wildberries_direct" /\ ~HasArticle(Normalized(url).path)
  THEN "page_structure_changed"
  ELSE None

RefuseUrl ==
  /\ phase = "asking"
  /\ Refusal # None
  /\ Raise(Refusal)
  /\ UNCHANGED <<callVars, elapsed, page, asked, requests>>

(* The endpoint answers after time d, with page p if with any; a timeout   *)
(* takes the whole time.                                                   *)
Ask(a, p, d) ==
  /\ phase = "asking"
  /\ Refusal = None
  /\ a = "200" <=> p # None
  /\ InTime(d)
  /\ a = "timeout" => d = RequestTimeout
  /\ elapsed' = elapsed + d
  /\ asked' = asked \cup {endpoint}
  /\ requests' = requests + 1
  /\ LET v == Verdict(a, p)
     IN  \/ /\ v = "success"
            /\ End("success")
            /\ page' = p
            /\ UNCHANGED <<attempt, endpoint, error>>
         \/ /\ v = "next" /\ endpoint < Endpoints
            /\ endpoint' = endpoint + 1
            /\ UNCHANGED <<phase, attempt, error, result, page>>
         \/ /\ v = "next" /\ endpoint = Endpoints
            /\ Raise("product_not_found")
            /\ UNCHANGED page
         \/ /\ v \in Error
            /\ Raise(v)
            /\ UNCHANGED page
  /\ UNCHANGED callVars

(* Where the next attempt begins.  The variant goes on where the last one  *)
(* failed.                                                                 *)
SameEndpoint == endpoint
FirstEndpoint == 1

Wake(d) ==
  /\ phase = "sleeping"
  /\ d \in Delays(attempt)
  /\ InTime(d)
  /\ elapsed' = elapsed + d
  /\ phase' = "asking"
  /\ attempt' = attempt + 1
  /\ endpoint' = FirstEndpoint
  /\ asked' = {}
  /\ UNCHANGED <<callVars, error, result, page, requests>>

(* CancelledError, in a request or in the sleep between two attempts.      *)
CutOff ==
  /\ worker /\ provider # "mock"
  /\ Refusal = None
  /\ \/ phase = "asking" /\ Raise("cancelled")
     \/ phase = "sleeping" /\ End("cut_off")
        /\ UNCHANGED <<attempt, endpoint, error>>
  /\ UNCHANGED <<callVars, page, asked, requests>>

(* The job's deadline comes before the end of a request or a sleep.        *)
DeadlineComes ==
  /\ \E d \in IF phase = "asking" THEN Duration ELSE Delays(attempt) :
       ~InTime(d)
  /\ elapsed' = Deadline
  /\ CutOff

ShutDown == CutOff /\ UNCHANGED elapsed

Next ==
  \/ RefuseUrl
  \/ \E a \in Answer, p \in Page[provider] \cup {None}, d \in Duration :
       Ask(a, p, d)
  \/ \E d \in Delays(attempt) : Wake(d)
  \/ DeadlineComes
  \/ ShutDown

Spec == Init /\ [][Next]_vars
-----------------------------------------------------------------------------
(* Every variable has its type; a call that is done has a result.          *)
TypeOK ==
  /\ provider \in Provider
  /\ url \in Stored
  /\ worker \in BOOLEAN
  /\ phase \in {"asking", "sleeping", "done"}
  /\ attempt \in 1..MaxAttempts
  /\ endpoint \in 1..Endpoints
  /\ elapsed \in Nat
  /\ error \in Error \cup {None}
  /\ result \in Error \cup {None, "success", "cut_off"}
  /\ phase = "done" <=> result # None
  /\ page \in Page[provider] \cup {None}
  /\ result = "success" <=> page # None
  /\ asked \subseteq 1..Endpoints

(* Nothing more is sent after a block, a refusal, a payload that cannot be *)
(* read or a cancellation, whichever attempt met it: only a timeout, a     *)
(* rate limit or a server error is asked again.                            *)
RefusalEndsFetch ==
  [][requests' # requests
       => error \in {None, "provider_timeout", "provider_rate_limited",
                     "provider_request_error"}]_vars

(* A product is reported missing only by an attempt that asked all the     *)
(* endpoints, whatever earlier attempts had asked before they failed.      *)
NotFoundIsExhaustive ==
  result = "product_not_found" => asked = 1..Endpoints

(* What the monitors of the URL being fetched have in common.  A check     *)
(* locks the URL stored for its monitor and files the product under the    *)
(* URL normalised once more: they are the same, so that monitors share a   *)
(* source exactly when they share the lock; and an accepted Wildberries    *)
(* link is one that every provider asks about.                             *)
StoredUrlIsFinal ==
  /\ IsSupported(url) /\ Normalized(url) = url
  /\ MarketplaceOf(url) = "wildberries" => Refusal = None

(* Monitors that share the source filed under this URL watch one product,  *)
(* whatever their users pasted.                                            *)
SourceIsOneCard ==
  \A l \in Accepted : Normalized(l) = url => Card(l) = Card(url)

(* Wildberries links to one card, by any of its hosts, with or without a   *)
(* query and in any case, are filed under one URL.                         *)
CardHasOneSource ==
  \A l \in Accepted :
    Card(l) = Card(url) /\ MarketplaceOf(l) = "wildberries"
      => Normalized(l) = url

(* The price of a snapshot is the price the page asks, in roubles or the   *)
(* currency it names, and so is the old price: from every layout a         *)
(* provider knows, in kopecks or roubles, flat or by size, as a number or  *)
(* in a notation that ProductPages.Says lists, beside whatever other       *)
(* prices there are.                                                       *)
PriceAsSold ==
  result = "success" =>
    /\ Snapshot.price = page.sold.price
    /\ Snapshot.old = page.sold.old
    /\ Snapshot.currency = page.sold.currency

(* The page that a success of Apify was read from has no other field about *)
(* the stock than isSoldOut.                                               *)
OnlySoldOutFlag ==
  provider = "apify" /\ SaysOnlySoldOut(ApifyProduct(page))

(* A product that is sold out is not shown as in stock, nor one that is in *)
(* stock as gone, whether the page gives a word, a flag of what is         *)
(* available, a quantity or the stocks of the sizes.  Pages for Apify that *)
(* have isSoldOut alone are excepted: they are read the wrong way round    *)
(* (SoldOutIsInverted in ProductFetchProofs).                              *)
StockAsSold ==
  result = "success" /\ ~OnlySoldOutFlag =>
    /\ Snapshot.availability = "in_stock"
         => page.sold.stock # None /\ page.sold.stock > 0
    /\ Snapshot.availability \in {"unavailable", "out_of_stock"}
         => page.sold.stock = 0

(* docs/OBSERVABILITY.md: provider_timeout is recorded when the provider   *)
(* did not answer in time.  A worker's fetch whose attempts time out ends  *)
(* with that code, not cut off before it can be recorded.                  *)
TimeoutIsReported ==
  [][DeadlineComes => error # "provider_timeout"]_vars
=============================================================================
