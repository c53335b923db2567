-------------------------- MODULE MCRuntimeSettings --------------------------
(* A small instance of RuntimeSettings.                                    *)
EXTENDS RuntimeSettings, TLC

CONSTANTS r1, r2, c1

SavedValues ==
  [k \in Key |-> CASE k = "product_fetch_provider" -> {"apify", "unknown"}
                   [] k = "wildberries_basket_max_host" -> {"7", "many"}
                   [] k = "apify_api_token" -> {"apify_1"}
                   [] k = "internal_api_token" -> {"token_1", "token_2"}]

(* The defaults, and an environment that knows a token and credentials.    *)
Defaults ==
  [k \in Key |-> CASE k = "product_fetch_provider" -> "wildberries_direct"
                   [] k = "wildberries_basket_max_host" -> "20"
                   [] OTHER -> None]
Credentials ==
  [Defaults EXCEPT !["apify_api_token"] = "apify_0",
                   !["internal_api_token"] = "token_0"]

Deployments ==
  {[master |-> "fernet_1", env |-> Credentials],
   [master |-> "fernet_2", env |-> Credentials],
   [master |-> None, env |-> Defaults]}

Symmetry == Permutations(Request)
=============================================================================
