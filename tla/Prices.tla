------------------------------- MODULE Prices -------------------------------
(***************************************************************************)
(* The prices a subscription is sold at: a product per plan and a price    *)
(* per plan, cycle and amount, made at the payment provider the first time *)
(* they are needed and remembered, and the price an operator pinned.       *)
(*                                                                         *)
(* Source: price_id, _account_scope, _ensure_product and ensure_price of   *)
(* app/services/stripe_service.py.  One plan and cycle with several        *)
(* amounts; a restart may change the API key, within an account or for     *)
(* another's, and the pinned price.  The provider answers a repeated       *)
(* request key with the object of the first call, until it forgets it.     *)
(***************************************************************************)
EXTENDS Naturals, FiniteSets

CONSTANTS
  Accounts,
  ApiKeys, AccountOf, \* the keys, and the account of each
  Amounts, Product,   \* what is sold: the amounts; and the product they are prices of
  Ids, NoId,          \* what the provider names its products and prices, in order
  Pinned,             \* a price made by hand, of whatever amount
  Calls

\* What the constants satisfy: assumed wherever the module is instantiated.
PricesAssumption ==
  /\ Ids \subseteq Nat /\ NoId \notin Ids /\ Pinned \notin Ids \cup {NoId} /\ Amounts # {} /\ Product \notin Amounts
  /\ AccountOf \in [ApiKeys -> Accounts]

VARIABLES
  config,   \* the API key in force, and whether the environment pins a price
  made,     \* what the provider made: products and prices
  cached,   \* stripe_products and stripe_prices
  pricing   \* the calls in flight

pvars == <<config, made, cached, pricing>>

Things == Amounts \cup {Product}
Scopes == ApiKeys \X Things
\* Whether a request key is still known: "answered"; or was forgotten once its
\* object was kept here ("kept"), or before ("lost").
Life == {"answered", "kept", "lost"}
Made == [id: Ids, account: Accounts, thing: Things, of: Ids \cup {NoId},
         request: Scopes, life: Life]

Pcs == {"idle", "en_product", "en_make", "en_keep_product", "en_price", "en_keep_price", "done"}
CallType == [pc: Pcs, amount: Amounts, product: Ids \cup {NoId}, id: Ids \cup {NoId, Pinned}]

TypeOK ==
  /\ config \in [key: ApiKeys, pins: BOOLEAN]
  /\ made \in SUBSET Made
  /\ cached \in [Scopes -> Ids \cup {NoId}]
  /\ pricing \in [Calls -> CallType]

Idle == [pc |-> "idle", amount |-> CHOOSE n \in Amounts : TRUE, product |-> NoId, id |-> NoId]

Init ==
  /\ config \in [key: ApiKeys, pins: BOOLEAN]
  /\ made = {} /\ cached = [s \in Scopes |-> NoId]
  /\ pricing = [c \in Calls |-> Idle]

At(c, pc) == pricing[c].pc = pc
Goto(c, pc) == pricing' = [pricing EXCEPT ![c].pc = pc]
Amount(c) == pricing[c].amount

\* Mutant: what is remembered is not told apart by account.
ScopeOfPlan(thing) == <<CHOOSE k \in ApiKeys : TRUE, thing>>

\* The names of the entries remembered and of the requests bear the key's hash.
Scope(thing) == <<config.key, thing>>

\* The provider, in the account of the key: a repeated request is answered with
\* the first object, and refused when what it asks for is not the same.
Account == AccountOf[config.key]
Answered(s) == {m \in made : m.request = s /\ m.account = Account /\ m.life = "answered"}

Create(thing, of, id) ==
  LET s == Scope(thing) IN
  IF Answered(s) # {}
  THEN made' = made /\ \E m \in Answered(s) : m.of = of /\ m.id = id
  ELSE /\ \A i \in Ids : i < id <=> \E m \in made : m.id = i
       /\ made' = made \cup {[id |-> id, account |-> Account, thing |-> thing, of |-> of,
                              request |-> s, life |-> "answered"]}

-----------------------------------------------------------------------------
\* ensure_price: the price the operator pinned, or the price remembered for the
\* amount, or the product and then the price made for it.
Ensure(c, n) ==
  /\ At(c, "idle")
  /\ LET hit == IF config.pins THEN Pinned ELSE cached[Scope(n)]
     IN pricing' = [pricing EXCEPT ![c] = [pc |-> IF hit # NoId THEN "done" ELSE "en_product",
                                           amount |-> n, product |-> NoId, id |-> hit]]
  /\ UNCHANGED <<config, made, cached>>

\* _ensure_product.
EnsureProduct(c) ==
  /\ At(c, "en_product")
  /\ LET hit == cached[Scope(Product)]
     IN pricing' = [pricing EXCEPT ![c].pc = IF hit # NoId THEN "en_price" ELSE "en_make",
                                   ![c].product = hit]
  /\ UNCHANGED <<config, made, cached>>

MakeProduct(c) ==
  /\ At(c, "en_make")
  /\ \E i \in Ids :
       /\ Create(Product, NoId, i)
       /\ pricing' = [pricing EXCEPT ![c].pc = "en_keep_product", ![c].product = i]
  /\ UNCHANGED <<config, cached>>

KeepProduct(c) ==
  /\ At(c, "en_keep_product")
  /\ cached' = [cached EXCEPT ![Scope(Product)] = pricing[c].product]
  /\ Goto(c, "en_price")
  /\ UNCHANGED <<config, made>>

MakePrice(c) ==
  /\ At(c, "en_price")
  /\ \E i \in Ids :
       /\ Create(Amount(c), pricing[c].product, i)
       /\ pricing' = [pricing EXCEPT ![c].pc = "en_keep_price", ![c].id = i]
  /\ UNCHANGED <<config, cached>>

KeepPrice(c) ==
  /\ At(c, "en_keep_price")
  /\ cached' = [cached EXCEPT ![Scope(Amount(c))] = pricing[c].id]
  /\ Goto(c, "done")
  /\ UNCHANGED <<config, made>>

\* The subscription is sold at the price, or without one when the call failed.
Sell(c) ==
  /\ ~At(c, "idle")
  /\ pricing' = [pricing EXCEPT ![c] = Idle]
  /\ UNCHANGED <<config, made, cached>>

\* The environment is changed and the service restarted: the calls in flight are
\* gone.
Restart(k, pins) ==
  /\ config' = [key |-> k, pins |-> pins]
  /\ pricing' = [c \in Calls |-> Idle]
  /\ UNCHANGED <<made, cached>>

\* A call has looked for the thing in vain and not been answered yet.
Missed(c, s) ==
  \/ At(c, "en_make") /\ Scope(Product) = s
  \/ (At(c, "en_product") \/ At(c, "en_make") \/ At(c, "en_keep_product") \/ At(c, "en_price"))
       /\ Scope(Amount(c)) = s

\* The provider forgets a request.
Forget(m) ==
  /\ m.life = "answered"
  /\ LET kept == cached[m.request] # NoId /\ \A c \in Calls : ~Missed(c, m.request)
     IN made' = (made \ {m}) \cup {[m EXCEPT !.life = IF kept THEN "kept" ELSE "lost"]}
  /\ UNCHANGED <<config, cached, pricing>>

-----------------------------------------------------------------------------
Next ==
  \/ \E c \in Calls : \/ \E n \in Amounts : Ensure(c, n)
                      \/ EnsureProduct(c) \/ MakeProduct(c) \/ KeepProduct(c)
                      \/ MakePrice(c) \/ KeepPrice(c) \/ Sell(c)
  \/ \E k \in ApiKeys, pins \in BOOLEAN : Restart(k, pins)
  \/ \E m \in made : Forget(m)

Spec == Init /\ [][Next]_pvars

-----------------------------------------------------------------------------
\* A subscription is sold at the price the operator pinned or at one made for its
\* amount, in the account whose key is in force, whatever calls, failures and
\* changes of key came between (stripe_service.py:181); and a key makes a second
\* price of an amount only when the provider forgot the first before it was kept
\* here (stripe_service.py:111: "instead of piling up duplicates").
PriceFits ==
  /\ \A c \in Calls : At(c, "done") =>
       \/ config.pins /\ pricing[c].id = Pinned
       \/ \E m \in made : m.id = pricing[c].id /\ m.account = Account /\ m.thing = Amount(c)
  /\ \A m, n \in made : m.request = n.request => m = n \/ m.life = "lost" \/ n.life = "lost"

\* What is remembered was made, for its own entry, and a request that was
\* forgotten without loss is not made again: inductive with TypeOK.
MadeFor(id, s) ==
  \E m \in made : m.id = id /\ m.request = s /\ m.account = AccountOf[s[1]] /\ m.thing = s[2]

PricesInv ==
  /\ \A m \in made : m.account = AccountOf[m.request[1]] /\ m.thing = m.request[2]
  /\ \A m, n \in made : m.request = n.request => m = n \/ m.life = "lost" \/ n.life = "lost"
  /\ \A m \in made : m.life = "kept" =>
       cached[m.request] # NoId /\ \A c \in Calls : ~Missed(c, m.request)
  /\ \A s \in Scopes : cached[s] # NoId => MadeFor(cached[s], s)
  /\ \A c \in Calls :
       /\ At(c, "en_keep_product") => MadeFor(pricing[c].product, Scope(Product))
       /\ At(c, "en_keep_price") => MadeFor(pricing[c].id, Scope(Amount(c)))
       /\ At(c, "done") => (config.pins /\ pricing[c].id = Pinned)
                             \/ MadeFor(pricing[c].id, Scope(Amount(c)))
=============================================================================
