--------------------------- MODULE PurchaseManager ---------------------------
(***************************************************************************)
(* PurchaseManager of TNShareApp/Demo/StoreKit2/StoreKit2Tool.swift.  Its  *)
(* methods run on the main actor, one stretch between two awaits at a time *)
(* (an action here).  The App Store, which answers, revokes, delivers      *)
(* updates and delivers again what was not finished before the application *)
(* died, is modelled from how the code uses StoreKit.                      *)
(***************************************************************************)
EXTENDS Naturals, FiniteSets

CONSTANTS
  Products,
  Consumables,   \* products that are never an entitlement
  Tasks,         \* tasks of the buttons of the screen
  Observer,      \* the task of observeTransactionUpdates
  MaxDeaths,     \* bound: deaths of the application
  MaxEvents      \* bound: entitlements granted or revoked

ASSUME ProductsAssumption    == Products # {}   \* StoreKit2Product has four cases
ASSUME ConsumablesAssumption == Consumables \subseteq Products
ASSUME ObserverAssumption    == Observer \notin Tasks

VARIABLES
  hasPro,                    \* EntitlementManager.hasPro, kept in the user defaults
  purchasedProductIDs, products, productsLoaded,
  pc,         \* where each task is suspended
  product,    \* the product a task buys
  todo,       \* the products whose entitlement an update has not come to
  result,     \* what the iteration of an update was given last
  running, deaths,           \* is the application running, how often has it died
  store,                     \* what the App Store says of each product
  unfinished, updates, events   \* transactions not finished, and to be delivered

manager == <<hasPro, purchasedProductIDs, products, productsLoaded>>
appStore == <<store, unfinished, updates, events>>
vars == <<manager, pc, product, todo, result, running, deaths, appStore>>

Everyone == Tasks \cup {Observer}

Init ==
  /\ hasPro = FALSE
  /\ purchasedProductIDs = {} /\ products = {} /\ productsLoaded = FALSE
  /\ pc = [t \in Everyone |-> "idle"]
  /\ product = [t \in Everyone |-> CHOOSE p \in Products : TRUE]
  /\ result = [t \in Everyone |-> "none"] /\ todo = [t \in Everyone |-> {}]
  /\ running = TRUE /\ deaths = 0
  /\ store = [p \in Products |-> "none"] /\ unfinished = {} /\ updates = {} /\ events = 0

At(t, where) == running /\ pc[t] = where
Goto(t, where) == pc' = [pc EXCEPT ![t] = where]

(* updatePurchasedProducts begins, at the next await.                      *)
BeginUpdate(t) ==
  /\ Goto(t, "update")
  /\ todo' = [todo EXCEPT ![t] = Products \ Consumables]

-----------------------------------------------------------------------------
(* Definitions named ...Mutant are the definition that follows them with a *)
(* plausible bug.                                                          *)

LoadProductsMutant(t) ==    \* takes the load as done before the answer is there
  /\ At(t, "idle") /\ t \in Tasks /\ ~ productsLoaded
  /\ productsLoaded' = TRUE
  /\ Goto(t, "load")
  /\ UNCHANGED <<hasPro, purchasedProductIDs, products, product, todo, result, running,
                 deaths, appStore>>

LoadProducts(t) ==
  /\ At(t, "idle") /\ t \in Tasks /\ ~ productsLoaded
  /\ Goto(t, "load")
  /\ UNCHANGED <<manager, product, todo, result, running, deaths, appStore>>

(* The answer, or an error.                                                *)
ProductsLoaded(t) ==
  /\ At(t, "load")
  /\ \/ products' = Products /\ productsLoaded' = TRUE
     \/ UNCHANGED <<products, productsLoaded>>
  /\ Goto(t, "idle")
  /\ UNCHANGED <<hasPro, purchasedProductIDs, product, todo, result, running, deaths, appStore>>

Purchase(t, p) ==
  /\ At(t, "idle") /\ t \in Tasks
  /\ Goto(t, "purchase") /\ product' = [product EXCEPT ![t] = p]
  /\ UNCHANGED <<manager, todo, result, running, deaths, appStore>>

(* Verified and to be finished; unverified; or pending, cancelled, failed. *)
Purchased(t) ==
  /\ At(t, "purchase")
  /\ \E r \in {"verified", "unverified", "none"} :
       /\ r # "none" => events < MaxEvents
       /\ events' = events + (IF r = "none" THEN 0 ELSE 1)
       /\ store' = IF r = "none" \/ product[t] \in Consumables THEN store
                   ELSE [store EXCEPT ![product[t]] = r]
       /\ unfinished' = IF r = "none" THEN unfinished ELSE unfinished \cup {product[t]}
       /\ Goto(t, IF r = "verified" THEN "finish" ELSE "idle")
  /\ UNCHANGED <<manager, product, todo, result, running, deaths, updates>>

FinishMutant(t) ==          \* updates for the consumable products only
  /\ At(t, "finish")
  /\ unfinished' = unfinished \ {product[t]}
  /\ IF product[t] \notin Consumables THEN Goto(t, "idle") /\ UNCHANGED todo
     ELSE BeginUpdate(t)
  /\ UNCHANGED <<manager, product, result, running, deaths, store, updates, events>>

Finish(t) ==
  /\ At(t, "finish")
  /\ unfinished' = unfinished \ {product[t]}
  /\ IF product[t] \in Consumables THEN Goto(t, "idle") /\ UNCHANGED todo
     ELSE BeginUpdate(t)
  /\ UNCHANGED <<manager, product, result, running, deaths, store, updates, events>>

(* observeTransactionUpdates: any update has all entitlements read.        *)
Observe ==
  /\ At(Observer, "idle") /\ updates # {}
  /\ \E p \in updates : updates' = updates \ {p}
  /\ BeginUpdate(Observer)
  /\ UNCHANGED <<manager, product, result, running, deaths, store, unfinished, events>>

-----------------------------------------------------------------------------
(* updatePurchasedProducts: an entitlement is read when StoreKit produces  *)
(* it, and acted upon once the main actor is there for it.                 *)

NextEntitlement(t) ==
  /\ At(t, "update")
  /\ \E p \in todo[t] :
       /\ todo' = [todo EXCEPT ![t] = @ \ {p}]
       /\ product' = [product EXCEPT ![t] = p]
       /\ result' = [result EXCEPT ![t] = store[p]]
       /\ Goto(t, IF store[p] = "none" THEN "update" ELSE "entitlement")
  /\ UNCHANGED <<manager, running, deaths, appStore>>

Entitlement(t) ==
  /\ At(t, "entitlement")
  /\ purchasedProductIDs' =
       CASE result[t] = "verified"   -> purchasedProductIDs \cup {product[t]}
         [] result[t] = "revoked"    -> purchasedProductIDs \ {product[t]}
         [] result[t] = "unverified" -> purchasedProductIDs
  /\ Goto(t, "update") /\ result' = [result EXCEPT ![t] = "none"]
  /\ UNCHANGED <<hasPro, products, productsLoaded, product, todo, running, deaths, appStore>>

UpdatedMutant(t) ==         \* never takes hasPro back
  /\ At(t, "update") /\ todo[t] = {}
  /\ hasPro' = (hasPro \/ purchasedProductIDs # {})
  /\ Goto(t, "idle")
  /\ UNCHANGED <<purchasedProductIDs, products, productsLoaded, product, todo, result, running,
                 deaths, appStore>>

Updated(t) ==
  /\ At(t, "update") /\ todo[t] = {}
  /\ hasPro' = (purchasedProductIDs # {})
  /\ Goto(t, "idle")
  /\ UNCHANGED <<purchasedProductIDs, products, productsLoaded, product, todo, result, running,
                 deaths, appStore>>

-----------------------------------------------------------------------------
(* refundLatestTransaction returns if there is no entitlement at all, and  *)
(* ends the application if there is one but none it can verify.            *)

Refund(t) ==
  /\ At(t, "idle") /\ t \in Tasks /\ deaths < MaxDeaths
  /\ \E p \in Products : store[p] # "none"
  /\ Goto(t, "refund")
  /\ UNCHANGED <<manager, product, todo, result, running, deaths, appStore>>

Refunded(t) ==
  /\ At(t, "refund")
  /\ IF \E p \in Products : store[p] \in {"verified", "revoked"}
     THEN Goto(t, "idle") /\ UNCHANGED <<running, deaths>>
     ELSE running' = FALSE /\ deaths' = deaths + 1 /\ UNCHANGED pc
  /\ UNCHANGED <<manager, product, todo, result, appStore>>

(* Outside: the application is ended and launched again, and entitlements  *)
(* come (from another device) and go (as after a refund).                  *)
Die ==
  /\ running /\ deaths < MaxDeaths
  /\ running' = FALSE /\ deaths' = deaths + 1
  /\ UNCHANGED <<manager, pc, product, todo, result, appStore>>

(* All begins anew but hasPro.                                             *)
Launch ==
  /\ ~ running /\ running' = TRUE
  /\ purchasedProductIDs' = {} /\ products' = {} /\ productsLoaded' = FALSE
  /\ pc' = [t \in Everyone |-> "idle"] /\ todo' = [t \in Everyone |-> {}]
  /\ updates' = unfinished
  /\ UNCHANGED <<hasPro, product, result, deaths, store, unfinished, events>>

EntitlementChanges(p) ==
  /\ p \notin Consumables /\ events < MaxEvents
  /\ \/ store[p] = "none" /\ store' = [store EXCEPT ![p] = "verified"]
     \/ store[p] = "verified" /\ store' = [store EXCEPT ![p] = "revoked"]
  /\ updates' = updates \cup {p} /\ events' = events + 1
  /\ unfinished' = unfinished \cup {p}
  /\ UNCHANGED <<manager, pc, product, todo, result, running, deaths>>

-----------------------------------------------------------------------------

Continue(t) ==
  \/ ProductsLoaded(t) \/ Finish(t) \/ (t = Observer /\ Observe)
  \/ NextEntitlement(t) \/ Entitlement(t) \/ Updated(t) \/ Refunded(t)

Start(t) == LoadProducts(t) \/ Refund(t) \/ \E p \in Products : Purchase(t, p)

Next ==
  \/ \E t \in Everyone : Start(t) \/ Continue(t) \/ Purchased(t)
  \/ Die \/ Launch
  \/ \E p \in Products : EntitlementChanges(p)

Spec == Init /\ [][Next]_vars

(* StoreKit answers, except a purchase, which may stay pending in front of *)
(* the user; the main actor runs its tasks; a dead application is launched *)
(* again.                                                                  *)
FairSpec == Spec /\ WF_vars(Launch) /\ \A t \in Everyone : WF_vars(Continue(t))

-----------------------------------------------------------------------------
(* Properties.                                                             *)

Updating(t) == pc[t] \in {"update", "entitlement"}

(* Two updates that interleave leave hasPro in agreement with the set they *)
(* both change, and so does the one that is last; only a launch, which     *)
(* empties the set and keeps hasPro, comes apart from it until an update.  *)
HasProFollowsPurchases ==
  running /\ (\A t \in Everyone : ~ Updating(t)) =>
    \/ hasPro = (purchasedProductIDs # {})
    \/ hasPro /\ deaths > 0

(* A load that fails, while another one answers or after it, leaves the    *)
(* products shown if, and only if, a later call will not load them again.  *)
LoadedMeansShown == productsLoaded = (products = Products)

(* What was bought is unlocked, by the purchase, or if the application     *)
(* dies before it has finished the transaction, by the observer after the  *)
(* next launch.  Two things come in the way: an application that dies      *)
(* between finish and the end of the update, as nothing makes it read the  *)
(* entitlements again; and an update that read the product when it had     *)
(* been revoked, and acts on that after it was bought again.               *)
BuyerGetsPro ==
  \A p \in Products \ Consumables :
    (store[p] = "verified" /\ p \in unfinished) ~>
      \/ p \in purchasedProductIDs /\ hasPro
      \/ store[p] # "verified"
      \/ ~ running /\ p \notin unfinished
      \/ \E t \in Everyone : product[t] = p /\ result[t] = "revoked"
=============================================================================
