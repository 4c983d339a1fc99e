----------------------- MODULE PurchaseManager_proofs -----------------------
(***************************************************************************)
(* Proofs that hasPro agrees with the purchases it is computed from, and   *)
(* productsLoaded with the products shown, for any number of tasks,        *)
(* products, deaths and events.                                            *)
(***************************************************************************)
EXTENDS PurchaseManager, TLAPS

Places == {"idle", "load", "purchase", "finish", "update", "entitlement", "refund"}

(* The application does not run only if it has died, and it cannot come    *)
(* apart from the set before.                                              *)
PurchaseInv ==
  /\ pc \in [Everyone -> Places]
  /\ deaths \in Nat
  /\ hasPro \in BOOLEAN
  /\ running \/ deaths > 0
  /\ HasProFollowsPurchases

LEMMA InitPurchase == Init => PurchaseInv
<1> SUFFICES ASSUME Init PROVE PurchaseInv
  OBVIOUS
<1>1. pc \in [Everyone -> Places]
  BY DEF Init, Places
<1>2. running /\ deaths = 0 /\ hasPro = FALSE /\ purchasedProductIDs = {}
  BY DEF Init
<1> QED  BY <1>1, <1>2 DEF PurchaseInv, HasProFollowsPurchases

(* A step that moves one task, into an update or from anywhere but one,    *)
(* and leaves hasPro and the set alone.                                    *)
LEMMA Elsewhere ==
  ASSUME PurchaseInv, NEW t \in Everyone, NEW where \in Places,
         Goto(t, where), Updating(t) => where \in {"update", "entitlement"},
         UNCHANGED <<hasPro, purchasedProductIDs, running, deaths>>
  PROVE  PurchaseInv'
<1>1. (\A u \in Everyone : ~ Updating(u))' => \A u \in Everyone : ~ Updating(u)
  BY DEF PurchaseInv, Goto, Updating
<1> QED  BY <1>1 DEF PurchaseInv, Goto, HasProFollowsPurchases

LEMMA StartKeepsPurchase ==
  ASSUME PurchaseInv, NEW t \in Everyone, Start(t)
  PROVE  PurchaseInv'
<1>1. PICK where \in Places : Goto(t, where)
  BY DEF Start, LoadProducts, Refund, Purchase, Places
<1>2. ~ Updating(t) /\ UNCHANGED <<hasPro, purchasedProductIDs, running, deaths>>
  BY DEF Start, LoadProducts, Refund, Purchase, At, Updating, manager
<1> QED  BY <1>1, <1>2, Elsewhere

LEMMA UpdateKeepsPurchase ==
  ASSUME PurchaseInv, NEW t \in Everyone, Entitlement(t) \/ Updated(t)
  PROVE  PurchaseInv'
<1>1. CASE Entitlement(t)
  <2>1. /\ Updating(t)' /\ (pc \in [Everyone -> Places])'
        /\ UNCHANGED <<hasPro, running, deaths>>
    BY <1>1 DEF Entitlement, Goto, Updating, PurchaseInv, Places
  <2> QED  BY <2>1 DEF PurchaseInv, HasProFollowsPurchases
<1>2. CASE Updated(t)
  <2>1. /\ (hasPro = (purchasedProductIDs # {}))' /\ hasPro' \in BOOLEAN
        /\ UNCHANGED <<running, deaths>>
    BY <1>2 DEF Updated
  <2>2. (pc \in [Everyone -> Places])'
    BY <1>2 DEF Updated, Goto, PurchaseInv, Places
  <2> QED  BY <2>1, <2>2 DEF PurchaseInv, HasProFollowsPurchases
<1> QED  BY <1>1, <1>2

LEMMA ContinueKeepsPurchase ==
  ASSUME PurchaseInv, NEW t \in Everyone, Continue(t) \/ Purchased(t)
  PROVE  PurchaseInv'
<1>1. CASE ProductsLoaded(t) \/ Finish(t) \/ Purchased(t)
  <2>1. PICK where \in Places : Goto(t, where)
    BY <1>1 DEF ProductsLoaded, Finish, Purchased, BeginUpdate, Places
  <2>2. ~ Updating(t) /\ UNCHANGED <<hasPro, purchasedProductIDs, running, deaths>>
    BY <1>1 DEF ProductsLoaded, Finish, Purchased, At, Updating, manager
  <2> QED  BY <2>1, <2>2, Elsewhere
<1>2. CASE t = Observer /\ Observe
  <2>1. Goto(t, "update") /\ UNCHANGED <<hasPro, purchasedProductIDs, running, deaths>>
    BY <1>2 DEF Observe, BeginUpdate, manager
  <2> QED  BY <2>1, Elsewhere DEF Places
<1>3. CASE NextEntitlement(t)
  <2>1. PICK where \in {"update", "entitlement"} : Goto(t, where)
    BY <1>3 DEF NextEntitlement
  <2>2. UNCHANGED <<hasPro, purchasedProductIDs, running, deaths>>
    BY <1>3 DEF NextEntitlement, manager
  <2> QED  BY <2>1, <2>2, Elsewhere DEF Places
<1>4. CASE Entitlement(t) \/ Updated(t)
  BY <1>4, UpdateKeepsPurchase
<1>5. CASE Refunded(t)
  <2>1. UNCHANGED <<hasPro, purchasedProductIDs>>
    BY <1>5 DEF Refunded, manager
  <2>2. CASE \E p \in Products : store[p] \in {"verified", "revoked"}
    <3>1. Goto(t, "idle") /\ UNCHANGED <<running, deaths>> /\ ~ Updating(t)
      BY <1>5, <2>2 DEF Refunded, At, Updating
    <3> QED  BY <2>1, <3>1, Elsewhere DEF Places
  <2>3. CASE ~ \E p \in Products : store[p] \in {"verified", "revoked"}
    <3>1. running' = FALSE /\ deaths' = deaths + 1 /\ UNCHANGED pc
      BY <1>5, <2>3 DEF Refunded
    <3> QED  BY <2>1, <3>1 DEF PurchaseInv, HasProFollowsPurchases
  <2> QED  BY <2>2, <2>3
<1> QED  BY <1>1, <1>2, <1>3, <1>4, <1>5 DEF Continue

LEMMA OutsideKeepsPurchase ==
  ASSUME PurchaseInv, Die \/ Launch \/ \E p \in Products : EntitlementChanges(p)
  PROVE  PurchaseInv'
<1>1. CASE Die
  <2>1. /\ UNCHANGED <<hasPro, purchasedProductIDs, pc>>
        /\ running' = FALSE /\ deaths' = deaths + 1
    BY <1>1 DEF Die, manager
  <2> QED  BY <2>1 DEF PurchaseInv, HasProFollowsPurchases
<1>2. CASE Launch
  <2>1. deaths' > 0 /\ purchasedProductIDs' = {} /\ hasPro' = hasPro
    BY <1>2 DEF Launch, PurchaseInv
  <2>2. (pc \in [Everyone -> Places])' /\ running' = TRUE /\ deaths' = deaths
    BY <1>2 DEF Launch, Places
  <2> QED  BY <2>1, <2>2 DEF PurchaseInv, HasProFollowsPurchases
<1>3. CASE \E p \in Products : EntitlementChanges(p)
  <2>1. UNCHANGED <<hasPro, purchasedProductIDs, pc, running, deaths>>
    BY <1>3 DEF EntitlementChanges, manager
  <2> QED  BY <2>1 DEF PurchaseInv, HasProFollowsPurchases, Updating
<1> QED  BY <1>1, <1>2, <1>3

(* However the updates of any number of tasks interleave at their awaits,  *)
(* and whenever the application dies, hasPro agrees with the purchases     *)
(* when no update is under way, except after a launch that kept it.        *)
THEOREM HasProAgrees == Spec => []HasProFollowsPurchases
<1>1. PurchaseInv /\ [Next]_vars => PurchaseInv'
  <2>1. PurchaseInv /\ UNCHANGED vars => PurchaseInv'
    BY DEF vars, manager, PurchaseInv, HasProFollowsPurchases, Updating
  <2> QED
    BY <2>1, StartKeepsPurchase, ContinueKeepsPurchase, OutsideKeepsPurchase DEF Next
<1>2. PurchaseInv => HasProFollowsPurchases
  BY DEF PurchaseInv
<1> QED  BY InitPurchase, <1>1, <1>2, PTL DEF Spec

-----------------------------------------------------------------------------
(* The products and the flag are one fact: an answer sets both, a launch   *)
(* resets both, and nothing else touches either.                           *)
LEMMA NextKeepsLoaded == LoadedMeansShown /\ [Next]_vars => LoadedMeansShown'
<1> SUFFICES ASSUME LoadedMeansShown, [Next]_vars PROVE LoadedMeansShown'
  OBVIOUS
<1>1. ASSUME NEW t \in Everyone, Start(t) \/ Continue(t) \/ Purchased(t)
      PROVE  LoadedMeansShown'
  <2>1. CASE ProductsLoaded(t)
    BY <2>1 DEF ProductsLoaded, LoadedMeansShown
  <2>2. CASE ~ ProductsLoaded(t)
    <3>1. UNCHANGED <<products, productsLoaded>>
      BY <1>1, <2>2 DEF Start, LoadProducts, Refund, Purchase, Continue, Finish, Observe,
         NextEntitlement, Entitlement, Updated, Refunded, Purchased, manager
    <3> QED  BY <3>1 DEF LoadedMeansShown
  <2> QED  BY <2>1, <2>2
<1>2. CASE Die \/ \E p \in Products : EntitlementChanges(p)
  BY <1>2 DEF Die, EntitlementChanges, manager, LoadedMeansShown
<1>3. CASE Launch
  BY <1>3, ProductsAssumption DEF Launch, LoadedMeansShown
<1>4. CASE UNCHANGED vars
  BY <1>4 DEF vars, manager, LoadedMeansShown
<1> QED  BY <1>1, <1>2, <1>3, <1>4 DEF Next

(* Whatever loads overlap, fail or are cut off by a death, the list shown  *)
(* is the list of the store exactly when it will not be loaded again.      *)
THEOREM LoadedListIsShown == Spec => []LoadedMeansShown
<1>1. Init => LoadedMeansShown
  BY ProductsAssumption DEF Init, LoadedMeansShown
<1> QED  BY <1>1, NextKeepsLoaded, PTL DEF Spec
=============================================================================
