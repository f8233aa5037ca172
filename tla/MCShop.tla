------------------------------ MODULE MCShop ------------------------------
(***************************************************************************)
(* Seven parts of a store that its staff and customers work on.  They      *)
(* share no variable, so each behaviour moves one of them ("part") and     *)
(* leaves the others where they start.                                     *)
(***************************************************************************)
EXTENDS OrderStatus, AfterSales, Warehouses, PageLayout, LayoutVersions, Imports, GuestCart, TLC

(* One item, bought twice for 1 with a tax of 1 that does not divide by    *)
(* its units, and 1 for shipping: neither the quantities nor the amounts   *)
(* alone bound what may be paid back.                                      *)
CONSTANTS Price, Tax

EveryBought   == [i \in Items |-> Quantity]
EveryPrice    == [i \in Items |-> Price]
EveryTax      == [i \in Items |-> Tax]

(* Two and three columns; a preset of two sections side by side.           *)
Presets       == {<<6, 6>>, <<4, 4, 4>>}
SideBySide    == <<<<1, 4>>, <<1, 8>>>>

(* Files of up to two rows of any kind, and of three that set a price.     *)
Rows          == [sku : Skus, price : {2, Unset}, sound : BOOLEAN]
ShortFiles    == {<<>>} \cup [1..1 -> Rows] \cup [1..2 -> Rows]
                     \cup [1..3 -> {r \in Rows : r.sound /\ r.price = 2}]

OneOfEach     == [g \in Goods |-> 1]

(* What may change places.  Parts that share no variable share the model   *)
(* values: "a" are managers, SKUs and sign-ins, "b" are clerks, goods and  *)
(* the staff that change orders.                                           *)
Alike == Permutations(Managers) \cup Permutations(Clerks)

VARIABLE part

shopVars == <<part, orderVars, salesVars, warehouseVars, pageVars, layoutVars, importVars, cartVars>>

Init ==
    /\ part \in {"orders", "sales", "warehouses", "page", "versions", "imports", "carts"}
    /\ OrdersInit /\ SalesInit /\ WarehouseInit /\ PageInit
    /\ LayoutVersionsInit /\ ImportsInit /\ GuestCartInit
    /\ part # "imports" => consumed = 0 /\ Listed(catalogue) = {}

Next ==
    /\ UNCHANGED part
    /\ \/ /\ part = "orders" /\ OrdersNext
          /\ UNCHANGED <<salesVars, warehouseVars, pageVars, layoutVars, importVars, cartVars>>
       \/ /\ part = "sales" /\ SalesNext
          /\ UNCHANGED <<orderVars, warehouseVars, pageVars, layoutVars, importVars, cartVars>>
       \/ /\ part = "warehouses" /\ WarehouseNext
          /\ UNCHANGED <<orderVars, salesVars, pageVars, layoutVars, importVars, cartVars>>
       \/ /\ part = "page" /\ PageNext
          /\ UNCHANGED <<orderVars, salesVars, warehouseVars, layoutVars, importVars, cartVars>>
       \/ /\ part = "versions" /\ LayoutVersionsNext
          /\ UNCHANGED <<orderVars, salesVars, warehouseVars, pageVars, importVars, cartVars>>
       \/ /\ part = "imports" /\ ImportsNext
          /\ UNCHANGED <<orderVars, salesVars, warehouseVars, pageVars, layoutVars, cartVars>>
       \/ /\ part = "carts" /\ GuestCartNext
          /\ UNCHANGED <<orderVars, salesVars, warehouseVars, pageVars, layoutVars, importVars>>

Spec == Init /\ [][Next]_shopVars

----------------------------------------------------------------------------
(* The action properties of the parts: a return request that ended stays   *)
(* ended, a store keeps a default warehouse, a locked section stays where  *)
(* it is, and a finished import does not become another result.            *)
ShopSteps == FinalReturnStays /\ DefaultKept /\ LockedHolds /\ FinalJobStays
=============================================================================
