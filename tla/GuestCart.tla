----------------------------- MODULE GuestCart -----------------------------
(***************************************************************************)
(* A shopper fills a cart as a guest and one as a customer, and signs in:  *)
(* merge_guest_cart (customers/services/auth_service.py) against           *)
(* add_item_to_cart, cart_item_update, cart_item_remove (src/apps/cart)    *)
(* and the end of finalize_order, from other tabs and devices.             *)
(*                                                                         *)
(* The merge is one transaction but locks nothing it reads: it lists the   *)
(* guest's items, looks up the customer's, and writes; only what it writes *)
(* becomes visible at once.                                                *)
(***************************************************************************)
EXTENDS Integers, FiniteSets, FiniteSetsExt, Sequences, SequencesExt, Functions

CONSTANTS
    Goods,          \* products, or variants, of the store
    InStock,        \* their stock, which this module leaves alone
    SignIns,        \* requests that sign the shopper in
    MaxItems,       \* bound of the CartItems ever made
    Waiting         \* a request that is not merging

ASSUME GoodsAssumption == IsFiniteSet(Goods) /\ InStock \in [Goods -> Nat] /\ MaxItems \in Nat

VARIABLES
    items,          \* CartItem, by number; a deleted one is in "no" cart
    merging,        \* the merge of each request
    wanted,         \* units the shopper put in the carts and neither took out nor ordered
    entangled       \* a cart changed between a merge's look at it and its end

cartVars == <<items, merging, wanted, entangled>>

BothCarts == {"guest", "own"}
Numbers == 1..MaxItems
CartItem == [cart : BothCarts \cup {"no"}, good : Goods, quantity : Nat]
Nowhere == 0

In(cart, rows) == {i \in DOMAIN rows : rows[i].cart = cart}

(* The units of a good in some of the carts.                               *)
Units(carts, g) ==
    SumFunction([i \in DOMAIN items |->
        IF items[i].cart \in carts /\ items[i].good = g THEN items[i].quantity ELSE 0])

GuestCartInit ==
    /\ items = <<>>
    /\ merging = [r \in SignIns |-> Waiting]
    /\ wanted = [g \in Goods |-> 0]
    /\ entangled = FALSE

(* The first item of the cart with this good, or Nowhere.                  *)
Found(cart, g) ==
    LET rows == {i \in In(cart, items) : items[i].good = g}
    IN  IF rows = {} THEN Nowhere ELSE Min(rows)

---------------------------------------------------------------------------
(* The views.                                                              *)

(* add_item_to_cart, one unit, under the lock of the product.              *)
AddToCart(cart, g) ==
    LET i == Found(cart, g) IN
    /\ InStock[g] >= 1 + (IF i = Nowhere THEN 0 ELSE items[i].quantity)
    /\ IF i = Nowhere
       THEN /\ Len(items) < MaxItems
            /\ items' = Append(items, [cart |-> cart, good |-> g, quantity |-> 1])
       ELSE items' = [items EXCEPT ![i].quantity = @ + 1]
    /\ wanted' = [wanted EXCEPT ![g] = @ + 1]
    /\ UNCHANGED <<merging, entangled>>

(* cart_item_update, and cart_item_remove as an update to none.  The       *)
(* quantity asked for is cut down to the stock.                            *)
ChangeItem(cart, i, quantity) ==
    LET g == items[i].good
        n == Min({quantity, InStock[g]})
    IN  /\ i \in In(cart, items)
        /\ n # items[i].quantity
        /\ items' = IF n = 0 THEN [items EXCEPT ![i].cart = "no"]
                    ELSE [items EXCEPT ![i].quantity = n]
        /\ wanted' = [wanted EXCEPT ![g] = (@ + n) - items[i].quantity]
        /\ UNCHANGED <<merging, entangled>>

(* finalize_order: the customer's items become an order.                   *)
OrderCart ==
    /\ In("own", items) # {}
    /\ items' = [i \in DOMAIN items |-> [items[i] EXCEPT !.cart = IF @ = "own" THEN "no" ELSE @]]
    /\ wanted' = [g \in Goods |-> wanted[g] - Units({"own"}, g)]
    /\ UNCHANGED <<merging, entangled>>

---------------------------------------------------------------------------
(* The merge.                                                              *)

ListGuestItems(r) ==
    /\ merging[r] = Waiting
    /\ In("guest", items) # {}
    /\ merging' = [merging EXCEPT ![r] = [at |-> "listed", saw |-> items]]
    /\ UNCHANGED <<items, wanted, entangled>>

LookUpOwnItems(r) ==
    /\ merging[r] # Waiting /\ merging[r].at = "listed"
    /\ merging' = [merging EXCEPT ![r] = [
           at |-> "found", saw |-> @.saw,
           pair |-> [i \in In("guest", @.saw) |-> Found("own", @.saw[i].good)],
           held |-> [j \in In("own", items) |-> items[j].quantity]]]
    /\ entangled' = (entangled \/ items # merging[r].saw)
    /\ UNCHANGED <<items, wanted>>

(* Fault: the guest's quantity takes the place of the customer's.          *)
MergedQuantityOfGuest(held, added) == added

MergedQuantity(held, added) == held + added

(* guest_cart.delete() takes what is in it by now.                         *)
WithoutGuest(rows) ==
    [i \in DOMAIN rows |-> [rows[i] EXCEPT !.cart = IF @ = "guest" THEN "no" ELSE @]]

(* What a merge writes: an item that is already the customer's gets both   *)
(* quantities, as they were read; any other item changes its cart.         *)
Merged(m) ==
    [i \in DOMAIN items |->
        IF i \in DOMAIN m.pair /\ m.pair[i] = Nowhere
        THEN [items[i] EXCEPT !.cart = "own"]
        ELSE IF i \in Range(m.pair)
        THEN [items[i] EXCEPT !.quantity =
                 MergedQuantity(m.held[i], m.saw[CHOOSE g \in DOMAIN m.pair : m.pair[g] = i].quantity)]
        ELSE items[i]]

(* An item it saves must still be there.                                   *)
Savable(m) ==
    \A i \in DOMAIN m.pair :
        items[IF m.pair[i] = Nowhere THEN i ELSE m.pair[i]].cart # "no"

CommitMerge(r) ==
    /\ merging[r] # Waiting /\ merging[r].at = "found"
    /\ merging' = [merging EXCEPT ![r] = Waiting]
    /\ IF Savable(merging[r])
       THEN /\ items' = WithoutGuest(Merged(merging[r]))
            /\ entangled' = (entangled \/ items # merging[r].saw)
       ELSE UNCHANGED <<items, entangled>>      \* DatabaseError: rolled back
    /\ UNCHANGED wanted

GuestCartNext ==
    \/ \E cart \in BothCarts :
        \/ \E g \in Goods : AddToCart(cart, g)
        \/ \E i \in Numbers, n \in 0..Max(Range(InStock)) : ChangeItem(cart, i, n)
    \/ OrderCart
    \/ \E r \in SignIns : ListGuestItems(r) \/ LookUpOwnItems(r) \/ CommitMerge(r)

GuestCartSpec == GuestCartInit /\ [][GuestCartNext]_cartVars

---------------------------------------------------------------------------
(* Types; a cart has one item of each good, unless a merge was disturbed.  *)
CartTypeOK ==
    /\ items \in Seq(CartItem) /\ Len(items) <= MaxItems
    /\ wanted \in [Goods -> Int] /\ entangled \in BOOLEAN
    /\ ~entangled => \A cart \in BothCarts : \A i, j \in In(cart, items) :
           items[i].good = items[j].good => i = j

(* No unit is lost or doubled when the guest's cart becomes part of the    *)
(* customer's, through any sequence of sign-ins, edits and orders, unless  *)
(* a cart changed while the merge ran.  (What is added to the guest's cart *)
(* meanwhile is deleted with it; what another tab does to an item of the   *)
(* customer's is overwritten; two sign-ins at once add the units twice.)   *)
UnitsKept ==
    ~entangled => \A g \in Goods : Units(BothCarts, g) = wanted[g]

(* The carts are sound: one item of a good, no unit lost or doubled.       *)
CartSound == CartTypeOK /\ UnitsKept
=============================================================================
