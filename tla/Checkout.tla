------------------------------ MODULE Checkout ------------------------------
(***************************************************************************)
(* From the cart to the order: add_item_to_cart and the item views         *)
(* (src/apps/cart), finalize_order (src/apps/orders/services/              *)
(* checkout_service.py) and create_order_from_cart (order_service.py).     *)
(*                                                                         *)
(* Requests run in transactions of their own statements until              *)
(* finalize_order opens one, so a checkout request is a sequence of steps: *)
(* the cart's row, its token, the order of that token, the lines, and      *)
(* everything that happens under the locks on the products and the coupon. *)
(* The steps under the locks are one action; edits of the cart that need   *)
(* no lock may come before it.                                             *)
(***************************************************************************)
EXTENDS Naturals, FiniteSetsExt, Functions

CONSTANTS
    Carts,          \* carts of one store
    Skus,           \* products without variants, and variants
    Requests,       \* submissions of the checkout form
    Prices,         \* prices a SKU may have
    OpeningPrice,   \* the price of each SKU to begin with
    OpeningStock,   \* the stock of each SKU to begin with
    UsageLimit,     \* Coupon.usage_limit
    MinOrder,       \* Coupon.min_order
    TokenStored,    \* carts whose token an earlier, failed submission stored
    Repriced,       \* SKUs whose price the vendor may change
    Edited,         \* carts edited in another tab while a submission runs
    MaxFills,       \* bound on how often a cart is filled anew
    MaxQuantity     \* bound on the quantity of a line

ASSUME CartAssumption ==
    /\ IsFiniteSet(Carts)
    /\ TokenStored \subseteq Carts /\ Edited \subseteq Carts
ASSUME SkuAssumption ==
    /\ Repriced \subseteq Skus
    /\ Prices \subseteq Nat
    /\ OpeningPrice \in [Skus -> Prices]
    /\ OpeningStock \in [Skus -> Nat]
ASSUME BoundAssumption ==
    /\ UsageLimit \in Nat /\ MinOrder \in Nat
    /\ MaxFills \in Nat /\ MaxQuantity \in Nat \ {0}

VARIABLES
    price,     \* what resolve_effective_price returns for each SKU
    stock,     \* Product.stock or ProductVariant.stock
    used,      \* Coupon.used_count
    cart,      \* the carts: token, lines, and how often it was filled
    issued,    \* number of tokens generated
    orders,    \* the orders placed
    request    \* the checkout requests

vars == <<price, stock, used, cart, issued, orders, request>>

\* Cart.checkout_token = "".
NoToken == 0

NoLine == [quantity |-> 0, price |-> 0]
NoLines == [s \in Skus |-> NoLine]

Tokens == Nat
Line == [quantity : Nat, price : Nat]
Lines == [Skus -> Line]

IsEmpty(lines) == \A s \in Skus : lines[s].quantity = 0

TotalOf(lines) == MapThenSumSet(LAMBDA s : lines[s].quantity * lines[s].price, Skus)

Cart == [token : Tokens, lines : Lines, fill : 0..MaxFills]

\* A submission: its instance of the cart, and the local variables it has.
\* A finished one keeps the purchase it was answered with, or the reason.
Idle == [pc |-> "idle"]
Submission ==
    {Idle}
    \cup [pc : {"loaded", "keyed"}, cart : Carts, token : Tokens, fill : 0..MaxFills]
    \cup [pc : {"checked"}, cart : Carts, token : Tokens, fill : 0..MaxFills, coupon : BOOLEAN]
    \cup [pc : {"snapshot"}, cart : Carts, token : Tokens, fill : 0..MaxFills, coupon : BOOLEAN,
          lines : Lines]
    \cup [pc : {"failed"}, cart : Carts, token : Tokens, fill : 0..MaxFills,
          why : {"empty", "stock"}]
    \cup [pc : {"answered"}, cart : Carts, token : Tokens, fill : 0..MaxFills,
          ordered : 0..MaxFills]

TypeOK ==
    /\ price \in [Skus -> Prices]
    /\ stock \in [Skus -> Nat]
    /\ used \in Nat
    /\ cart \in [Carts -> Cart]
    /\ issued \in Nat
    /\ request \in [Requests -> Submission]
    /\ \A o \in orders :
          /\ o.token \in Tokens /\ o.cart \in Carts /\ o.fill \in 0..MaxFills
          /\ o.lines \in Lines /\ o.coupon \in BOOLEAN

Init ==
    /\ price = OpeningPrice
    /\ stock = OpeningStock
    /\ used = 0
    /\ issued = Cardinality(TokenStored)
    /\ \E key \in Bijection(TokenStored, 1..issued) :
          cart = [c \in Carts |-> [token |-> IF c \in TokenStored THEN key[c] ELSE NoToken,
                                   lines |-> NoLines, fill |-> 0]]
    /\ orders = {}
    /\ request = [r \in Requests |-> Idle]

-----------------------------------------------------------------------------
(* The cart.                                                               *)

Running(r, c) ==
    request[r].pc \in {"loaded", "keyed", "checked", "snapshot"} /\ request[r].cart = c

\* The customer's other tab is idle while a submission runs, but for Edited.
MayEdit(c) == c \in Edited \/ \A r \in Requests : ~Running(r, c)

SetLines(c, lines) == cart' = [cart EXCEPT ![c].lines = lines]

\* add_item_to_cart: the product is locked; the line takes today's price.
AddItem(c, s, quantity) ==
    LET line  == cart[c].lines[s]
        total == line.quantity + quantity
        fill  == cart[c].fill + (IF IsEmpty(cart[c].lines) THEN 1 ELSE 0) IN
    /\ MayEdit(c)
    /\ total <= MaxQuantity /\ fill <= MaxFills
    /\ stock[s] > 0 /\ total <= stock[s]
    /\ cart' = [cart EXCEPT ![c].lines[s] = [quantity |-> total, price |-> price[s]],
                            ![c].fill = fill]
    /\ UNCHANGED <<price, stock, used, issued, orders, request>>

\* checkout_item_update: clamped to the stock, deleted when there is none.
\* The line keeps the price it was added at.
UpdateItem(c, s, quantity) ==
    /\ MayEdit(c)
    /\ cart[c].lines[s].quantity > 0
    /\ SetLines(c, IF stock[s] = 0
                   THEN [cart[c].lines EXCEPT ![s] = NoLine]
                   ELSE [cart[c].lines EXCEPT ![s].quantity = Min({quantity, stock[s]})])
    /\ UNCHANGED <<price, stock, used, issued, orders, request>>

\* checkout_item_remove.
RemoveItem(c, s) ==
    /\ MayEdit(c)
    /\ cart[c].lines[s].quantity > 0
    /\ SetLines(c, [cart[c].lines EXCEPT ![s] = NoLine])
    /\ UNCHANGED <<price, stock, used, issued, orders, request>>

\* The vendor edits the product.
Reprice(s) ==
    /\ \E p \in Prices : price' = [price EXCEPT ![s] = p]
    /\ UNCHANGED <<stock, used, cart, issued, orders, request>>

-----------------------------------------------------------------------------
(* finalize_order, up to the transaction.                                  *)

\* Fault: the look-up compares with the default of the column.
PlacedBlank(token) == {o \in orders : o.token = NoToken}

Placed(token) == {o \in orders : o.token = token}

CouponIsApplicable(total) == used < UsageLimit /\ total >= MinOrder

\* Fault: a cart is given a token whether or not it has one.
LoadAnew(r, c) ==
    /\ request[r] = Idle
    /\ request' = [request EXCEPT ![r] =
          [pc |-> "loaded", cart |-> c, token |-> NoToken, fill |-> cart[c].fill]]
    /\ UNCHANGED <<price, stock, used, cart, issued, orders>>

\* get_cart: the instance holds the token its row has now.
Load(r, c) ==
    /\ request[r] = Idle
    /\ request' = [request EXCEPT ![r] =
          [pc |-> "loaded", cart |-> c, token |-> cart[c].token, fill |-> cart[c].fill]]
    /\ UNCHANGED <<price, stock, used, cart, issued, orders>>

\* get_or_create_checkout_token: an instance without a token saves a new one
\* over whatever the row holds.
GetToken(r) ==
    /\ request[r].pc = "loaded"
    /\ IF request[r].token = NoToken
       THEN /\ issued' = issued + 1
            /\ cart' = [cart EXCEPT ![request[r].cart].token = issued + 1]
            /\ request' = [request EXCEPT ![r].pc = "keyed", ![r].token = issued + 1]
       ELSE /\ request' = [request EXCEPT ![r].pc = "keyed"]
            /\ UNCHANGED <<issued, cart>>
    /\ UNCHANGED <<price, stock, used, orders>>

Answer(r, o) ==
    request' = [request EXCEPT ![r] =
        [pc |-> "answered", cart |-> request[r].cart, token |-> request[r].token,
         fill |-> request[r].fill, ordered |-> o.fill]]

Fail(r, why) ==
    request' = [request EXCEPT ![r] =
        [pc |-> "failed", cart |-> request[r].cart, token |-> request[r].token,
         fill |-> request[r].fill, why |-> why]]

\* Fault: an answered submission empties the cart, whatever is in it by now.
FindOrderEmpties(r) ==
    /\ request[r].pc = "keyed"
    /\ \E o \in Placed(request[r].token) : Answer(r, o)
    /\ SetLines(request[r].cart, NoLines)
    /\ UNCHANGED <<price, stock, used, issued, orders>>

\* An order of this token exists already: before the lines are looked at.
FindOrder(r) ==
    /\ request[r].pc = "keyed"
    /\ \E o \in Placed(request[r].token) : Answer(r, o)
    /\ UNCHANGED <<price, stock, used, cart, issued, orders>>

RejectEmpty(r) ==
    /\ request[r].pc = "keyed"
    /\ Placed(request[r].token) = {}
    /\ IsEmpty(cart[request[r].cart].lines)
    /\ Fail(r, "empty")
    /\ UNCHANGED <<price, stock, used, cart, issued, orders>>

\* get_applied_coupon reads the session's coupon, if any, without a lock.
GetCoupon(r) ==
    LET lines == cart[request[r].cart].lines IN
    /\ request[r].pc = "keyed"
    /\ Placed(request[r].token) = {}
    /\ ~IsEmpty(lines)
    /\ \E inSession \in BOOLEAN :
        request' = [request EXCEPT ![r] =
            [cart |-> request[r].cart, token |-> request[r].token, fill |-> request[r].fill,
             pc |-> "checked", coupon |-> inSession /\ CouponIsApplicable(TotalOf(lines))]]
    /\ UNCHANGED <<price, stock, used, cart, issued, orders>>

-----------------------------------------------------------------------------
(* The transaction: create_order_from_cart, then the cart's items go.      *)

\* create_order_from_cart looks for the order once more; finalize_order then
\* deletes the items the cart has.
ReturnExisting(r) ==
    /\ request[r].pc = "checked"
    /\ \E o \in Placed(request[r].token) : Answer(r, o)
    /\ SetLines(request[r].cart, NoLines)
    /\ UNCHANGED <<price, stock, used, issued, orders>>

ReadItems(r) ==
    LET lines == cart[request[r].cart].lines IN
    /\ request[r].pc = "checked"
    /\ Placed(request[r].token) = {}
    /\ IF IsEmpty(lines)
       THEN Fail(r, "empty")
       ELSE request' = [request EXCEPT ![r] =
                [cart |-> request[r].cart, token |-> request[r].token, fill |-> request[r].fill,
                 pc |-> "snapshot", coupon |-> request[r].coupon, lines |-> lines]]
    /\ UNCHANGED <<price, stock, used, cart, issued, orders>>

InStock(lines) == \A s \in Skus : lines[s].quantity <= stock[s]

\* _lock_and_revalidate_items finds too little of an item: all rolls back.
RejectStock(r) ==
    /\ request[r].pc = "snapshot"
    /\ ~InStock(request[r].lines)
    /\ Fail(r, "stock")
    /\ UNCHANGED <<price, stock, used, cart, issued, orders>>

\* The token's order was inserted meanwhile: IntegrityError, and that order.
LoseInsert(r) ==
    /\ request[r].pc = "snapshot"
    /\ InStock(request[r].lines)
    /\ \E o \in Placed(request[r].token) : Answer(r, o)
    /\ SetLines(request[r].cart, NoLines)
    /\ UNCHANGED <<price, stock, used, issued, orders>>

\* What the order's items record: the quantities read, at today's prices.
OrderedLines(lines) ==
    [s \in Skus |-> IF lines[s].quantity = 0 THEN NoLine
                    ELSE [quantity |-> lines[s].quantity, price |-> price[s]]]

\* Fault: the coupon found before the lock is used whatever the lock shows.
NewOrderUnlocked(r) ==
    [token |-> request[r].token, cart |-> request[r].cart, fill |-> request[r].fill,
     lines |-> OrderedLines(request[r].lines),
     total |-> TotalOf(cart[request[r].cart].lines), coupon |-> request[r].coupon]

\* cart_totals reads the items of the cart again; coupon_is_applicable is
\* decided on the locked coupon.
NewOrder(r) ==
    LET total == TotalOf(cart[request[r].cart].lines) IN
    [token |-> request[r].token, cart |-> request[r].cart, fill |-> request[r].fill,
     lines |-> OrderedLines(request[r].lines), total |-> total,
     coupon |-> request[r].coupon /\ CouponIsApplicable(total)]

\* Fault: one unit is taken for every item.
TakeOne(lines) == stock' = [s \in Skus |-> IF lines[s].quantity = 0 THEN stock[s] ELSE stock[s] - 1]

Take(lines) == stock' = [s \in Skus |-> stock[s] - lines[s].quantity]

\* Under the locks on the products and the coupon: order, items, reservations
\* made and consumed at once, coupon use, and the cart's items deleted.
PlaceOrder(r) ==
    LET o == NewOrder(r) IN
    /\ request[r].pc = "snapshot"
    /\ InStock(request[r].lines)
    /\ Placed(request[r].token) = {}
    /\ orders' = orders \cup {o}
    /\ Take(o.lines)
    /\ used' = used + (IF o.coupon THEN 1 ELSE 0)
    /\ SetLines(request[r].cart, NoLines)
    /\ Answer(r, o)
    /\ UNCHANGED <<price, issued>>

-----------------------------------------------------------------------------
Checkout(r) ==
    \/ \E c \in Carts : Load(r, c)
    \/ GetToken(r)
    \/ FindOrder(r)
    \/ RejectEmpty(r)
    \/ GetCoupon(r)
    \/ ReturnExisting(r)
    \/ ReadItems(r)
    \/ RejectStock(r)
    \/ LoseInsert(r)
    \/ PlaceOrder(r)

Shop(c) ==
    \E s \in Skus :
        \/ \E quantity \in 1..MaxQuantity : AddItem(c, s, quantity) \/ UpdateItem(c, s, quantity)
        \/ RemoveItem(c, s)

Next ==
    \/ \E r \in Requests : Checkout(r)
    \/ \E c \in Carts : Shop(c)
    \/ \E s \in Repriced : Reprice(s)

Spec == Init /\ [][Next]_vars

-----------------------------------------------------------------------------
(* Properties.                                                             *)

\* Tokens that are stored stay: a submission holds its cart's token, an order
\* has the token of its cart, and no two orders, and no two carts, share one.
TokensAgree ==
    /\ \A c \in Carts : cart[c].token # NoToken
    /\ \A c, d \in Carts : cart[c].token = cart[d].token => c = d
    /\ \A r \in Requests : request[r] # Idle => request[r].token = cart[request[r].cart].token
    /\ \A o \in orders : o.token = cart[o.cart].token
    /\ \A o1, o2 \in orders : o1.token = o2.token => o1 = o2

\* No unit is sold twice and none disappears: what the orders hold and what
\* is left make up the opening stock, however submissions interleave.
StockMatchesOrders ==
    \A s \in Skus :
        stock[s] + SumFunction([o \in orders |-> o.lines[s].quantity]) = OpeningStock[s]

\* used_count counts the orders that got the discount and never passes the
\* limit, although the coupon is first looked at without a lock.
CouponWithinLimit ==
    /\ used <= UsageLimit
    /\ used = Cardinality({o \in orders : o.coupon})

\* ADR-15, ADR-88: what a customer put into a cart is ordered once.
OneOrderPerFill ==
    \A o1, o2 \in orders : o1.cart = o2.cart /\ o1.fill = o2.fill => o1 = o2

\* The amounts of an order are those of its items: cart_totals, which reads
\* the cart again, saw what create_order_from_cart had read and locked.
TotalsMatchLines == \A o \in orders : o.total = TotalOf(o.lines)

\* Items leave a cart through a submission only when it placed the order
\* that has them.
EmptiedIsOrdered ==
    [][\A r \in Requests, c \in Carts :
          Running(r, c) /\ request'[r].pc = "answered"
              /\ ~IsEmpty(cart[c].lines) /\ IsEmpty(cart'[c].lines) =>
            \E o \in orders' \ orders : \A s \in Skus :
                o.lines[s].quantity = cart[c].lines[s].quantity]_vars

\* The order a submission is answered with is of the items it was submitted
\* with.  Refuted by the second purchase from a cart: the token stays.
AnsweredWithOwnOrder ==
    \A r \in Requests : request[r].pc = "answered" => request[r].ordered = request[r].fill

=============================================================================
