--------------------------- MODULE CheckoutProofs ---------------------------
(***************************************************************************)
(* Proofs about Checkout, for any number of carts, SKUs and submissions:   *)
(* types, the limit of the coupon, and one order for what a cart held once *)
(* the token of the cart is stored.                                        *)
(***************************************************************************)
EXTENDS Checkout, FoldProofs, FiniteSetTheorems, TLAPS

\* What Min chooses when an item is clamped to the stock.
LEMMA MinOfTwo ==
    ASSUME NEW a \in Nat, NEW b \in Nat
    PROVE  Min({a, b}) \in Nat
  <1>1. \E x \in {a, b} : \A y \in {a, b} : x =< y
    OBVIOUS
  <1> QED
    BY <1>1 DEF Min

\* A submission that is running has its cart and its token.
LEMMA RunningFields ==
    ASSUME TypeOK, NEW r \in Requests, request[r] # Idle
    PROVE  /\ request[r].cart \in Carts
           /\ request[r].token \in Tokens
           /\ request[r].fill \in 0..MaxFills
           /\ request[r].pc \in {"checked", "snapshot"} => request[r].coupon \in BOOLEAN
           /\ request[r].pc = "snapshot" => request[r].lines \in Lines
  BY DEF TypeOK, Submission

-----------------------------------------------------------------------------
(* Types.                                                                  *)

\* The cart is empty and no submission has begun.
LEMMA InitTypeOK == Init => TypeOK
  <1> SUFFICES ASSUME Init PROVE TypeOK
    OBVIOUS
  <1>1. issued \in Nat
    BY CartAssumption, FS_Subset, FS_CardinalityType DEF Init
  <1>2. cart \in [Carts -> Cart]
    <2>1. PICK key \in Bijection(TokenStored, 1..issued) :
            cart = [c \in Carts |-> [token |-> IF c \in TokenStored THEN key[c] ELSE NoToken,
                                     lines |-> NoLines, fill |-> 0]]
      BY DEF Init
    <2>2. key \in [TokenStored -> 1..issued]
      BY DEF Bijection, Injection
    <2>3. NoLines \in Lines
      BY DEF NoLines, NoLine, Lines, Line
    <2> QED
      BY <1>1, <2>1, <2>2, <2>3, BoundAssumption, CartAssumption DEF Cart, Tokens, NoToken
  <1> QED
    BY <1>1, <1>2, SkuAssumption DEF Init, TypeOK, Submission

\* The customer's and the vendor's steps keep the types.
LEMMA ShopTypeOK ==
    ASSUME TypeOK, (\E c \in Carts : Shop(c)) \/ (\E s \in Repriced : Reprice(s))
    PROVE  TypeOK'
  <1> USE DEF TypeOK
  <1>1. ASSUME NEW c \in Carts, NEW s \in Skus, NEW quantity \in 1..MaxQuantity,
               AddItem(c, s, quantity)
        PROVE  TypeOK'
    <2>1. price[s] \in Nat
      BY SkuAssumption
    <2> DEFINE total == cart[c].lines[s].quantity + quantity
               fill  == cart[c].fill + (IF IsEmpty(cart[c].lines) THEN 1 ELSE 0)
               lines == [cart[c].lines EXCEPT ![s] = [quantity |-> total, price |-> price[s]]]
    <2>a. cart[c] \in Cart /\ cart[c].lines \in [Skus -> Line]
      BY DEF Cart, Lines
    <2>b. cart[c].lines[s].quantity \in Nat
      BY <2>a DEF Line
    <2>c. lines \in Lines
      BY <2>1, <2>a, <2>b DEF Lines, Line
    <2>d. fill \in 0..MaxFills
      BY <1>1, <2>a, BoundAssumption DEF AddItem, Cart
    <2>e. cart' = [cart EXCEPT ![c].lines = lines, ![c].fill = fill]
      BY <1>1 DEF AddItem
    <2> HIDE DEF lines, fill, total
    <2>2. cart' \in [Carts -> Cart]
      BY <2>a, <2>c, <2>d, <2>e DEF Cart
    <2> QED
      BY <1>1, <2>2 DEF AddItem
  <1>2. ASSUME NEW c \in Carts, NEW s \in Skus, NEW quantity \in 1..MaxQuantity,
               UpdateItem(c, s, quantity)
        PROVE  TypeOK'
    <2>1. Min({quantity, stock[s]}) \in Nat
      BY MinOfTwo, BoundAssumption
    <2> DEFINE changed == [cart[c].lines EXCEPT ![s].quantity = Min({quantity, stock[s]})]
               removed == [cart[c].lines EXCEPT ![s] = NoLine]
    <2>a. cart[c].lines \in [Skus -> Line]
      BY DEF Cart, Lines
    <2>b. changed \in Lines /\ removed \in Lines
      BY <2>1, <2>a DEF Lines, Line, NoLine
    <2>2. cart' \in [Carts -> Cart]
      BY <1>2, <2>b DEF UpdateItem, SetLines, Cart
    <2> QED
      BY <1>2, <2>2 DEF UpdateItem
  <1>3. ASSUME NEW c \in Carts, NEW s \in Skus, RemoveItem(c, s)
        PROVE  TypeOK'
    <2>1. cart' \in [Carts -> Cart]
      BY <1>3 DEF RemoveItem, SetLines, Cart, Lines, Line, NoLine
    <2> QED
      BY <1>3, <2>1 DEF RemoveItem
  <1>4. ASSUME NEW s \in Repriced, Reprice(s)
        PROVE  TypeOK'
    BY <1>4, SkuAssumption DEF Reprice
  <1> QED
    BY <1>1, <1>2, <1>3, <1>4 DEF Shop

\* The steps of a submission keep the types.
LEMMA CheckoutTypeOK ==
    ASSUME TypeOK, NEW r \in Requests, Checkout(r)
    PROVE  TypeOK'
  <1>0. NoLines \in Lines
    BY DEF NoLines, NoLine, Lines, Line
  <1>a. ASSUME NEW c \in Carts, SetLines(c, NoLines)
        PROVE  cart' \in [Carts -> Cart]
    BY <1>0, <1>a DEF TypeOK, SetLines, Cart
  <1>b. ASSUME NEW o \in orders, request[r] # Idle, Answer(r, o)
        PROVE  request' \in [Requests -> Submission]
    BY <1>b, RunningFields DEF TypeOK, Answer, Submission
  <1>1. ASSUME NEW c \in Carts, Load(r, c)
        PROVE  TypeOK'
    BY <1>1 DEF Load, TypeOK, Submission, Cart
  <1>2. CASE GetToken(r)
    <2>1. /\ request[r].cart \in Carts
          /\ request[r] \in [pc : {"loaded", "keyed"}, cart : Carts, token : Tokens,
                             fill : 0..MaxFills]
      BY <1>2 DEF GetToken, TypeOK, Submission, Idle
    <2>2. CASE request[r].token = NoToken
      <3>1. cart' \in [Carts -> Cart]
        BY <1>2, <2>1, <2>2 DEF GetToken, TypeOK, Cart, Tokens
      <3>2. request' \in [Requests -> Submission]
        BY <1>2, <2>1, <2>2 DEF GetToken, TypeOK, Submission, Tokens
      <3> QED
        BY <1>2, <2>2, <3>1, <3>2 DEF GetToken, TypeOK
    <2>3. CASE request[r].token # NoToken
      <3>1. request' \in [Requests -> Submission]
        BY <1>2, <2>1, <2>3 DEF GetToken, TypeOK, Submission
      <3> QED
        BY <1>2, <2>3, <3>1 DEF GetToken, TypeOK
    <2> QED
      BY <2>2, <2>3
  <1>3. CASE FindOrder(r)
    BY <1>3, <1>b DEF FindOrder, Placed, TypeOK, Idle
  <1>4. CASE RejectEmpty(r)
    BY <1>4, RunningFields DEF RejectEmpty, Fail, TypeOK, Submission, Idle
  <1>5. CASE GetCoupon(r)
    <2>1. request[r] # Idle
      BY <1>5 DEF GetCoupon, Idle
    <2>2. CouponIsApplicable(TotalOf(cart[request[r].cart].lines)) \in BOOLEAN
      BY DEF CouponIsApplicable
    <2> QED
      BY <1>5, <2>1, <2>2, RunningFields DEF GetCoupon, TypeOK, Submission
  <1>6. CASE ReturnExisting(r)
    BY <1>6, <1>a, <1>b, RunningFields DEF ReturnExisting, Placed, TypeOK, Idle
  <1>7. CASE ReadItems(r)
    <2>1. request[r] # Idle
      BY <1>7 DEF ReadItems, Idle
    <2>2. cart[request[r].cart].lines \in Lines
      BY <2>1, RunningFields DEF TypeOK, Cart
    <2> QED
      BY <1>7, <2>1, <2>2, RunningFields DEF ReadItems, Fail, TypeOK, Submission
  <1>8. CASE RejectStock(r)
    BY <1>8, RunningFields DEF RejectStock, Fail, TypeOK, Submission, Idle
  <1>9. CASE LoseInsert(r)
    BY <1>9, <1>a, <1>b, RunningFields DEF LoseInsert, Placed, TypeOK, Idle
  <1>10. CASE PlaceOrder(r)
    <2> DEFINE o == NewOrder(r)
    <2>1. request[r] # Idle /\ request[r].pc = "snapshot"
      BY <1>10 DEF PlaceOrder, Idle
    <2>2. request[r].lines \in Lines /\ request[r].cart \in Carts /\ request[r].token \in Tokens
      BY <2>1, RunningFields
    <2>3. /\ o.token = request[r].token /\ o.cart = request[r].cart /\ o.fill = request[r].fill
          /\ o.lines = OrderedLines(request[r].lines)
      BY DEF NewOrder
    <2>4. o.lines \in Lines
      <3>1. \A s \in Skus : price[s] \in Nat
        BY SkuAssumption DEF TypeOK
      <3>2. \A s \in Skus : request[r].lines[s].quantity \in Nat
        BY <2>2 DEF Lines, Line
      <3> QED
        BY <2>3, <3>1, <3>2 DEF OrderedLines, NoLine, Lines, Line
    <2>5. o.coupon \in BOOLEAN
      <3>1. CouponIsApplicable(TotalOf(cart[request[r].cart].lines)) \in BOOLEAN
        BY DEF CouponIsApplicable
      <3> QED
        BY <3>1, <2>1, RunningFields DEF NewOrder
    <2>6. stock' \in [Skus -> Nat]
      <3>1. \A s \in Skus : o.lines[s].quantity = request[r].lines[s].quantity
        BY <2>2, <2>3 DEF OrderedLines, NoLine, Lines, Line
      <3>2. \A s \in Skus : o.lines[s].quantity \in Nat /\ o.lines[s].quantity <= stock[s]
        BY <1>10, <2>4, <3>1 DEF PlaceOrder, InStock, Lines, Line
      <3> QED
        BY <1>10, <3>2 DEF PlaceOrder, Take, TypeOK
    <2>7. cart' \in [Carts -> Cart]
      BY <1>10, <1>a, <2>2 DEF PlaceOrder
    <2>8. request' \in [Requests -> Submission]
      BY <1>10, <2>1, <2>3, RunningFields DEF PlaceOrder, Answer, TypeOK, Submission
    <2>9. o.fill \in 0..MaxFills
      BY <2>1, <2>3, RunningFields
    <2>10. used' \in Nat
      BY <1>10 DEF PlaceOrder, TypeOK
    <2>11. orders' = orders \cup {o} /\ UNCHANGED <<price, issued>>
      BY <1>10 DEF PlaceOrder
    <2> QED
      BY <2>2, <2>3, <2>4, <2>5, <2>6, <2>7, <2>8, <2>9, <2>10, <2>11 DEF TypeOK
  <1> QED
    BY <1>1, <1>2, <1>3, <1>4, <1>5, <1>6, <1>7, <1>8, <1>9, <1>10 DEF Checkout

\* Every variable keeps its type: in particular the stock never falls below
\* zero, because the lines are compared with it once more under the lock.
THEOREM TypeCorrect == Spec => []TypeOK
  <1>1. Init => TypeOK
    BY InitTypeOK
  <1>2. TypeOK /\ [Next]_vars => TypeOK'
    <2>1. TypeOK /\ UNCHANGED vars => TypeOK'
      BY DEF TypeOK, vars
    <2> QED
      BY <2>1, ShopTypeOK, CheckoutTypeOK DEF Next
  <1> QED
    BY <1>1, <1>2, PTL DEF Spec

-----------------------------------------------------------------------------
(* The coupon.                                                             *)

\* Orders with the discount.
Discounted == {o \in orders : o.coupon}

\* What PlaceOrder, the only step that uses the coupon, does to the count.
CouponInv == IsFiniteSet(orders) /\ CouponWithinLimit

\* A step that places no order leaves used_count and the orders alone.
LEMMA CouponElsewhere ==
    ASSUME Next, ~\E q \in Requests : PlaceOrder(q)
    PROVE  UNCHANGED <<used, orders>>
  BY ZenonT(30) DEF Next, Checkout, Shop, Load, GetToken, FindOrder, RejectEmpty, GetCoupon,
         ReturnExisting, ReadItems, RejectStock, LoseInsert, AddItem, UpdateItem,
         RemoveItem, Reprice

\* used_count and the orders with the discount grow together, below the limit.
LEMMA PlaceOrderCoupon ==
    ASSUME TypeOK, CouponInv, NEW r \in Requests, PlaceOrder(r)
    PROVE  CouponInv'
  <1> DEFINE o == NewOrder(r)
  <1>1. /\ orders' = orders \cup {o}
        /\ used' = used + (IF o.coupon THEN 1 ELSE 0)
        /\ Placed(request[r].token) = {}
    BY DEF PlaceOrder
  <1>2. o.token = request[r].token
    BY DEF NewOrder
  <1>3. o \notin orders
    BY <1>1, <1>2 DEF Placed
  <1>4. o.coupon => used < UsageLimit
    BY DEF NewOrder, CouponIsApplicable
  <1>5. IsFiniteSet(Discounted) /\ IsFiniteSet(orders')
    BY <1>1, FS_Subset, FS_AddElement DEF CouponInv, Discounted
  <1> HIDE DEF o
  <1>6. CASE o.coupon
    <2>1. Discounted' = Discounted \cup {o}
      BY <1>1, <1>6 DEF Discounted
    <2>2. Cardinality(Discounted') = Cardinality(Discounted) + 1
      BY <2>1, <1>3, <1>5, FS_AddElement DEF Discounted
    <2> QED
      BY <1>1, <1>4, <1>5, <1>6, <2>2, BoundAssumption
      DEF CouponInv, CouponWithinLimit, Discounted, TypeOK
  <1>7. CASE ~o.coupon
    <2>1. Discounted' = Discounted
      BY <1>1, <1>7 DEF Discounted
    <2>2. used' = used
      BY <1>1, <1>7 DEF TypeOK
    <2> QED
      BY <1>5, <2>1, <2>2 DEF CouponInv, CouponWithinLimit, Discounted
  <1> QED
    BY <1>6, <1>7

\* However submissions interleave, used_count is the number of orders that got
\* the discount, and stays within the limit.
THEOREM CouponHolds == Spec => []CouponWithinLimit
  <1>1. Init => CouponInv
    BY FS_EmptySet, BoundAssumption DEF Init, CouponInv, CouponWithinLimit
  <1>2. TypeOK /\ CouponInv /\ [Next]_vars => CouponInv'
    <2> SUFFICES ASSUME TypeOK, CouponInv, [Next]_vars PROVE CouponInv'
      OBVIOUS
    <2>1. CASE \E r \in Requests : PlaceOrder(r)
      BY <2>1, PlaceOrderCoupon
    <2>2. CASE Next /\ ~\E r \in Requests : PlaceOrder(r)
      BY <2>2, CouponElsewhere DEF CouponInv, CouponWithinLimit
    <2>3. CASE UNCHANGED vars
      BY <2>3 DEF vars, CouponInv, CouponWithinLimit
    <2> QED
      BY <2>1, <2>2, <2>3
  <1>3. CouponInv => CouponWithinLimit
    BY DEF CouponInv
  <1> QED
    BY <1>1, <1>2, <1>3, TypeCorrect, PTL DEF Spec

-----------------------------------------------------------------------------
(* One order for what a cart held.                                         *)

\* Tokens stored before the first submission are distinct.
LEMMA InitTokens ==
    ASSUME TokenStored = Carts, Init
    PROVE  TokensAgree
  <1>1. PICK key \in Bijection(TokenStored, 1..issued) :
          cart = [c \in Carts |-> [token |-> IF c \in TokenStored THEN key[c] ELSE NoToken,
                                   lines |-> NoLines, fill |-> 0]]
    BY DEF Init
  <1>2. /\ key \in [Carts -> 1..issued]
        /\ \A c, d \in Carts : key[c] = key[d] => c = d
    BY DEF Bijection, Injection, IsInjective
  <1>3. issued \in Nat
    BY CartAssumption, FS_CardinalityType DEF Init
  <1>4. \A c \in Carts : cart[c].token = key[c]
    BY <1>1
  <1> QED
    BY <1>2, <1>3, <1>4 DEF Init, TokensAgree, NoToken

\* A step that generates no token leaves every cart's token.
LEMMA TokensStay ==
    ASSUME TypeOK, NEW c \in Carts, NEW lines, SetLines(c, lines)
    PROVE  \A d \in Carts : cart'[d].token = cart[d].token
  BY DEF TypeOK, SetLines, Cart

\* What the shopping steps leave alone.
LEMMA ShopTokens ==
    ASSUME TypeOK, TokensAgree, (\E c \in Carts : Shop(c)) \/ (\E s \in Repriced : Reprice(s))
    PROVE  TokensAgree'
  <1>1. \A d \in Carts : cart'[d].token = cart[d].token
    <2>1. ASSUME NEW c \in Carts, NEW s \in Skus, NEW quantity \in 1..MaxQuantity,
                 AddItem(c, s, quantity)
          PROVE  \A d \in Carts : cart'[d].token = cart[d].token
      BY <2>1 DEF AddItem, TypeOK, Cart
    <2> QED
      BY <2>1, TokensStay DEF Shop, UpdateItem, RemoveItem, Reprice
  <1>2. UNCHANGED <<orders, request>>
    BY ZenonT(30) DEF Shop, AddItem, UpdateItem, RemoveItem, Reprice
  <1> QED
    BY <1>1, <1>2, RunningFields DEF TokensAgree, TypeOK

\* A step of a submission keeps its token, and the tokens of the carts.
LEMMA CheckoutTokens ==
    ASSUME TypeOK, TokensAgree, NEW r \in Requests, Checkout(r)
    PROVE  TokensAgree'
  <1>1. CASE \E c \in Carts : Load(r, c)
    BY <1>1 DEF Load, TokensAgree, TypeOK, Idle
  <1>2. CASE ~\E c \in Carts : Load(r, c)
    <2>1. request[r] # Idle
      BY <1>2 DEF Checkout, GetToken, FindOrder, RejectEmpty, GetCoupon, ReturnExisting,
                  ReadItems, RejectStock, LoseInsert, PlaceOrder, Idle
    <2>2. request[r].cart \in Carts /\ request[r].token # NoToken
      BY <2>1, RunningFields DEF TokensAgree
    <2>3. /\ request'[r].cart = request[r].cart
          /\ request'[r].token = request[r].token
          /\ \A q \in Requests : q # r => request'[q] = request[q]
      <3>1. CASE GetToken(r)
        <4>1. request[r] \in [pc : {"loaded", "keyed"}, cart : Carts, token : Tokens,
                              fill : 0..MaxFills]
          BY <3>1 DEF GetToken, TypeOK, Submission, Idle
        <4>2. request' = [request EXCEPT ![r].pc = "keyed"]
          BY <3>1, <2>2 DEF GetToken
        <4> QED
          BY <4>1, <4>2 DEF TypeOK
      <3>2. CASE ~GetToken(r)
        BY <1>2, <3>2 DEF Checkout, FindOrder, RejectEmpty, GetCoupon, ReturnExisting,
                          ReadItems, RejectStock, LoseInsert, PlaceOrder, Answer, Fail, TypeOK
      <3> QED
        BY <3>1, <3>2
    <2>4. \A d \in Carts : cart'[d].token = cart[d].token
      BY <1>2, <2>2, TokensStay
      DEF Checkout, GetToken, FindOrder, RejectEmpty, GetCoupon, ReturnExisting,
          ReadItems, RejectStock, LoseInsert, PlaceOrder
    <2>5. \/ orders' = orders
          \/ orders' = orders \cup {NewOrder(r)} /\ Placed(request[r].token) = {}
      BY <1>2 DEF Checkout, GetToken, FindOrder, RejectEmpty, GetCoupon, ReturnExisting,
                  ReadItems, RejectStock, LoseInsert, PlaceOrder
    <2>6. /\ \A o \in orders' : o.token = cart'[o.cart].token
          /\ \A o1, o2 \in orders' : o1.token = o2.token => o1 = o2
      <3>1. NewOrder(r).token = request[r].token /\ NewOrder(r).cart = request[r].cart
        BY DEF NewOrder
      <3>2. \A o \in orders : o.cart \in Carts
        BY DEF TypeOK
      <3>3. request[r].token = cart[request[r].cart].token
        BY <2>1 DEF TokensAgree
      <3> QED
        BY <2>2, <2>4, <2>5, <3>1, <3>2, <3>3 DEF TokensAgree, Placed
    <2>7. \A q \in Requests : request'[q] # Idle =>
              request'[q].token = cart'[request'[q].cart].token
      BY <2>1, <2>2, <2>3, <2>4, RunningFields DEF TokensAgree
    <2> QED
      BY <2>4, <2>6, <2>7 DEF TokensAgree
  <1> QED
    BY <1>1, <1>2

\* The tokens agree when they were all stored before the submissions that race.
THEOREM TokensHold ==
    ASSUME TokenStored = Carts
    PROVE  Spec => []TokensAgree
  <1>1. Init => TokensAgree
    BY InitTokens
  <1>2. TypeOK /\ TokensAgree /\ [Next]_vars => TokensAgree'
    <2>1. TokensAgree /\ UNCHANGED vars => TokensAgree'
      BY DEF TokensAgree, vars
    <2> QED
      BY <2>1, ShopTokens, CheckoutTokens DEF Next
  <1> QED
    BY <1>1, <1>2, TypeCorrect, PTL DEF Spec

\* When the token of every cart was stored before the submissions that race,
\* what a customer put into a cart is ordered once: the promise of ADR-15,
\* under the condition it needs.
THEOREM NoDoubleOrders ==
    ASSUME TokenStored = Carts
    PROVE  Spec => []OneOrderPerFill
  <1>1. TokensAgree => OneOrderPerFill
    BY DEF TokensAgree, OneOrderPerFill
  <1> QED
    BY <1>1, TokensHold, PTL

-----------------------------------------------------------------------------
(* The lines of a submission are those of its cart.                        *)

\* The carts are left alone by other tabs, and the vendor changes no price.
Undisturbed == TokenStored = Carts /\ Edited = {} /\ Repriced = {}

\* A line has the price of its product, and no price without a quantity.
LinesPriced ==
    \A c \in Carts, s \in Skus :
        cart[c].lines[s] = IF cart[c].lines[s].quantity = 0 THEN NoLine
                           ELSE [quantity |-> cart[c].lines[s].quantity, price |-> price[s]]

\* While a submission is past the look at its cart, the cart is as it was seen
\* until the order of its token is placed, and empty from then on.
CartSeen ==
    \A r \in Requests : request[r].pc \in {"checked", "snapshot"} =>
        /\ Placed(request[r].token) # {} => IsEmpty(cart[request[r].cart].lines)
        /\ request[r].pc = "snapshot" /\ Placed(request[r].token) = {} =>
               request[r].lines = cart[request[r].cart].lines

\* What totals and emptied carts rest on.
LinesInv == TokensAgree /\ LinesPriced /\ CartSeen /\ TotalsMatchLines

\* Nothing is in a cart to begin with.
LEMMA InitLines ==
    ASSUME TokenStored = Carts, Init
    PROVE  LinesInv
  <1>1. TokensAgree
    BY InitTokens
  <1>2. \A c \in Carts : cart[c].lines = NoLines
    <2>1. PICK key \in Bijection(TokenStored, 1..issued) :
            cart = [c \in Carts |-> [token |-> IF c \in TokenStored THEN key[c] ELSE NoToken,
                                     lines |-> NoLines, fill |-> 0]]
      BY DEF Init
    <2> QED
      BY <2>1
  <1>3. \A c \in Carts, s \in Skus : cart[c].lines[s].quantity = 0 /\ cart[c].lines[s] = NoLine
    BY <1>2 DEF NoLines, NoLine
  <1>4. LinesPriced
    BY <1>3 DEF LinesPriced
  <1>5. CartSeen /\ TotalsMatchLines
    BY DEF Init, Idle, CartSeen, TotalsMatchLines
  <1> QED
    BY <1>1, <1>4, <1>5 DEF LinesInv

\* The other tab writes a cart no submission runs on, and its lines at the
\* prices of their products.
LEMMA ShopLines ==
    ASSUME Undisturbed, TypeOK, LinesInv, NEW c \in Carts, Shop(c)
    PROVE  LinesInv'
  <1>1. /\ \A r \in Requests : ~Running(r, c)
        /\ UNCHANGED <<price, orders, request>>
        /\ \A d \in Carts \ {c} : cart'[d] = cart[d]
        /\ TokensAgree'
    BY ShopTokens DEF Shop, AddItem, UpdateItem, RemoveItem, MayEdit, SetLines, Undisturbed,
                      LinesInv, TypeOK
  <1>2. cart[c] \in Cart /\ cart[c].lines \in [Skus -> Line]
    BY DEF TypeOK, Cart, Lines
  <1>3. \A s \in Skus : price[s] \in Nat /\ stock[s] \in Nat /\ cart[c].lines[s].quantity \in Nat
    BY <1>2, SkuAssumption DEF TypeOK, Line
  <1>4. LinesPriced'
    <2>1. ASSUME NEW s \in Skus, NEW line, line.quantity = 0 => line = NoLine,
                 line.quantity # 0 => line = [quantity |-> line.quantity, price |-> price[s]],
                 \A z \in Skus : cart'[c].lines[z] = IF z = s THEN line ELSE cart[c].lines[z]
          PROVE  LinesPriced'
      <3> SUFFICES ASSUME NEW d \in Carts, NEW z \in Skus
                   PROVE  cart'[d].lines[z] =
                             IF cart'[d].lines[z].quantity = 0 THEN NoLine
                             ELSE [quantity |-> cart'[d].lines[z].quantity, price |-> price[z]]
        BY <1>1 DEF LinesPriced
      <3>1. CASE d # c
        BY <1>1, <3>1 DEF LinesInv, LinesPriced
      <3>2. CASE d = c /\ z # s
        BY <2>1, <3>2 DEF LinesInv, LinesPriced
      <3>3. CASE d = c /\ z = s
        BY <2>1, <3>3
      <3> QED
        BY <3>1, <3>2, <3>3
    <2>2. ASSUME NEW s \in Skus, NEW quantity \in 1..MaxQuantity, AddItem(c, s, quantity)
          PROVE  LinesPriced'
      <3> DEFINE line == [quantity |-> cart[c].lines[s].quantity + quantity, price |-> price[s]]
      <3>1. \A z \in Skus : cart'[c].lines[z] = IF z = s THEN line ELSE cart[c].lines[z]
        BY <2>2, <1>2 DEF AddItem, TypeOK, Cart
      <3>2. line.quantity # 0
        BY <1>3, BoundAssumption
      <3>3. line = [quantity |-> line.quantity, price |-> price[s]]
        OBVIOUS
      <3> HIDE DEF line
      <3> QED
        BY <2>1, <3>1, <3>2, <3>3
    <2>3. ASSUME NEW s \in Skus, cart[c].lines[s].quantity > 0,
                 SetLines(c, [cart[c].lines EXCEPT ![s] = NoLine])
          PROVE  LinesPriced'
      <3>1. \A z \in Skus : cart'[c].lines[z] = IF z = s THEN NoLine ELSE cart[c].lines[z]
        BY <2>3, <1>2 DEF SetLines, TypeOK, Cart
      <3>2. NoLine.quantity = 0
        BY DEF NoLine
      <3> QED
        BY <2>1, <3>1, <3>2
    <2>4. ASSUME NEW s \in Skus, NEW quantity \in 1..MaxQuantity, UpdateItem(c, s, quantity),
                 stock[s] # 0
          PROVE  LinesPriced'
      <3> DEFINE kept == Min({quantity, stock[s]})
                 line == [cart[c].lines[s] EXCEPT !.quantity = kept]
      <3>1. kept \in Nat /\ kept # 0
        <4>1. quantity \in Nat \ {0} /\ stock[s] \in Nat \ {0}
          BY <1>3, <2>4, BoundAssumption
        <4>2. \E x \in {quantity, stock[s]} : \A y \in {quantity, stock[s]} : x =< y
          BY <4>1
        <4> QED
          BY <4>1, <4>2 DEF Min
      <3>2. \A z \in Skus : cart'[c].lines[z] = IF z = s THEN line ELSE cart[c].lines[z]
        <4>1. cart'[c].lines = [cart[c].lines EXCEPT ![s] = line]
          BY <2>4 DEF UpdateItem, SetLines, TypeOK, Cart
        <4> HIDE DEF line
        <4> QED
          BY <4>1, <1>2
      <3> HIDE DEF kept
      <3>3. cart[c].lines[s] \in Line /\ cart[c].lines[s].price = price[s]
        <4>1. cart[c].lines[s] = [quantity |-> cart[c].lines[s].quantity, price |-> price[s]]
          BY <1>3, <2>4 DEF UpdateItem, LinesInv, LinesPriced
        <4>2. cart[c].lines[s].price = price[s]
          BY <4>1
        <4> QED
          BY <1>2, <4>2
      <3>4. line = [quantity |-> kept, price |-> price[s]]
        BY <3>3 DEF Line
      <3>5. line.quantity # 0 /\ line = [quantity |-> line.quantity, price |-> price[s]]
        BY <3>1, <3>4
      <3> HIDE DEF line
      <3> QED
        BY <2>1, <3>2, <3>5
    <2> QED
      BY <2>2, <2>3, <2>4 DEF Shop, UpdateItem, RemoveItem
  <1>5. CartSeen'
    <2> SUFFICES ASSUME NEW r \in Requests, request[r].pc \in {"checked", "snapshot"}
                 PROVE  cart'[request[r].cart] = cart[request[r].cart]
      BY <1>1 DEF LinesInv, CartSeen, Placed
    <2>1. request[r].cart \in Carts
      BY RunningFields DEF Idle
    <2> QED
      BY <1>1, <2>1 DEF Running
  <1> QED
    BY <1>1, <1>4, <1>5 DEF LinesInv, TotalsMatchLines

\* The order that is placed has the lines of its cart, at the prices it shows.
LEMMA OrderHasCart ==
    ASSUME TypeOK, LinesInv, NEW r \in Requests, PlaceOrder(r)
    PROVE  /\ NewOrder(r).lines = cart[request[r].cart].lines
           /\ NewOrder(r).total = TotalOf(NewOrder(r).lines)
  <1> DEFINE c == request[r].cart
  <1>1. request[r] # Idle /\ request[r].pc = "snapshot" /\ Placed(request[r].token) = {}
    BY DEF PlaceOrder, Idle
  <1>2. c \in Carts /\ request[r].lines = cart[c].lines
    BY <1>1, RunningFields DEF LinesInv, CartSeen
  <1>3. cart[c].lines \in [Skus -> Line]
    BY <1>2 DEF TypeOK, Cart, Lines
  <1> HIDE DEF c
  <1>4. \A s \in Skus : OrderedLines(cart[c].lines)[s] = cart[c].lines[s]
    BY <1>2 DEF OrderedLines, LinesInv, LinesPriced
  <1>5. OrderedLines(cart[c].lines) = cart[c].lines
    BY <1>3, <1>4 DEF OrderedLines
  <1> QED
    BY <1>2, <1>5 DEF NewOrder, c

\* A submission that empties its cart leaves the lines of the others alone.
LEMMA EmptiedLines ==
    ASSUME TypeOK, LinesPriced, NEW c \in Carts, SetLines(c, NoLines), UNCHANGED price
    PROVE  /\ LinesPriced'
           /\ IsEmpty(cart'[c].lines)
           /\ \A d \in Carts \ {c} : cart'[d] = cart[d]
  <1>1. \A d \in Carts \ {c} : cart'[d] = cart[d]
    BY DEF SetLines, TypeOK
  <1>2. cart'[c].lines = NoLines
    BY DEF SetLines, TypeOK, Cart
  <1>3. IsEmpty(cart'[c].lines)
    BY <1>2 DEF IsEmpty, NoLines, NoLine
  <1>4. \A s \in Skus : cart'[c].lines[s] = NoLine /\ NoLine.quantity = 0
    BY <1>2 DEF NoLines, NoLine
  <1>5. LinesPriced'
    BY <1>1, <1>4 DEF LinesPriced
  <1> QED
    BY <1>1, <1>3, <1>5

\* A submission that finds its order empties a cart that is empty already.
LEMMA CheckoutLines ==
    ASSUME Undisturbed, TypeOK, LinesInv, NEW r \in Requests, Checkout(r)
    PROVE  LinesInv'
  <1> DEFINE c == request[r].cart
  <1>0. TokensAgree'
    BY CheckoutTokens DEF LinesInv
  <1>a. /\ \A q \in Requests : q # r => request'[q] = request[q]
        /\ UNCHANGED price
    BY DEF Checkout, Load, GetToken, FindOrder, RejectEmpty, GetCoupon, ReturnExisting,
           ReadItems, RejectStock, LoseInsert, PlaceOrder, Answer, Fail, TypeOK
  <1>b. \A q \in Requests : request[q].pc \in {"checked", "snapshot"} =>
            /\ request[q].cart \in Carts
            /\ request[q].token = cart[request[q].cart].token
    BY RunningFields DEF LinesInv, TokensAgree, Idle
  <1>1. ASSUME UNCHANGED <<cart, orders>>,
               request'[r].pc \notin {"checked", "snapshot"}
        PROVE  LinesInv'
    BY <1>0, <1>1, <1>a DEF LinesInv, LinesPriced, CartSeen, TotalsMatchLines, Placed
  <1>2. CASE \E d \in Carts : Load(r, d)
    BY <1>1, <1>2 DEF Load, TypeOK
  <1>3. CASE GetToken(r)
    <2>1. request[r] \in [pc : {"loaded", "keyed"}, cart : Carts, token : Tokens,
                          fill : 0..MaxFills]
      BY <1>3 DEF GetToken, TypeOK, Submission, Idle
    <2>2. request[r].token # NoToken
      BY <2>1, <1>3, RunningFields DEF GetToken, LinesInv, TokensAgree, Idle
    <2>3. UNCHANGED <<cart, orders>> /\ request'[r].pc = "keyed"
      BY <1>3, <2>1, <2>2 DEF GetToken, TypeOK
    <2> QED
      BY <1>1, <2>3
  <1>4. CASE FindOrder(r) \/ RejectEmpty(r) \/ RejectStock(r)
    BY <1>1, <1>4 DEF FindOrder, RejectEmpty, RejectStock, Answer, Fail, TypeOK
  <1>5. CASE GetCoupon(r)
    <2>1. /\ UNCHANGED <<cart, orders>>
          /\ request'[r].pc = "checked" /\ request'[r].token = request[r].token
          /\ Placed(request[r].token) = {}
      BY <1>5 DEF GetCoupon, TypeOK
    <2> QED
      BY <1>0, <1>a, <2>1 DEF LinesInv, LinesPriced, CartSeen, TotalsMatchLines, Placed
  <1>6. CASE ReadItems(r)
    <2>1. UNCHANGED <<cart, orders>> /\ Placed(request[r].token) = {}
      BY <1>6 DEF ReadItems
    <2>2. CASE IsEmpty(cart[c].lines)
      BY <1>1, <1>6, <2>1, <2>2 DEF ReadItems, Fail, TypeOK
    <2>3. CASE ~IsEmpty(cart[c].lines)
      <3>1. /\ request'[r].token = request[r].token /\ request'[r].cart = c
            /\ request'[r].lines = cart[c].lines
        BY <1>6, <2>3 DEF ReadItems, TypeOK
      <3> QED
        BY <1>0, <1>a, <2>1, <3>1 DEF LinesInv, LinesPriced, CartSeen, TotalsMatchLines, Placed
    <2> QED
      BY <2>2, <2>3
  <1>7. ASSUME SetLines(c, NoLines), c \in Carts, request'[r].pc = "answered",
               request[r].token = cart[c].token,
               \/ orders' = orders
               \/ /\ orders' = orders \cup {NewOrder(r)}
                  /\ NewOrder(r).total = TotalOf(NewOrder(r).lines),
               {o \in orders' : o.token = request[r].token} # {}
        PROVE  LinesInv'
    <2>1. /\ LinesPriced'
          /\ IsEmpty(cart'[c].lines)
          /\ \A d \in Carts \ {c} : cart'[d] = cart[d]
      BY <1>7, <1>a, EmptiedLines DEF LinesInv
    <2>2. TotalsMatchLines'
      BY <1>7 DEF LinesInv, TotalsMatchLines
    <2>3. NewOrder(r).token = request[r].token
      BY DEF NewOrder
    <2>4. CartSeen'
      <3> SUFFICES ASSUME NEW q \in Requests, request'[q].pc \in {"checked", "snapshot"}
                   PROVE  /\ {o \in orders' : o.token = request'[q].token} # {} =>
                                IsEmpty(cart'[request'[q].cart].lines)
                          /\ request'[q].pc = "snapshot"
                                /\ {o \in orders' : o.token = request'[q].token} = {} =>
                                request'[q].lines = cart'[request'[q].cart].lines
        BY DEF CartSeen, Placed
      <3>1. q # r /\ request'[q] = request[q]
        BY <1>7, <1>a
      <3>2. request[q].cart \in Carts /\ request[q].token = cart[request[q].cart].token
        BY <1>b, <3>1
      <3>3. CASE request[q].cart = c
        <4>1. {o \in orders' : o.token = request[q].token} # {}
          BY <1>7, <3>2, <3>3
        <4> QED
          BY <2>1, <3>1, <3>3, <4>1
      <3>4. CASE request[q].cart # c
        <4>1. request[q].token # request[r].token
          BY <1>7, <3>2, <3>4 DEF LinesInv, TokensAgree
        <4>2. {o \in orders' : o.token = request[q].token} =
                  {o \in orders : o.token = request[q].token}
          BY <1>7, <2>3, <4>1
        <4>3. cart'[request[q].cart] = cart[request[q].cart]
          BY <2>1, <3>2, <3>4
        <4> QED
          BY <3>1, <4>2, <4>3 DEF LinesInv, CartSeen, Placed
      <3> QED
        BY <3>3, <3>4
    <2> QED
      BY <1>0, <2>1, <2>2, <2>4 DEF LinesInv
  <1>8. CASE ReturnExisting(r) \/ LoseInsert(r)
    <2>1. /\ request[r].pc \in {"checked", "snapshot"}
          /\ SetLines(c, NoLines) /\ orders' = orders
          /\ request'[r].pc = "answered"
          /\ Placed(request[r].token) # {}
      BY <1>8 DEF ReturnExisting, LoseInsert, Answer, TypeOK
    <2>2. request'[r].token = request[r].token
      BY <1>8 DEF ReturnExisting, LoseInsert, Answer, TypeOK
    <2>3. {o \in orders' : o.token = request[r].token} # {}
      BY <2>1, <2>2 DEF Placed
    <2> QED
      BY <1>7, <1>b, <2>1, <2>3
  <1>9. CASE PlaceOrder(r)
    <2>1. /\ request[r].pc = "snapshot"
          /\ SetLines(c, NoLines) /\ orders' = orders \cup {NewOrder(r)}
          /\ request'[r].pc = "answered" /\ request'[r].token = request[r].token
      BY <1>9 DEF PlaceOrder, Answer, TypeOK
    <2>2. NewOrder(r).total = TotalOf(NewOrder(r).lines)
      BY <1>9, OrderHasCart
    <2>3. NewOrder(r).token = request[r].token
      BY DEF NewOrder
    <2>4. {o \in orders' : o.token = request[r].token} # {}
      BY <2>1, <2>3
    <2> QED
      BY <1>7, <1>b, <2>1, <2>2, <2>4
  <1> QED
    BY <1>2, <1>3, <1>4, <1>5, <1>6, <1>8, <1>9 DEF Checkout

\* The lines invariant holds throughout.
LEMMA LinesHold ==
    ASSUME Undisturbed
    PROVE  Spec => []LinesInv
  <1>1. Init => LinesInv
    BY InitLines DEF Undisturbed
  <1>2. TypeOK /\ LinesInv /\ [Next]_vars => LinesInv'
    <2>1. LinesInv /\ UNCHANGED vars => LinesInv'
      BY DEF LinesInv, TokensAgree, LinesPriced, CartSeen, TotalsMatchLines, Placed, vars
    <2> QED
      BY <2>1, ShopLines, CheckoutLines DEF Next, Undisturbed
  <1> QED
    BY <1>1, <1>2, TypeCorrect, PTL DEF Spec

\* An order's amounts are those of its items although cart_totals reads the
\* cart a second time, when the customer's other tab is still and no price
\* changes while submissions run.
THEOREM TotalsHold ==
    ASSUME Undisturbed
    PROVE  Spec => []TotalsMatchLines
  <1>1. LinesInv => TotalsMatchLines
    BY DEF LinesInv
  <1> QED
    BY <1>1, LinesHold, PTL

\* A step that empties the cart of a running submission and answers it places
\* the order of what was in the cart: nothing a customer chose is lost.
LEMMA EmptiedStep ==
    ASSUME TypeOK, LinesInv, Next, NEW r \in Requests, NEW c \in Carts,
           Running(r, c), request'[r].pc = "answered",
           ~IsEmpty(cart[c].lines), IsEmpty(cart'[c].lines)
    PROVE  \E o \in orders' \ orders : \A s \in Skus :
               o.lines[s].quantity = cart[c].lines[s].quantity
  <1>0. request[r].pc # "answered" /\ request[r].cart = c
    BY DEF Running
  <1>1. Checkout(r)
    <2>1. \A q \in Requests : Checkout(q) => \A p \in Requests : p # q => request'[p] = request[p]
      BY DEF Checkout, Load, GetToken, FindOrder, RejectEmpty, GetCoupon, ReturnExisting,
             ReadItems, RejectStock, LoseInsert, PlaceOrder, Answer, Fail, TypeOK
    <2>2. (\E d \in Carts : Shop(d)) \/ (\E s \in Repriced : Reprice(s)) => request' = request
      BY ZenonT(30) DEF Shop, AddItem, UpdateItem, RemoveItem, Reprice
    <2> QED
      BY <1>0, <2>1, <2>2 DEF Next
  <1>2. cart' # cart
    OBVIOUS
  <1>3. PlaceOrder(r)
    <2>1. ~\E d \in Carts : Load(r, d)
      BY <1>2 DEF Load
    <2>2. ~GetToken(r)
      BY <1>0 DEF GetToken, TypeOK, Submission, Idle, Running
    <2>3. ~ReturnExisting(r) /\ ~LoseInsert(r)
      BY <1>0 DEF ReturnExisting, LoseInsert, LinesInv, CartSeen
    <2> QED
      BY <1>1, <1>2, <2>1, <2>2, <2>3
      DEF Checkout, FindOrder, RejectEmpty, GetCoupon, ReadItems, RejectStock
  <1>4. NewOrder(r).lines = cart[c].lines
    BY <1>0, <1>3, OrderHasCart
  <1>5. NewOrder(r) \in orders' \ orders
    <2>1. NewOrder(r).token = request[r].token
      BY DEF NewOrder
    <2> QED
      BY <1>3, <2>1 DEF PlaceOrder, Placed
  <1> QED
    BY <1>4, <1>5

\* Items leave a cart through a submission only into the order it places.
THEOREM EmptiedCartIsOrdered ==
    ASSUME Undisturbed
    PROVE  Spec => EmptiedIsOrdered
  <1>1. TypeOK /\ LinesInv /\ [Next]_vars =>
            [\A r \in Requests, c \in Carts :
                Running(r, c) /\ request'[r].pc = "answered"
                    /\ ~IsEmpty(cart[c].lines) /\ IsEmpty(cart'[c].lines) =>
                  \E o \in orders' \ orders : \A s \in Skus :
                      o.lines[s].quantity = cart[c].lines[s].quantity]_vars
    BY EmptiedStep
  <1> QED
    BY <1>1, TypeCorrect, LinesHold, PTL DEF Spec, EmptiedIsOrdered

-----------------------------------------------------------------------------
(* The stock.                                                              *)

\* There are finitely many orders, and with what is left they make up the stock.
StockInv == IsFiniteSet(orders) /\ StockMatchesOrders

\* A step that places no order leaves the stock and the orders alone.
LEMMA StockElsewhere ==
    ASSUME Next, ~\E q \in Requests : PlaceOrder(q)
    PROVE  UNCHANGED <<stock, orders>>
  BY ZenonT(30) DEF Next, Checkout, Shop, Load, GetToken, FindOrder, RejectEmpty, GetCoupon,
         ReturnExisting, ReadItems, RejectStock, LoseInsert, AddItem, UpdateItem,
         RemoveItem, Reprice

\* What the order has is what the stock loses.
LEMMA PlaceOrderStock ==
    ASSUME TypeOK, StockInv, NEW r \in Requests, PlaceOrder(r)
    PROVE  StockInv'
  <1> DEFINE o == NewOrder(r)
  <1>1. /\ orders' = orders \cup {o} /\ Placed(request[r].token) = {}
        /\ stock' = [s \in Skus |-> stock[s] - o.lines[s].quantity]
    BY DEF PlaceOrder, Take
  <1>2. o \notin orders
    BY <1>1 DEF Placed, NewOrder
  <1>3. IsFiniteSet(orders')
    BY <1>1, FS_AddElement DEF StockInv
  <1>4. o.lines \in Lines
    <2>1. TypeOK'
      BY CheckoutTypeOK DEF Checkout
    <2>2. o \in orders'
      BY <1>1
    <2> HIDE DEF o
    <2> QED
      BY <2>1, <2>2 DEF TypeOK
  <1> HIDE DEF o
  <1>5. ASSUME NEW s \in Skus
        PROVE  stock'[s] + SumFunction([p \in orders' |-> p.lines[s].quantity]) = OpeningStock[s]
    <2> DEFINE f == [p \in orders |-> p.lines[s].quantity]
               g == [p \in orders' |-> p.lines[s].quantity]
    <2>1. /\ SumFunction(f) = SumFunctionOnSet(f, orders)
          /\ SumFunction(g) = SumFunctionOnSet(g, orders')
      BY DEF SumFunction
    <2>2. \A p \in orders' : p.lines[s].quantity \in Nat
      BY <1>1, <1>4 DEF TypeOK, Lines, Line
    <2>3. /\ \A p \in orders' : g[p] \in Nat
          /\ \A p \in orders : f[p] = g[p] /\ f[p] \in Nat
          /\ g[o] = o.lines[s].quantity
      BY <1>1, <2>2
    <2> HIDE DEF f, g
    <2>4. SumFunctionOnSet(g, orders \cup {o}) = SumFunctionOnSet(g, orders) + g[o]
      BY <1>1, <1>2, <2>3, SumAdd DEF StockInv
    <2>5. SumFunctionOnSet(g, orders) = SumFunctionOnSet(f, orders)
      BY <2>3, SumSame DEF StockInv
    <2>6. SumFunctionOnSet(f, orders) \in Int
      BY <2>3, SumType DEF StockInv
    <2>7. stock[s] + SumFunctionOnSet(f, orders) = OpeningStock[s]
      BY <2>1 DEF StockInv, StockMatchesOrders, f
    <2>8. stock'[s] = stock[s] - o.lines[s].quantity /\ stock[s] \in Nat
      BY <1>1 DEF TypeOK
    <2>9. g[o] \in Nat
      BY <1>1, <2>3
    <2>10. stock'[s] + SumFunctionOnSet(g, orders') = OpeningStock[s]
      BY <1>1, <2>3, <2>4, <2>5, <2>6, <2>7, <2>8, <2>9
    <2> QED
      BY <2>1, <2>10 DEF g
  <1> QED
    BY <1>3, <1>5 DEF StockInv, StockMatchesOrders

\* No unit is sold twice and none disappears, however submissions interleave:
\* what is left and what the orders hold make up the opening stock.
THEOREM StockIsAccounted == Spec => []StockMatchesOrders
  <1>1. Init => StockInv
    <2> SUFFICES ASSUME Init PROVE StockInv
      OBVIOUS
    <2>1. orders = {} /\ stock = OpeningStock /\ IsFiniteSet(orders)
      BY FS_EmptySet DEF Init
    <2>2. ASSUME NEW s \in Skus
          PROVE  SumFunction([o \in orders |-> o.lines[s].quantity]) = 0
      <3> DEFINE f == [o \in orders |-> o.lines[s].quantity]
      <3>1. SumFunction(f) = SumFunctionOnSet(f, {})
        BY <2>1 DEF SumFunction
      <3> HIDE DEF f
      <3>2. SumFunctionOnSet(f, {}) = 0
        BY FS_EmptySet, SumStep
      <3> QED
        BY <3>1, <3>2 DEF f
    <2> QED
      BY <2>1, <2>2, SkuAssumption DEF StockInv, StockMatchesOrders
  <1>2. TypeOK /\ StockInv /\ [Next]_vars => StockInv'
    <2> SUFFICES ASSUME TypeOK, StockInv, [Next]_vars PROVE StockInv'
      OBVIOUS
    <2>1. CASE \E r \in Requests : PlaceOrder(r)
      BY <2>1, PlaceOrderStock
    <2>2. CASE UNCHANGED <<stock, orders>>
      BY <2>2 DEF StockInv, StockMatchesOrders
    <2> QED
      BY <2>1, <2>2, StockElsewhere DEF vars
  <1>3. StockInv => StockMatchesOrders
    BY DEF StockInv
  <1> QED
    BY <1>1, <1>2, <1>3, TypeCorrect, PTL DEF Spec

=============================================================================
