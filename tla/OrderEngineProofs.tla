-------------------------- MODULE OrderEngineProofs --------------------------
(***************************************************************************)
(* Proofs about a run of the engine, for any strategy, market and number   *)
(* of orders.                                                              *)
(***************************************************************************)
EXTENDS AccountProofs

-----------------------------------------------------------------------------
(* Orders, and the shares of a security that are ordered.                  *)

Statuses == {"none", "open", "partial", "filled", "cancelled", "expired"}
OrderRecords ==
  [s : Securities \cup {NoOrder.s}, side : {"buy", "sell"}, quantity : Nat, filled : Nat, limit : Nat,
   tif : {"day", "gtc"}, effective : Nat, start : Nat \X Nat, target : BOOLEAN, status : Statuses]

\* No more is filled than was ordered, and an active order has a rest.
FitOrder(o) ==
  /\ o \in OrderRecords
  /\ o.filled <= o.quantity
  /\ o.status = "none" => o.filled = 0
  /\ Active(o) => o.filled < o.quantity
Orderly(orders) == DOMAIN orders = Orders /\ \A id \in Orders : FitOrder(orders[id])

Bids(orders, s)   == {id \in Orders : orders[id].s = s /\ Active(orders[id]) /\ orders[id].side = "buy"}
BidFor(orders, s) == SumFunction([id \in Bids(orders, s) |-> Rest(orders[id])])
Bid(o, s)         == IF o.s = s /\ Active(o) /\ o.side = "buy" THEN Rest(o) ELSE 0

LEMMA RestIsLeft ==
  ASSUME NEW o, FitOrder(o)
  PROVE  Rest(o) \in Nat /\ (Active(o) => Rest(o) > 0)
  BY DEF FitOrder, OrderRecords, Rest

LEMMA BidsFinite ==
  ASSUME NEW orders, Orderly(orders), NEW s
  PROVE  /\ Bids(orders, s) \in SUBSET Orders /\ IsFiniteSet(Bids(orders, s))
         /\ [id \in Bids(orders, s) |-> Rest(orders[id])] \in [Bids(orders, s) -> Nat]
         /\ BidFor(orders, s) \in Nat
<1> DEFINE S == Bids(orders, s)
           g == [id \in S |-> Rest(orders[id])]
<1>1. S \in SUBSET Orders
  BY DEF Bids
<1>2. IsFiniteSet(S)
  BY <1>1, OrdersFinite
<1>3. g \in [S -> Nat]
  BY <1>1, RestIsLeft DEF Orderly
<1> HIDE DEF S, g
<1>5. SumFunction(g) \in Nat
  BY <1>2, <1>3, SumNatural
<1>6. BidFor(orders, s) = SumFunction(g)
  BY DEF BidFor, S, g
<1> QED
  BY <1>1, <1>2, <1>3, <1>5, <1>6 DEF S, g

LEMMA BidsAre ==
  ASSUME NEW orders, Orderly(orders), NEW s, NEW g, g = [id \in Orders |-> Bid(orders[id], s)]
  PROVE  g \in [Orders -> Int] /\ IsFiniteSet(Orders) /\ BidFor(orders, s) = SumFunction(g)
<1>1. PICK T \in SUBSET Orders : T = Bids(orders, s)
  BY DEF Bids
<1>2. IsFiniteSet(Orders)
  BY OrdersFinite
<1>3. g \in [Orders -> Int]
  BY RestIsLeft DEF Orderly, Bid
<1>4. \A id \in Orders \ T : g[id] = 0
  BY <1>1 DEF Bids, Bid
<1>5. SumFunction(g) = SumFunction(Restrict(g, T))
  <2>1. PICK h \in [Orders -> Int] : h = g
    BY <1>3
  <2>2. SumFunction(h) = SumFunction(Restrict(h, T))
    BY <1>2, <1>4, <2>1, SumInside
  <2> QED BY <2>1, <2>2
<1>6. Restrict(g, T) = [id \in Bids(orders, s) |-> Rest(orders[id])]
  BY <1>1 DEF Restrict, Bids, Bid
<1> QED
  BY <1>2, <1>3, <1>5, <1>6 DEF BidFor

\* One order changes, and nothing else of what is ordered.
LEMMA BidChanges ==
  ASSUME NEW old, Orderly(old), NEW new, Orderly(new), NEW x \in Orders,
         \A y \in Orders \ {x} : new[y] = old[y], NEW s
  PROVE  BidFor(new, s) - Bid(new[x], s) = BidFor(old, s) - Bid(old[x], s)
<1>1. PICK g, h : g = [id \in Orders |-> Bid(old[id], s)] /\ h = [id \in Orders |-> Bid(new[id], s)]
  OBVIOUS
<1>2. /\ g \in [Orders -> Int] /\ h \in [Orders -> Int] /\ IsFiniteSet(Orders)
      /\ BidFor(old, s) = SumFunction(g) /\ BidFor(new, s) = SumFunction(h)
  BY <1>1, BidsAre
<1>3. \A y \in Orders \ {x} : h[y] = g[y]
  BY <1>1
<1>4. SumFunction(h) - h[x] = SumFunction(g) - g[x]
  BY <1>2, <1>3, SumDiffers
<1> QED
  BY <1>1, <1>2, <1>4

\* Orders that end are ordered no more.
LEMMA EndedBids ==
  ASSUME NEW orders, Orderly(orders), NEW S \in SUBSET Orders,
         NEW status \in {"filled", "cancelled", "expired"}, NEW s
  PROVE  /\ Orderly(EndAs(S, status, orders))
         /\ BidFor(EndAs(S, status, orders), s) =
              SumFunction([id \in Bids(orders, s) \ S |-> Rest(orders[id])])
         /\ BidFor(EndAs(S, status, orders), s) <= BidFor(orders, s)
<1> DEFINE new == EndAs(S, status, orders)
           T == Bids(orders, s) \ S
           h == [id \in T |-> Rest(orders[id])]
           B == Bids(orders, s)
           g == [id \in B |-> Rest(orders[id])]
<1>1. \A id \in Orders \ S : new[id] = orders[id]
  BY DEF EndAs
<1>2. \A id \in S : FitOrder(new[id]) /\ ~ Active(new[id])
  <2> SUFFICES ASSUME NEW id \in S PROVE FitOrder(new[id]) /\ ~ Active(new[id])
    OBVIOUS
  <2>1. new[id] = Ended(orders[id], status)
    BY DEF EndAs
  <2>2. FitOrder(orders[id])
    BY DEF Orderly
  <2>3. NoOrder \in OrderRecords
    BY DEF NoOrder, OrderRecords, Statuses
  <2>4. FitOrder(Ended(orders[id], status)) /\ ~ Active(Ended(orders[id], status))
    BY <2>2, <2>3 DEF FitOrder, OrderRecords, Ended, Active, Statuses
  <2> QED BY <2>1, <2>4
<1>3. DOMAIN new = Orders
  BY DEF EndAs
<1> HIDE DEF new
<1>4. Orderly(new)
  BY <1>1, <1>2, <1>3 DEF Orderly
<1>5. Bids(new, s) = T
  BY <1>1, <1>2 DEF Bids
<1>6. [id \in Bids(new, s) |-> Rest(new[id])] = h
  BY <1>1, <1>5 DEF Bids
<1>7. IsFiniteSet(B) /\ g \in [B -> Nat] /\ T \in SUBSET B /\ BidFor(orders, s) = SumFunction(g)
  BY BidsFinite DEF BidFor
<1>8. h \in [T -> Nat] /\ (\A y \in T : h[y] = g[y]) /\ DOMAIN h = T /\ DOMAIN g = B
  BY <1>7
<1> HIDE DEF T, h, B, g
<1>9. SumFunctionOnSet(h, T) <= SumFunctionOnSet(g, B)
  BY <1>7, <1>8, SumGrows
<1> QED
  BY <1>4, <1>6, <1>7, <1>8, <1>9 DEF new, BidFor, SumFunction, h, T, B

-----------------------------------------------------------------------------
(* A bar is matched.                                                       *)

\* The account keeps a reservation for every active order, and no other.
Agrees(a, orders) ==
  \A id \in Orders : LET r == a.reserved[id] IN
    IF Active(orders[id])
    THEN /\ r.side = orders[id].side /\ r.s = orders[id].s
         /\ r.left = Rest(orders[id]) /\ r.limit = orders[id].limit
    ELSE r.side = "none"

\* Where matching of the orders of s is when it has tried those of t.
Matches(n, t, s) ==
  /\ {"a", "ord", "share", "changed", "bought"} \subseteq DOMAIN n
  /\ HasBooks(n.a) /\ n.a.day = acct.day
  /\ Orderly(n.ord) /\ Agrees(n.a, n.ord)
  /\ n.changed \subseteq t /\ \A id \in Orders \ n.changed : n.ord[id] = ord[id]
  /\ \A id \in Orders : Active(n.ord[id]) => /\ Active(ord[id]) /\ n.ord[id].tif = ord[id].tif
                                           /\ n.ord[id].effective = ord[id].effective
  /\ n.share \in Int /\ n.bought \in Nat
  /\ n.bought + BidFor(n.ord, s) = bought[s] + BidFor(ord, s)
  /\ \A z \in Risky \ {s} : BidFor(n.ord, z) = BidFor(ord, z)

\* An order that is filled, and the order that is left.
Left(o, quantity) ==
  LET after == [o EXCEPT !.filled = o.filled + quantity, !.status = "partial"]
  IN  IF o.filled + quantity = o.quantity THEN Ended(after, "filled") ELSE after

LEMMA FilledOrder ==
  ASSUME NEW o, FitOrder(o), Active(o), NEW quantity \in 1..Rest(o), NEW s
  PROVE  LET new == Left(o, quantity) IN
         /\ FitOrder(new)
         /\ new.s = o.s /\ new.side = o.side
         /\ Active(new) <=> quantity # Rest(o)
         /\ Active(new) => /\ new.tif = o.tif /\ new.effective = o.effective /\ new.limit = o.limit
                           /\ Rest(new) = Rest(o) - quantity
         /\ Bid(new, s) = IF o.s = s /\ o.side = "buy" THEN Bid(o, s) - quantity ELSE Bid(o, s)
<1>1. /\ o \in OrderRecords /\ o.filled \in Nat /\ o.quantity \in Nat /\ o.filled < o.quantity
      /\ Rest(o) = o.quantity - o.filled
  BY DEF FitOrder, OrderRecords, Rest
<1> DEFINE after == [o EXCEPT !.filled = o.filled + quantity, !.status = "partial"]
           new == Left(o, quantity)
<1>2. /\ o.filled + quantity \in Nat /\ o.filled + quantity <= o.quantity
      /\ o.filled + quantity = o.quantity <=> quantity = Rest(o)
  BY <1>1
<1>3. /\ after \in OrderRecords /\ after.filled = o.filled + quantity /\ after.status = "partial"
      /\ after.s = o.s /\ after.side = o.side /\ after.quantity = o.quantity
      /\ after.tif = o.tif /\ after.effective = o.effective /\ after.limit = o.limit
  BY <1>1, <1>2 DEF OrderRecords, Statuses
<1>4. CASE quantity = Rest(o)
  <2>1. new = Ended(after, "filled")
    BY <1>2, <1>4 DEF Left
  <2> HIDE DEF after, new
  <2>2. NoOrder \in OrderRecords
    BY DEF NoOrder, OrderRecords, Statuses
  <2>3. /\ new \in OrderRecords /\ new.filled = after.filled /\ new.quantity = after.quantity
        /\ new.s = after.s /\ new.side = after.side /\ new.status = "filled"
    BY <1>3, <2>1, <2>2 DEF Ended, OrderRecords, Statuses
  <2> QED
    BY <1>1, <1>2, <1>3, <1>4, <2>3 DEF FitOrder, Active, Bid, new
<1>5. CASE quantity # Rest(o)
  <2>1. new = after
    BY <1>2, <1>5 DEF Left
  <2> HIDE DEF after, new
  <2> QED
    BY <1>1, <1>2, <1>3, <1>5, <2>1 DEF FitOrder, Active, Bid, Rest, new
<1> QED BY <1>4, <1>5

LEMMA MatchedMore ==
  ASSUME Orderly(ord), NEW s \in Securities, NEW t \in SUBSET EligibleFor(s),
         NEW x \in EligibleFor(s) \ t, NEW n, Matches(n, t, s), NEW bar
  PROVE  Matches(MatchOne(n, x, bar), t \cup {x}, s)
<1> DEFINE o == n.ord[x]
           r == n.a.reserved[x]
           price == Price(o, bar)
           quantity == IF o.side = "buy" THEN Affordable(n.a, x, Lesser(Rest(o), n.share), price, 1)
                       ELSE Lesser(Rest(o), n.share)
           b == Filled(n.a, x, quantity, price)
           new == Left(o, quantity)
           orders == [n.ord EXCEPT ![x] = new]
           more == n.bought + IF o.side = "buy" THEN quantity ELSE 0
           next == [a |-> b, share |-> n.share - quantity, changed |-> n.changed \cup {x},
                    bought |-> more, ord |-> orders]
<1>1. MatchOne(n, x, bar) = IF price = 0 \/ quantity = 0 \/ ~ MayFill(n.a, x, quantity, price, b) THEN n ELSE next
  BY DEF MatchOne, Left
<1>2. CASE MatchOne(n, x, bar) = n
  <2>1. Matches(n, t \cup {x}, s)
    BY DEF Matches
  <2> QED BY <1>2, <2>1
<1>3. CASE MayFill(n.a, x, quantity, price, b) /\ MatchOne(n, x, bar) = next
  <2>1. x \in Orders /\ Active(ord[x]) /\ ord[x].s = s /\ x \notin n.changed
    BY DEF EligibleFor, Live, Matches
  <2>2. o = ord[x] /\ Active(o) /\ o.s = s
    BY <2>1 DEF Matches
  <2>3. HasBooks(n.a) /\ Orderly(n.ord) /\ Agrees(n.a, n.ord)
    BY DEF Matches
  <2>4. FitOrder(o) /\ Rest(o) \in Nat /\ r.left = Rest(o) /\ r.side = o.side /\ r.s = o.s /\ r.limit = o.limit
    BY <2>1, <2>2, <2>3, RestIsLeft DEF Orderly, Agrees
  <2>5. quantity \in 1..r.left
    <3> HIDE DEF price, b, quantity
    <3> QED BY <1>3 DEF MayFill
  <2>6. /\ HasBooks(b) /\ b.day = n.a.day
        /\ \A y \in Orders \ {x} : b.reserved[y] = n.a.reserved[y]
        /\ IF quantity = r.left THEN b.reserved[x].side = "none"
           ELSE /\ b.reserved[x].side = r.side /\ b.reserved[x].s = r.s
                /\ b.reserved[x].limit = r.limit /\ b.reserved[x].left = r.left - quantity
    <3> DEFINE a == n.a
    <3>1. HasBooks(a) /\ a.reserved[x].left \in Nat /\ quantity \in 1..a.reserved[x].left
      BY <2>3, <2>4, <2>5
    <3> HIDE DEF price, quantity, a
    <3>2. LET c == Filled(a, x, quantity, price)
              rr == a.reserved[x]
          IN  /\ HasBooks(c)
              /\ c.day = a.day
              /\ \A y \in Orders \ {x} : c.reserved[y] = a.reserved[y]
              /\ IF quantity = rr.left THEN c.reserved[x].side = "none"
                 ELSE /\ c.reserved[x].side = rr.side /\ c.reserved[x].s = rr.s
                      /\ c.reserved[x].limit = rr.limit /\ c.reserved[x].left = rr.left - quantity
      BY <2>1, <3>1, FillOne
    <3> QED BY <3>2 DEF a
  <2>7. /\ FitOrder(new) /\ new.s = o.s /\ new.side = o.side
        /\ Active(new) <=> quantity # Rest(o)
        /\ Active(new) => /\ new.tif = o.tif /\ new.effective = o.effective /\ new.limit = o.limit
                          /\ Rest(new) = Rest(o) - quantity
        /\ Bid(new, s) = IF o.s = s /\ o.side = "buy" THEN Bid(o, s) - quantity ELSE Bid(o, s)
    <3>1. quantity \in 1..Rest(o)
      BY <2>4, <2>5
    <3> DEFINE p == o
    <3>2. FitOrder(p) /\ Active(p) /\ quantity \in 1..Rest(p)
      BY <2>2, <2>4, <3>1
    <3>3. new = Left(p, quantity)
      OBVIOUS
    <3> HIDE DEF quantity, p, new
    <3>4. /\ FitOrder(new) /\ new.s = p.s /\ new.side = p.side
          /\ Active(new) <=> quantity # Rest(p)
          /\ Active(new) => /\ new.tif = p.tif /\ new.effective = p.effective /\ new.limit = p.limit
                            /\ Rest(new) = Rest(p) - quantity
          /\ Bid(new, s) = IF p.s = s /\ p.side = "buy" THEN Bid(p, s) - quantity ELSE Bid(p, s)
      BY <3>2, <3>3, FilledOrder
    <3> QED BY <3>4 DEF p
  <2> HIDE DEF b, new, quantity, price
  <2>8. /\ DOMAIN orders = Orders /\ orders[x] = new
        /\ \A y \in Orders \ {x} : orders[y] = n.ord[y]
    BY <2>1, <2>3 DEF Orderly
  <2> HIDE DEF orders, o, r
  <2>9. Orderly(orders)
    BY <2>3, <2>7, <2>8 DEF Orderly
  <2>10. Agrees(b, orders)
    <3> SUFFICES ASSUME NEW y \in Orders PROVE
           LET q == b.reserved[y] IN
           IF Active(orders[y])
           THEN /\ q.side = orders[y].side /\ q.s = orders[y].s
                /\ q.left = Rest(orders[y]) /\ q.limit = orders[y].limit
           ELSE q.side = "none"
      BY DEF Agrees
    <3>1. CASE y = x
      BY <2>4, <2>6, <2>7, <2>8, <3>1
    <3>2. CASE y # x
      BY <2>3, <2>6, <2>8, <3>2 DEF Agrees
    <3> QED BY <3>1, <3>2
  <2>11. n.share - quantity \in Int /\ more \in Nat
    <3>1. n.share \in Int /\ n.bought \in Nat /\ quantity \in Nat
      BY <2>4, <2>5 DEF Matches
    <3> QED BY <3>1
  <2>12. more + BidFor(orders, s) = bought[s] + BidFor(ord, s)
    <3>1. BidFor(orders, s) - Bid(orders[x], s) = BidFor(n.ord, s) - Bid(n.ord[x], s)
      <4> DEFINE old == n.ord
      <4>1. Orderly(old) /\ \A y \in Orders \ {x} : orders[y] = old[y]
        BY <2>3, <2>8
      <4> HIDE DEF old
      <4>2. BidFor(orders, s) - Bid(orders[x], s) = BidFor(old, s) - Bid(old[x], s)
        BY <2>1, <2>9, <4>1, BidChanges
      <4> QED BY <4>2 DEF old
    <3>2. BidFor(orders, s) \in Nat /\ BidFor(n.ord, s) \in Nat
      <4> DEFINE old == n.ord
      <4>1. Orderly(old)
        BY <2>3
      <4> HIDE DEF old
      <4>2. BidFor(orders, s) \in Nat /\ BidFor(old, s) \in Nat
        BY <2>9, <4>1, BidsFinite
      <4> QED BY <4>2 DEF old
    <3>3. Bid(o, s) \in Nat /\ quantity \in Nat /\ n.bought \in Nat
      BY <2>4, <2>5 DEF Bid, Matches
    <3>4. n.bought + BidFor(n.ord, s) = bought[s] + BidFor(ord, s)
      BY DEF Matches
    <3>5. n.ord[x] = o
      BY DEF o
    <3> DEFINE u == BidFor(orders, s)
               v == BidFor(n.ord, s)
               w == Bid(o, s)
               total == bought[s] + BidFor(ord, s)
    <3>6. u - Bid(new, s) = v - w /\ u \in Nat /\ v \in Nat /\ w \in Nat /\ n.bought + v = total
      BY <2>8, <3>1, <3>2, <3>3, <3>4, <3>5
    <3>7. Bid(new, s) = IF o.side = "buy" THEN w - quantity ELSE w
      BY <2>2, <2>7
    <3> HIDE DEF u, v, w, total
    <3>8. more + u = total
      <4>1. CASE o.side = "buy"
        BY <3>3, <3>6, <3>7, <4>1
      <4>2. CASE o.side # "buy"
        BY <3>3, <3>6, <3>7, <4>2
      <4> QED BY <4>1, <4>2
    <3> QED BY <3>8 DEF u, total
  <2>17. \A z \in Risky \ {s} : BidFor(orders, z) = BidFor(ord, z)
    <3> SUFFICES ASSUME NEW z \in Risky \ {s} PROVE BidFor(orders, z) = BidFor(n.ord, z)
      BY DEF Matches
    <3> DEFINE old == n.ord
    <3>1. Orderly(old) /\ \A y \in Orders \ {x} : orders[y] = old[y]
      BY <2>3, <2>8
    <3>2. Bid(orders[x], z) = 0 /\ Bid(old[x], z) = 0
      BY <2>2, <2>7, <2>8 DEF Bid, o
    <3> HIDE DEF old
    <3>3. BidFor(orders, z) - Bid(orders[x], z) = BidFor(old, z) - Bid(old[x], z)
      BY <2>1, <2>9, <3>1, BidChanges
    <3>4. BidFor(orders, z) \in Nat /\ BidFor(old, z) \in Nat
      BY <2>9, <3>1, BidsFinite
    <3>5. BidFor(orders, z) = BidFor(old, z)
      BY <3>2, <3>3, <3>4
    <3> QED BY <3>5 DEF old
  <2>13. /\ n.changed \cup {x} \subseteq t \cup {x}
         /\ \A id \in Orders \ (n.changed \cup {x}) : orders[id] = ord[id]
    BY <2>8 DEF Matches
  <2>14. \A id \in Orders : Active(orders[id]) => /\ Active(ord[id]) /\ orders[id].tif = ord[id].tif
                                                /\ orders[id].effective = ord[id].effective
    BY <2>2, <2>7, <2>8 DEF Matches
  <2>15. b.day = acct.day
    BY <2>6 DEF Matches
  <2> HIDE DEF more
  <2>16. Matches(next, t \cup {x}, s)
    BY <2>6, <2>9, <2>10, <2>11, <2>12, <2>13, <2>14, <2>15, <2>17 DEF Matches
  <2> QED
    BY <1>3, <2>16
<1> QED
  BY <1>1, <1>2, <1>3

Matched(F, s, bar, base) ==
  F = [t \in SUBSET EligibleFor(s) |-> IF t = {} THEN base ELSE MatchOne(F[t \ {Max(t)}], Max(t), bar)]

MatchedBy(s, bar, share) ==
  Ascending(LAMBDA id, n : MatchOne(n, id, bar),
            [a |-> acct, ord |-> ord, share |-> share, bought |-> bought[s], changed |-> {}], EligibleFor(s))

\* What a bar does to orders and account: they keep agreeing, only orders that
\* were there when the bar began are filled, and what is bought was ordered.
LEMMA MatchedAll ==
  ASSUME Orderly(ord), HasBooks(acct), Agrees(acct, ord), bought \in [Securities -> Nat],
         NEW s \in Securities, NEW bar, NEW share \in Int
  PROVE  Matches(MatchedBy(s, bar, share), EligibleFor(s), s)
<1> DEFINE base == [a |-> acct, ord |-> ord, share |-> share, bought |-> bought[s], changed |-> {}]
           C == CHOOSE F : Matched(F, s, bar, base)
           S == EligibleFor(s)
           m == MatchedBy(s, bar, share)
<1>1. m = C[S]
  BY DEF MatchedBy, Ascending, MapThenFoldSet, Matched
<1>2. \A F : Folds(F, Matching(bar), base, S) <=> Matched(F, s, bar, base)
  BY DEF Folds, Matched, Matching, OneMore, Taking
<1>0. S \in SUBSET Orders /\ IsFiniteSet(S) /\ S \subseteq Int
  <2>1. S \in SUBSET Orders
    BY DEF EligibleFor, Live
  <2> QED BY <2>1, OrdersFinite
<1>3. \E F : Matched(F, s, bar, base)
  <2> HIDE DEF S, base
  <2> QED BY <1>0, <1>2, FoldExists, Chosen
<1>4. Matched(C, s, bar, base)
  BY <1>3
<1> HIDE DEF C, m
<1>5. \A t \in SUBSET S : C[t] = IF t = {} THEN base ELSE MatchOne(C[t \ {Max(t)}], Max(t), bar)
  BY <1>4 DEF Matched
<1> DEFINE Bad == {t \in SUBSET S : ~ Matches(C[t], t, s)}
<1>6. ASSUME Bad # {} PROVE FALSE
  <2>1. PICK p \in Bad : \A t \in Bad : t \subseteq p => t = p
    <3>1. Bad \subseteq SUBSET S /\ IsFiniteSet(S)
      BY <1>0
    <3> HIDE DEF Bad, S
    <3> QED BY <1>6, <3>1, SmallestSet
  <2>2. Matches(base, {}, s)
    BY DEF Matches
  <2>3. p # {}
    BY <1>5, <2>2
  <2> DEFINE x == Max(p)
             t == p \ {x}
  <2>4. x \in p
    BY <1>0, <2>3, GreatestNumber
  <2>5. t \in SUBSET S /\ t \notin Bad
    BY <2>1, <2>4
  <2>6. Matches(C[t], t, s)
    BY <2>5
  <2>7. C[p] = MatchOne(C[t], x, bar)
    BY <1>5, <2>3
  <2>8. x \in S \ t /\ p = t \cup {x}
    BY <2>4
  <2> DEFINE n == C[t]
  <2> HIDE DEF x, t
  <2>9. Matches(n, t, s) /\ C[p] = MatchOne(n, x, bar)
    BY <2>6, <2>7
  <2> HIDE DEF n
  <2>10. Matches(MatchOne(n, x, bar), t \cup {x}, s)
    BY <2>5, <2>8, <2>9, MatchedMore
  <2> QED
    BY <2>8, <2>9, <2>10
<1>7. Matches(C[S], S, s)
  BY <1>6
<1> QED
  BY <1>1, <1>7 DEF m

-----------------------------------------------------------------------------
(* Notifications.                                                          *)

Notes == [id : Orders, word : [status : Statuses, filled : Nat]]

\* The last word on id that was told, or else is pending, is w.
Hears(q, heard, w, id) ==
  \/ /\ heard = w
     /\ \A j \in 1..Len(q) : q[j].id = id => q[j].word = w
  \/ \E k \in 1..Len(q) :
       /\ q[k].id = id
       /\ \A j \in k..Len(q) : q[j].id = id => q[j].word = w

\* A word that is told was pending first.
LEMMA HearNext ==
  ASSUME NEW q \in Seq(Notes), q # <<>>, NEW heard, NEW w, NEW id, Hears(q, heard, w, id)
  PROVE  Hears(Tail(q), IF q[1].id = id THEN q[1].word ELSE heard, w, id)
<1> DEFINE n == Len(q)
           t == Tail(q)
<1>1. n \in Nat /\ n >= 1 /\ Len(t) = n - 1 /\ \A j \in 1..(n - 1) : t[j] = q[j + 1]
  BY HeadTailProperties
<1>2. CASE heard = w /\ \A j \in 1..n : q[j].id = id => q[j].word = w
  BY <1>1, <1>2 DEF Hears
<1>3. CASE \E k \in 1..n : q[k].id = id /\ \A j \in k..n : q[j].id = id => q[j].word = w
  <2>1. PICK k \in 1..n : q[k].id = id /\ \A j \in k..n : q[j].id = id => q[j].word = w
    BY <1>3
  <2>2. CASE k = 1
    BY <1>1, <2>1, <2>2 DEF Hears
  <2>3. CASE k # 1
    <3>1. k - 1 \in 1..Len(t) /\ t[k - 1].id = id
      BY <1>1, <2>1, <2>3
    <3>2. \A j \in (k - 1)..Len(t) : t[j].id = id => t[j].word = w
      BY <1>1, <2>1, <2>3
    <3> QED BY <3>1, <3>2 DEF Hears
  <2> QED BY <2>2, <2>3
<1> QED
  BY <1>2, <1>3 DEF Hears

\* New words come last, and a changed order is among them.
LEMMA HearMore ==
  ASSUME NEW q \in Seq(Notes), NEW r \in Seq(Notes), NEW heard, NEW w, NEW id,
         \A j \in 1..Len(r) : r[j].id = id => r[j].word = w,
         Hears(q, heard, w, id) \/ \E j \in 1..Len(r) : r[j].id = id
  PROVE  Hears(q \o r, heard, w, id)
<1> DEFINE n == Len(q)
           p == q \o r
<1>1. /\ n \in Nat /\ Len(r) \in Nat /\ Len(p) = n + Len(r)
      /\ \A j \in 1..Len(p) : p[j] = IF j <= n THEN q[j] ELSE r[j - n]
  BY ConcatProperties, LenProperties
<1> HIDE DEF p, n
<1>2. \A j \in 1..Len(p) : j > n => p[j] = r[j - n] /\ j - n \in 1..Len(r)
  BY <1>1
<1>3. \A j \in 1..n : p[j] = q[j] /\ j \in 1..Len(p)
  BY <1>1
<1>4. CASE heard = w /\ \A j \in 1..n : q[j].id = id => q[j].word = w
  <2>1. \A j \in 1..Len(p) : p[j].id = id => p[j].word = w
    BY <1>1, <1>2, <1>3, <1>4
  <2> QED BY <1>4, <2>1 DEF Hears, p
<1>5. CASE \E k \in 1..n : q[k].id = id /\ \A j \in k..n : q[j].id = id => q[j].word = w
  <2>1. PICK k \in 1..n : q[k].id = id /\ \A j \in k..n : q[j].id = id => q[j].word = w
    BY <1>5
  <2>2. k \in 1..Len(p) /\ p[k].id = id
    BY <1>3, <2>1
  <2>3. \A j \in k..Len(p) : p[j].id = id => p[j].word = w
    <3> SUFFICES ASSUME NEW j \in k..Len(p), p[j].id = id PROVE p[j].word = w
      OBVIOUS
    <3>1. j \in 1..Len(p) /\ j \in Int /\ n \in Nat /\ k <= j
      BY <1>1, <2>1
    <3>2. CASE j <= n
      <4>1. j \in k..n /\ p[j] = q[j]
        BY <1>3, <2>1, <3>1, <3>2
      <4> QED BY <2>1, <4>1
    <3>3. CASE j > n
      <4>1. p[j] = r[j - n] /\ j - n \in 1..Len(r)
        BY <1>2, <3>1, <3>3
      <4> QED BY <4>1
    <3> QED BY <3>1, <3>2, <3>3
  <2> QED BY <2>2, <2>3 DEF Hears, p
<1>6. CASE \E j \in 1..Len(r) : r[j].id = id
  <2>1. PICK j \in 1..Len(r) : r[j].id = id
    BY <1>6
  <2>2. n + j \in 1..Len(p) /\ p[n + j] = r[j]
    BY <1>1
  <2>3. \A i \in (n + j)..Len(p) : p[i].id = id => p[i].word = w
    BY <1>1, <1>2
  <2> QED BY <2>1, <2>2, <2>3 DEF Hears, p
<1> QED
  BY <1>4, <1>5, <1>6 DEF Hears, n

\* Those that are told of hear the truth, and each is told of.
TellsAll(r, S, orders) ==
  /\ r \in Seq(Notes)
  /\ \A j \in 1..Len(r) : r[j].word = Word(orders[r[j].id])
  /\ \A id \in S : \E j \in 1..Len(r) : r[j].id = id
LEMMA ToldAll ==
  ASSUME NEW S \in SUBSET Orders, NEW orders, Orderly(orders)
  PROVE  TellsAll(Told(S, orders), S, orders)
<1> DEFINE N == Cardinality(S)
           note(i) == [id |-> Ranked(S, i), word |-> Word(orders[Ranked(S, i)])]
           t == [i \in 1..N |-> note(i)]
<1>1. /\ N \in Nat /\ \A i \in 1..N : Ranked(S, i) \in S
      /\ \A id \in S : \E i \in 1..N : Ranked(S, i) = id
  <2>1. IsFiniteSet(S) /\ S \subseteq Int
    BY OrdersFinite
  <2> QED BY <2>1, RankedAll
<1>2. \A id \in Orders : Word(orders[id]) \in [status : Statuses, filled : Nat]
  BY DEF Orderly, FitOrder, OrderRecords, Word
<1>3. \A i \in 1..N : note(i) \in Notes
  BY <1>1, <1>2 DEF Notes
<1>4. t \in Seq(Notes) /\ Len(t) = N /\ \A i \in 1..N : t[i] = note(i)
  <2> HIDE DEF note
  <2> QED BY <1>1, <1>3, IsASeq
<1>5. Told(S, orders) = t
  BY DEF Told
<1> HIDE DEF t
<1> QED
  BY <1>1, <1>4, <1>5 DEF TellsAll

-----------------------------------------------------------------------------
(* The invariant.                                                          *)

Reported(q, heard, orders) ==
  /\ q \in Seq(Notes)
  /\ DOMAIN heard = Orders
  /\ \A id \in Orders : Hears(q, heard[id], Word(orders[id]), id)
DayFits(o, day)     == Active(o) /\ o.tif = "day" => o.effective >= day
WithinCap(b, orders) == \A s \in Risky : b[s] + BidFor(orders, s) <= RiskCap
FirstDay == acct.day + IF at \in {"after", "gap"} THEN 1 ELSE 0

EngineInv ==
  /\ HasBooks(acct) /\ Orderly(ord) /\ Agrees(acct, ord)
  /\ time \in Nat /\ bought \in [Securities -> Nat]
  /\ at \in {"gap", "calls", "market", "after"}
  /\ host => at \in {"calls", "after"}
  /\ at = "after" => closed
  /\ \A id \in Orders : DayFits(ord[id], FirstDay)
  /\ WithinCap(bought, ord)
  /\ Reported(pending, told, ord)

\* Once what has changed is told of, the strategy can know it.
LEMMA ReportedMore ==
  ASSUME NEW q, NEW heard, NEW old, Reported(q, heard, old), NEW new, Orderly(new),
         NEW S \in SUBSET Orders, \A id \in Orders \ S : Word(new[id]) = Word(old[id])
  PROVE  Reported(q \o Told(S, new), heard, new)
<1> DEFINE r == Told(S, new)
<1>1. /\ r \in Seq(Notes)
      /\ \A j \in 1..Len(r) : r[j].word = Word(new[r[j].id])
      /\ \A id \in S : \E j \in 1..Len(r) : r[j].id = id
  <2>1. TellsAll(Told(S, new), S, new)
    BY ToldAll
  <2> QED
    BY <2>1 DEF TellsAll
<1> HIDE DEF r
<1>2. q \in Seq(Notes) /\ DOMAIN heard = Orders
  BY DEF Reported
<1>3. q \o r \in Seq(Notes)
  BY <1>1, <1>2, ConcatProperties
<1>4. ASSUME NEW id \in Orders PROVE Hears(q \o r, heard[id], Word(new[id]), id)
  <2> DEFINE w == Word(new[id])
             h == heard[id]
  <2>1. \A j \in 1..Len(r) : r[j].id = id => r[j].word = w
    BY <1>1
  <2>2. Hears(q, h, w, id) \/ \E j \in 1..Len(r) : r[j].id = id
    <3>1. CASE id \in S
      BY <1>1, <3>1
    <3>2. CASE id \notin S
      BY <3>2 DEF Reported
    <3> QED BY <3>1, <3>2
  <2> HIDE DEF w, h
  <2>3. Hears(q \o r, h, w, id)
    BY <1>1, <1>2, <2>1, <2>2, HearMore
  <2> QED BY <2>3 DEF w, h
<1> QED
  BY <1>2, <1>3, <1>4 DEF Reported, r

\* Some orders end, with their reservations, and all is told.
LEMMA SomeEnd ==
  ASSUME EngineInv, NEW S \in SUBSET Orders, NEW status \in {"filled", "cancelled", "expired"},
         NEW a, HasBooks(a), \A id \in S : a.reserved[id].side = "none",
         \A id \in Orders \ S : a.reserved[id] = acct.reserved[id],
         NEW new, new = EndAs(S, status, ord)
  PROVE  /\ Orderly(new) /\ Agrees(a, new)
         /\ \A id \in Orders : Active(new[id]) => id \notin S /\ new[id] = ord[id]
         /\ \A id \in Orders : new[id].filled = ord[id].filled
         /\ \A s : BidFor(new, s) \in Nat /\ BidFor(ord, s) \in Nat /\ BidFor(new, s) <= BidFor(ord, s)
         /\ Reported(pending \o Told(S, new), told, new)
<1>1. Orderly(ord) /\ Agrees(acct, ord) /\ Reported(pending, told, ord)
  BY DEF EngineInv
<1>2. \A id \in Orders \ S : new[id] = ord[id]
  BY DEF EndAs
<1>3. \A id \in S : ~ Active(new[id]) /\ new[id].filled = ord[id].filled
  BY DEF EndAs, Ended, Active, NoOrder
<1>4. Orderly(new)
  BY <1>1, EndedBids
<1>5. \A s : BidFor(new, s) \in Nat /\ BidFor(ord, s) \in Nat /\ BidFor(new, s) <= BidFor(ord, s)
  BY <1>1, <1>4, EndedBids, BidsFinite
<1>6. Agrees(a, new)
  BY <1>1, <1>2, <1>3 DEF Agrees
<1>7. Reported(pending \o Told(S, new), told, new)
  BY <1>1, <1>2, <1>4, ReportedMore
<1> QED
  BY <1>2, <1>3, <1>4, <1>5, <1>6, <1>7

LEMMA EngineStarts == Init => EngineInv
<1> SUFFICES ASSUME Init PROVE EngineInv
  OBVIOUS
<1>1. NoOrder \in OrderRecords
  BY DEF NoOrder, OrderRecords, Statuses
<1>2. FitOrder(NoOrder) /\ ~ Active(NoOrder)
  BY <1>1 DEF FitOrder, NoOrder, Active
<1>3. HasBooks(acct) /\ \A id \in Orders : acct.reserved[id] = NoReservation
  BY NoneShape DEF Init, NewAccount, HasBooks
<1>4. Orderly(ord) /\ \A id \in Orders : ord[id] = NoOrder
  BY <1>2 DEF Init, Orderly
<1>5. Agrees(acct, ord)
  BY <1>2, <1>3, <1>4, NoneShape DEF Agrees
<1>6. ASSUME NEW s \in Risky PROVE bought[s] + BidFor(ord, s) <= RiskCap
  <2>1. Bids(ord, s) = {}
    BY <1>2, <1>4 DEF Bids
  <2>2. PICK g : g = [id \in Bids(ord, s) |-> Rest(ord[id])]
    OBVIOUS
  <2>3. g \in [{} -> Int] /\ IsFiniteSet({})
    BY <2>1, <2>2, FS_EmptySet
  <2>4. SumFunction(g) = 0
    BY <2>3, SumInteger
  <2>5. BidFor(ord, s) = 0
    BY <2>2, <2>4 DEF BidFor
  <2>6. bought[s] = 0 /\ RiskCap \in Nat
    BY EngineShape DEF Init
  <2> QED BY <2>5, <2>6
<1>7. Reported(pending, told, ord)
  <2>1. pending \in Seq(Notes) /\ Len(pending) = 0 /\ DOMAIN told = Orders
    BY DEF Init
  <2>2. \A id \in Orders : told[id] = Word(ord[id])
    BY <1>4 DEF Init
  <2> QED BY <2>1, <2>2 DEF Reported, Hears
<1>8. \A id \in Orders : DayFits(ord[id], FirstDay)
  BY <1>2, <1>4 DEF DayFits
<1>9. /\ time \in Nat /\ bought \in [Securities -> Nat]
      /\ at \in {"gap", "calls", "market", "after"}
      /\ host => at \in {"calls", "after"}
      /\ at = "after" => closed
  BY DEF Init
<1> QED
  BY <1>3, <1>4, <1>5, <1>6, <1>7, <1>8, <1>9 DEF EngineInv, WithinCap

-----------------------------------------------------------------------------
(* One step of the strategy.                                               *)

\* Steps that move the driver or the strategy, and change no order.
LEMMA QuietStep ==
  ASSUME EngineInv, UNCHANGED <<ord, bought, pending, told>>,
         HasBooks(acct'), acct'.day = acct.day, \A id \in Orders : acct'.reserved[id] = acct.reserved[id],
         time' \in Nat, at' \in {"gap", "calls", "market", "after"},
         host' => at' \in {"calls", "after"}, at' = "after" => closed',
         at' \in {"after", "gap"} => at \in {"after", "gap"}
  PROVE  EngineInv'
<1>1. Orderly(ord)' /\ WithinCap(bought, ord)' /\ Reported(pending, told, ord)'
  BY DEF EngineInv
<1>2. Agrees(acct, ord)'
  BY DEF EngineInv, Agrees
<1>3. \A id \in Orders : DayFits(ord'[id], FirstDay')
  <2>1. FirstDay' \in Nat /\ FirstDay \in Nat /\ FirstDay' <= FirstDay
    BY DEF EngineInv, FirstDay, HasBooks
  <2> SUFFICES ASSUME NEW id \in Orders PROVE DayFits(ord[id], FirstDay')
    OBVIOUS
  <2>2. DayFits(ord[id], FirstDay) /\ ord[id].effective \in Nat
    BY DEF EngineInv, Orderly, FitOrder, OrderRecords
  <2> QED BY <2>1, <2>2 DEF DayFits
<1> QED
  BY <1>1, <1>2, <1>3 DEF EngineInv

LEMMA NotifyKeeps == EngineInv /\ Notify => EngineInv'
<1> SUFFICES ASSUME EngineInv, Notify PROVE EngineInv'
  OBVIOUS
<1>1. pending \in Seq(Notes) /\ pending # <<>> /\ DOMAIN told = Orders
  BY DEF EngineInv, Reported, Notify
<1>2. /\ told' = [told EXCEPT ![pending[1].id] = pending[1].word] /\ pending' = Tail(pending)
      /\ UNCHANGED <<at, time, due, closed, acct, ord, bought>> /\ at \in {"calls", "after"}
  <2>1. Head(pending) = pending[1]
    BY <1>1, HeadTailProperties
  <2> QED BY <2>1 DEF Notify, Clock, Market, MayCall
<1>3. pending' \in Seq(Notes) /\ DOMAIN told' = Orders
  BY <1>1, <1>2, HeadTailProperties
<1>4. ASSUME NEW id \in Orders PROVE Hears(pending', told'[id], Word(ord[id]), id)
  <2> DEFINE h == told[id]
             w == Word(ord[id])
             q == pending
  <2>1. Hears(q, h, w, id) /\ q \in Seq(Notes) /\ q # <<>>
    BY <1>1 DEF EngineInv, Reported
  <2>2. told'[id] = IF pending[1].id = id THEN pending[1].word ELSE h
    BY <1>1, <1>2
  <2> HIDE DEF h, w, q
  <2>3. Hears(Tail(q), IF q[1].id = id THEN q[1].word ELSE h, w, id)
    BY <2>1, HearNext
  <2> QED BY <1>2, <2>2, <2>3 DEF q, w
<1>5. Reported(pending, told, ord)'
  BY <1>2, <1>3, <1>4 DEF Reported
<1>6. FirstDay' = FirstDay
  BY <1>2 DEF FirstDay
<1> QED
  BY <1>2, <1>5, <1>6 DEF EngineInv, WithinCap

LEMMA CallKeeps == EngineInv /\ (Call \/ Return \/ Timer \/ EndSession) => EngineInv'
<1> SUFFICES ASSUME EngineInv, Call \/ Return \/ Timer \/ EndSession PROVE EngineInv'
  OBVIOUS
<1>0. HasBooks(acct) /\ time \in Nat /\ at \in {"gap", "calls", "market", "after"} /\ (at = "after" => closed)
      /\ (host => at \in {"calls", "after"})
  BY DEF EngineInv
<1>1. CASE Call
  BY <1>0, <1>1, QuietStep DEF Call, Clock, Market, MayCall
<1>2. CASE Return
  BY <1>0, <1>2, QuietStep DEF Return, Clock, Market
<1>3. CASE Timer
  <2>1. time' \in Nat
    BY <1>0, <1>3 DEF Timer
  <2> QED BY <1>0, <1>3, <2>1, QuietStep DEF Timer, Market
<1>4. CASE EndSession
  BY <1>0, <1>4, QuietStep DEF EndSession, Market, Drained
<1> QED
  BY <1>1, <1>2, <1>3, <1>4

LEMMA CoveredKeeps == ASSUME EngineInv, NEW c, SubmitCovered(c) PROVE EngineInv'
<1>1. UNCHANGED <<at, time, due, closed, host, acct, ord, bought, pending, told>>
  BY DEF SubmitCovered, Clock, Market
<1> QED
  BY <1>1, QuietStep DEF EngineInv

LEMMA BoundaryKeeps == ASSUME EngineInv, NEW S, Boundary(S) PROVE EngineInv'
<1>1. UNCHANGED <<host, closed, acct, ord, bought, pending, told>> /\ at' = "market" /\ ~ host
  BY DEF Boundary, Market, Drained
<1>2. time' \in Nat
  BY DEF Boundary, EngineInv
<1> QED
  BY <1>1, <1>2, QuietStep DEF EngineInv

\* At the close no reservation ends.
LEMMA ClosingKeeps ==
  ASSUME EngineInv, Closing
  PROVE  HasBooks(acct') /\ acct'.day = acct.day /\ \A id \in Orders : acct'.reserved[id] = acct.reserved[id]
<1> DEFINE n == Advance(acct, "close")
<1>1. HasBooks(acct)
  BY DEF EngineInv
<1>2. Ends(acct, n) /\ n.ended = {}
  BY <1>1, Advanced
<1>3. acct' = n.a
  BY DEF Closing
<1> HIDE DEF n
<1> QED
  BY <1>2, <1>3 DEF Ends

LEMMA BarrierKeeps == EngineInv /\ (Barrier \/ CloseEmpty) => EngineInv'
<1> SUFFICES ASSUME EngineInv, Barrier \/ CloseEmpty PROVE EngineInv'
  OBVIOUS
<1>1. UNCHANGED <<host, ord, bought, pending, told>> /\ at' = "calls" /\ time' \in Nat
  BY EngineShape DEF Barrier, CloseEmpty, Market, EngineInv, Close
<1>2. HasBooks(acct) /\ DOMAIN acct.reserved = Orders
  BY DEF EngineInv, HasBooks
<1>3. HasBooks(acct') /\ acct'.day = acct.day /\ \A id \in Orders : acct'.reserved[id] = acct.reserved[id]
  <2>1. CASE acct' = acct
    BY <1>2, <2>1
  <2>2. CASE Closing
    BY <2>2, ClosingKeeps
  <2> QED BY <2>1, <2>2 DEF Barrier, CloseEmpty
<1> QED
  BY <1>1, <1>3, QuietStep DEF EngineInv

LEMMA CancelKeeps == ASSUME EngineInv, NEW x \in Orders, Cancel(x) PROVE EngineInv'
<1> DEFINE a == Release(acct, x)
           new == EndAs({x}, "cancelled", ord)
<1>1. /\ acct' = a /\ ord' = new /\ pending' = pending \o Told({x}, new)
      /\ UNCHANGED <<at, time, due, closed, host, bought, told>>
  BY DEF Cancel, Clock, Market
<1>2. /\ HasBooks(a) /\ a.day = acct.day /\ a.reserved[x].side = "none"
      /\ \A y \in Orders \ {x} : a.reserved[y] = acct.reserved[y]
  BY ReleaseOne DEF EngineInv
<1>3. {x} \in SUBSET Orders /\ \A id \in {x} : a.reserved[id].side = "none"
  BY <1>2
<1> HIDE DEF a
<1>4. /\ Orderly(new) /\ Agrees(a, new)
      /\ \A id \in Orders : Active(new[id]) => id \notin {x} /\ new[id] = ord[id]
      /\ \A s : BidFor(new, s) \in Nat /\ BidFor(ord, s) \in Nat /\ BidFor(new, s) <= BidFor(ord, s)
      /\ Reported(pending \o Told({x}, new), told, new)
  BY <1>2, <1>3, SomeEnd
<1> HIDE DEF new
<1>5. \A id \in Orders : DayFits(new[id], FirstDay)
  BY <1>4 DEF EngineInv, DayFits
<1>6. WithinCap(bought, new)
  <2> SUFFICES ASSUME NEW s \in Risky PROVE bought[s] + BidFor(new, s) <= RiskCap
    BY DEF WithinCap
  <2>1. bought[s] \in Nat /\ RiskCap \in Nat /\ bought[s] + BidFor(ord, s) <= RiskCap
    BY EngineShape DEF EngineInv, WithinCap
  <2>2. BidFor(new, s) \in Nat /\ BidFor(ord, s) \in Nat /\ BidFor(new, s) <= BidFor(ord, s)
    BY <1>4
  <2> QED BY <2>1, <2>2
<1>7. FirstDay' = FirstDay
  BY <1>1, <1>2 DEF FirstDay
<1> QED
  BY <1>1, <1>2, <1>4, <1>5, <1>6, <1>7 DEF EngineInv

\* An intent of the strategy on a security of the run.
Asked(c) == c \in Intents /\ c.s \in Securities

\* The order that is given next is one that is free.
LEMMA FreeOrder ==
  ASSUME \E id \in Orders : ord[id].status = "none"
  PROVE  NextOrder \in Orders /\ ord[NextOrder].status = "none" /\ ~ Active(ord[NextOrder])
<1> DEFINE free == {id \in Orders : ord[id].status = "none"}
<1>1. free # {}
  OBVIOUS
<1>2. free \in SUBSET Nat
  BY DEF Orders
<1> HIDE DEF free
<1>3. PICK id \in free : \A k \in free : id <= k
  BY <1>1, <1>2, LeastNumber
<1>4. id \in Nat /\ id \in Orders /\ ord[id].status = "none"
  BY <1>2, <1>3 DEF free
<1>5. \A before \in 1..(id - 1) : before \in Orders /\ before \notin free
  <2>1. \A before \in 1..(id - 1) : before \in Orders /\ ~ (id <= before)
    BY <1>4, AccountShape DEF Orders
  <2> QED BY <1>3, <2>1
<1>6. \A before \in 1..(id - 1) : ord[before].status # "none"
  BY <1>5 DEF free
<1> QED BY <1>4, <1>6 DEF NextOrder, Active

Placed(orders, c, quantity) == [orders EXCEPT ![NextOrder] = NewOrder(c, quantity)]
Booked(a, c, quantity) == Reserve(a, NextOrder, Wanted(c, quantity))
Given(c, quantity, a, old, new, b) ==
  /\ NextOrder \in Orders
  /\ quantity \in Nat \ {0}
  /\ HasBooks(b) /\ b.day = acct.day
  /\ Orderly(new) /\ Agrees(b, new)
  /\ \A id \in Orders : DayFits(new[id], FirstDay)
  /\ old[NextOrder].filled = 0 /\ new[NextOrder].filled = 0 /\ ~ Active(old[NextOrder])
  /\ \A id \in Orders \ {NextOrder} : new[id] = old[id]
  /\ \A s : Bid(new[NextOrder], s) = IF c.s = s /\ Side(c) = "buy" THEN quantity ELSE 0

\* The first free order takes what is asked for, where nothing remains of what it replaces.
LEMMA OrderGiven ==
  ASSUME EngineInv, at \in {"calls", "after"}, NEW c, Asked(c), NEW quantity, NEW a, NEW old,
         Acceptable(c, a, quantity),
         HasBooks(a), a.day = acct.day, Orderly(old), Agrees(a, old),
         \A id \in Orders : Active(old[id]) => old[id] = ord[id],
         \A id \in Orders : ~ Active(ord[id]) => old[id] = ord[id]
  PROVE  Given(c, quantity, a, old, Placed(old, c, quantity), Booked(a, c, quantity))
<1> DEFINE x == NextOrder
           o == NewOrder(c, quantity)
           w == Wanted(c, quantity)
           new == Placed(old, c, quantity)
           b == Booked(a, c, quantity)
<1>1. x \in Orders /\ ord[x].status = "none"
  BY FreeOrder DEF Acceptable
<1>2. quantity \in Nat \ {0}
  BY DEF Acceptable, MayReserve, Legal, Wanted
<1>3. ~ Active(ord[x]) /\ ~ Active(old[x]) /\ old[x].filled = 0
  <2>1. ~ Active(ord[x])
    BY <1>1 DEF Active
  <2>2. old[x] = ord[x]
    BY <1>1, <2>1
  <2>3. ord[x].filled = 0
    BY <1>1 DEF EngineInv, Orderly, FitOrder
  <2> QED BY <2>1, <2>2, <2>3
<1>4. /\ c.limit \in Nat /\ c.tif \in {"day", "gtc"} /\ c.s \in Securities
      /\ Side(c) \in {"buy", "sell"} /\ Effective \in Nat /\ Effective >= acct.day
      /\ acct.day \in Nat /\ time \in Nat /\ Targets(c) \in BOOLEAN
  BY EngineShape DEF Asked, Side, Effective, EngineInv, HasBooks, Targets
<1>5. /\ o.s = c.s /\ o.side = Side(c) /\ o.quantity = quantity /\ o.filled = 0 /\ o.limit = c.limit
      /\ o.tif = c.tif /\ o.effective = Effective /\ o.status = "open" /\ o \in OrderRecords
  BY <1>2, <1>4 DEF NewOrder, OrderRecords, Statuses
<1> HIDE DEF o
<1>6. Active(o) /\ Rest(o) = quantity /\ FitOrder(o)
  BY <1>2, <1>5 DEF Active, Rest, FitOrder
<1>7. /\ w.side = Side(c) /\ w.s = c.s /\ w.left = quantity /\ w.limit = c.limit
      /\ {"side", "s", "left", "limit"} \subseteq DOMAIN w
  BY DEF Wanted, NoReservation
<1>8. /\ HasBooks(b) /\ b.day = a.day
      /\ b.reserved[x].side = w.side /\ b.reserved[x].s = w.s
      /\ b.reserved[x].left = w.left /\ b.reserved[x].limit = w.limit
      /\ \A y \in Orders \ {x} : b.reserved[y] = a.reserved[y]
  <2> HIDE DEF x, w
  <2> QED BY <1>1, <1>7, ReserveOne DEF x, w, Booked
<1>9. DOMAIN new = Orders /\ new[x] = o /\ \A y \in Orders \ {x} : new[y] = old[y]
  BY <1>1 DEF Orderly, o, Placed
<1> HIDE DEF x, w, new, b
<1>10. Orderly(new)
  BY <1>6, <1>9 DEF Orderly
<1>11. Agrees(b, new)
  BY <1>5, <1>6, <1>7, <1>8, <1>9 DEF Agrees
<1>12. \A id \in Orders : DayFits(new[id], FirstDay)
  <2> SUFFICES ASSUME NEW id \in Orders PROVE DayFits(new[id], FirstDay)
    OBVIOUS
  <2>1. CASE id # x
    BY <1>9, <2>1 DEF EngineInv, DayFits
  <2>2. CASE id = x
    <3>1. Effective >= FirstDay
      <4>1. at = "after" => closed
        BY DEF EngineInv
      <4>2. at # "gap"
        BY DEF EngineInv
      <4> QED BY <1>4, <4>1, <4>2 DEF FirstDay, Effective
    <3> QED BY <1>5, <1>9, <2>2, <3>1 DEF DayFits
  <2> QED BY <2>1, <2>2
<1>13. \A s : Bid(new[x], s) = IF c.s = s /\ Side(c) = "buy" THEN quantity ELSE 0
  BY <1>5, <1>6, <1>9 DEF Bid
<1> QED
  BY <1>1, <1>2, <1>3, <1>5, <1>8, <1>9, <1>10, <1>11, <1>12, <1>13 DEF x, new, b, Given

LEMMA SubmitKeeps == ASSUME EngineInv, NEW c, Asked(c), Submit(c) PROVE EngineInv'
<1> DEFINE R == Replaces(c)
           a == Freed(acct, R)
           old == EndAs(R, "cancelled", ord)
           quantity == Quantity(c, a)
           x == NextOrder
           b == Reserve(a, x, Wanted(c, quantity))
           new == [old EXCEPT ![x] = NewOrder(c, quantity)]
<1>1. R \in SUBSET Orders /\ \A id \in R : Active(ord[id])
  BY DEF Replaces, Live
<1>2. /\ HasBooks(a) /\ a.day = acct.day
      /\ \A id \in R : a.reserved[id].side = "none"
      /\ \A id \in Orders \ R : a.reserved[id] = acct.reserved[id]
  <2> HIDE DEF R
  <2> QED BY <1>1, FreedAll DEF EngineInv, Freed
<1>3. /\ UNCHANGED <<at, time, due, closed, host, bought, told>> /\ host
      /\ \/ acct' = a /\ ord' = old /\ pending' = pending \o Told(R, old)
         \/ /\ Acceptable(c, a, quantity) /\ acct' = b /\ ord' = new
            /\ pending' = pending \o Told(R \cup {x}, new)
            /\ (c.s \in Risky /\ Side(c) = "buy" => BoughtOrOpen(c) + quantity <= RiskCap)
  BY DEF Submit, Clock, Market, Acceptable, Permitted
<1> HIDE DEF R, a, quantity
<1>4. /\ Orderly(old) /\ Agrees(a, old)
      /\ \A id \in Orders : Active(old[id]) => id \notin R /\ old[id] = ord[id]
      /\ \A s : BidFor(old, s) \in Nat /\ BidFor(ord, s) \in Nat /\ BidFor(old, s) <= BidFor(ord, s)
      /\ Reported(pending \o Told(R, old), told, old)
  BY <1>1, <1>2, SomeEnd
<1>5. \A s \in Risky : bought[s] \in Nat /\ RiskCap \in Nat /\ bought[s] + BidFor(ord, s) <= RiskCap
  BY EngineShape DEF EngineInv, WithinCap
<1>6. CASE acct' = a /\ ord' = old /\ pending' = pending \o Told(R, old)
  <2> HIDE DEF old
  <2>1. \A id \in Orders : DayFits(old[id], FirstDay)
    BY <1>4 DEF EngineInv, DayFits
  <2>2. WithinCap(bought, old)
    BY <1>4, <1>5 DEF WithinCap
  <2>3. FirstDay' = FirstDay
    BY <1>2, <1>3, <1>6 DEF FirstDay
  <2> QED
    BY <1>2, <1>3, <1>4, <1>6, <2>1, <2>2, <2>3 DEF EngineInv
<1>7. CASE /\ Acceptable(c, a, quantity) /\ acct' = b /\ ord' = new
           /\ pending' = pending \o Told(R \cup {x}, new)
           /\ (c.s \in Risky /\ Side(c) = "buy" => BoughtOrOpen(c) + quantity <= RiskCap)
  <2>1. /\ x \in Orders /\ x \notin R
        /\ quantity \in Nat \ {0}
        /\ HasBooks(b) /\ b.day = acct.day
        /\ Orderly(new) /\ Agrees(b, new)
        /\ \A id \in Orders : DayFits(new[id], FirstDay)
        /\ ~ Active(old[x])
        /\ \A id \in Orders \ {x} : new[id] = old[id]
        /\ \A s : Bid(new[x], s) = IF c.s = s /\ Side(c) = "buy" THEN quantity ELSE 0
    <3>1. /\ at \in {"calls", "after"} /\ Acceptable(c, a, quantity) /\ HasBooks(a) /\ a.day = acct.day
          /\ Orderly(old) /\ Agrees(a, old) /\ \A id \in Orders : Active(old[id]) => old[id] = ord[id]
      BY <1>1, <1>2, <1>3, <1>4, <1>7 DEF EngineInv
    <3>2. \A id \in Orders : ~ Active(ord[id]) => old[id] = ord[id]
      BY <1>1 DEF EndAs
    <3>3. x \notin R
      BY <1>1, <1>7, FreeOrder DEF Acceptable
    <3>4. new = Placed(old, c, quantity) /\ b = Booked(a, c, quantity)
      BY DEF Placed, Booked
    <3> HIDE DEF old, new, b, x
    <3>5. Given(c, quantity, a, old, new, b)
      BY <3>1, <3>2, <3>4, OrderGiven
    <3> QED BY <3>3, <3>5 DEF Given, x
  <2>2. \A s : Bid(old[x], s) = 0
    BY <2>1 DEF Bid
  <2>3. ASSUME NEW s \in Risky PROVE bought[s] + BidFor(new, s) <= RiskCap
    <3> HIDE DEF old, new, x
    <3>1. /\ BidFor(new, s) - Bid(new[x], s) = BidFor(old, s) - Bid(old[x], s)
          /\ BidFor(new, s) \in Nat /\ BidFor(old, s) \in Nat
      BY <1>4, <2>1, BidChanges, BidsFinite
    <3>2. CASE c.s = s /\ Side(c) = "buy"
      <4>1. BidFor(new, s) = BidFor(old, s) + quantity
        BY <2>1, <2>2, <3>1, <3>2
      <4>2. BoughtOrOpen(c) = bought[s] + BidFor(old, s)
        <5> DEFINE T == {id \in Live(c.s) \ R : ord[id].side = "buy"}
        <5>1. BoughtOrOpen(c) = bought[s] + SumFunction([id \in T |-> Rest(ord[id])])
          BY <3>2 DEF BoughtOrOpen, Total, R
        <5>2. T = Bids(ord, s) \ R
          BY <3>2 DEF Bids, Live
        <5>3. BidFor(old, s) = SumFunction([id \in Bids(ord, s) \ R |-> Rest(ord[id])])
          BY <1>1, EndedBids DEF EngineInv, old
        <5> QED BY <5>1, <5>2, <5>3
      <4> QED BY <1>5, <1>7, <2>1, <3>1, <3>2, <4>1, <4>2
    <3>3. CASE ~ (c.s = s /\ Side(c) = "buy")
      <4>1. BidFor(new, s) = BidFor(old, s)
        BY <2>1, <2>2, <3>1, <3>3
      <4> QED BY <1>4, <1>5, <3>1, <4>1
    <3> QED BY <3>2, <3>3
  <2>4. Reported(pending \o Told(R \cup {x}, new), told, new)
    <3>1. \A id \in Orders \ (R \cup {x}) : Word(new[id]) = Word(ord[id])
      <4>1. \A id \in Orders \ R : old[id] = ord[id]
        BY DEF EndAs
      <4> QED BY <2>1, <4>1
    <3>2. Reported(pending, told, ord) /\ R \cup {x} \in SUBSET Orders
      BY <1>1, <2>1 DEF EngineInv
    <3> HIDE DEF new, x
    <3> QED BY <2>1, <3>1, <3>2, ReportedMore
  <2> HIDE DEF new, b, x
  <2>5. FirstDay' = FirstDay
    BY <1>3, <1>7, <2>1 DEF FirstDay
  <2> QED
    BY <1>3, <1>7, <2>1, <2>3, <2>4, <2>5 DEF EngineInv, WithinCap
<1> QED
  BY <1>3, <1>6, <1>7

-----------------------------------------------------------------------------
(* One step of the driver.                                                 *)

LEMMA OpenKeeps == ASSUME EngineInv, NEW stopped, Open(stopped) PROVE EngineInv'
<1> DEFINE day == acct.day + 1
           st == Settle(acct, day)
           n == Advance(st, "open")
           dropped == n.ended \cup {id \in Orders : Active(ord[id]) /\ ord[id].s \in stopped}
           a == Freed(n.a, dropped \ n.ended)
           new == EndAs(dropped, "cancelled", ord)
<1>1. /\ at = "gap" /\ at' = "calls" /\ time' = 0 /\ closed' = FALSE /\ UNCHANGED <<host, due, told>>
      /\ bought' = [s \in Securities |-> 0]
      /\ acct' = a /\ ord' = new /\ pending' = pending \o Told(dropped, new)
  BY DEF Open
<1>2. acct.day \in Nat /\ day \in Nat /\ HasBooks(acct)
  BY DEF EngineInv, HasBooks
<1>3. HasBooks(st) /\ st.day = day /\ st.reserved = acct.reserved
  <2> HIDE DEF day
  <2> QED BY <1>2, SettleNone
<1>4. Ends(st, n)
  <2> HIDE DEF st
  <2> QED BY <1>3, Advanced
<1>5. /\ HasBooks(n.a) /\ n.a.day = day /\ n.ended \in SUBSET Orders
      /\ \A id \in n.ended : n.a.reserved[id].side = "none"
      /\ \A id \in Orders \ n.ended : n.a.reserved[id] = acct.reserved[id]
  <2> HIDE DEF n, st
  <2> QED BY <1>3, <1>4 DEF Ends
<1>6. dropped \in SUBSET Orders /\ dropped \ n.ended \in SUBSET Orders
  <2> HIDE DEF n
  <2> QED BY <1>5
<1>7. /\ HasBooks(a) /\ a.day = day
      /\ \A id \in dropped : a.reserved[id].side = "none"
      /\ \A id \in Orders \ dropped : a.reserved[id] = acct.reserved[id]
  <2> DEFINE m == n.a
             S == dropped \ n.ended
  <2>1. HasBooks(m) /\ S \in SUBSET Orders
    BY <1>5, <1>6
  <2> HIDE DEF m, S
  <2>2. /\ HasBooks(FreedOf(m, S)) /\ FreedOf(m, S).day = m.day
        /\ \A id \in S : FreedOf(m, S).reserved[id].side = "none"
        /\ \A id \in Orders \ S : FreedOf(m, S).reserved[id] = m.reserved[id]
    BY <2>1, FreedAll
  <2>3. a = FreedOf(m, S)
    BY DEF Freed, m, S
  <2>4. /\ \A id \in S : id \in dropped
        /\ \A id \in dropped : id \in Orders /\ (id \in S \/ (id \in n.ended /\ id \notin S))
        /\ \A id \in Orders \ dropped : id \notin S /\ id \notin n.ended
    <3>1. n.ended \subseteq dropped
      <4> HIDE DEF n
      <4> QED OBVIOUS
    <3>2. S = dropped \ n.ended
      BY DEF S
    <3> HIDE DEF n, dropped
    <3> QED BY <1>6, <3>1, <3>2
  <2> HIDE DEF a, n, dropped
  <2> QED BY <1>5, <2>2, <2>3, <2>4 DEF m
<1> HIDE DEF a, dropped
<1>8. /\ Orderly(new) /\ Agrees(a, new)
      /\ \A id \in Orders : Active(new[id]) => id \notin dropped /\ new[id] = ord[id]
      /\ \A s : BidFor(new, s) \in Nat /\ BidFor(ord, s) \in Nat /\ BidFor(new, s) <= BidFor(ord, s)
      /\ Reported(pending \o Told(dropped, new), told, new)
  BY <1>6, <1>7, SomeEnd
<1> HIDE DEF new
<1>9. WithinCap(bought', new)
  <2> SUFFICES ASSUME NEW s \in Risky PROVE bought'[s] + BidFor(new, s) <= RiskCap
    BY DEF WithinCap
  <2>1. s \in Securities /\ bought'[s] = 0
    BY <1>1, EngineShape
  <2>2. bought[s] \in Nat /\ RiskCap \in Nat /\ bought[s] + BidFor(ord, s) <= RiskCap
    BY <2>1, EngineShape DEF EngineInv, WithinCap
  <2>3. BidFor(new, s) \in Nat /\ BidFor(ord, s) \in Nat /\ BidFor(new, s) <= BidFor(ord, s)
    BY <1>8
  <2> QED BY <2>1, <2>2, <2>3
<1>10. FirstDay' = day /\ FirstDay = day
  BY <1>1, <1>2, <1>7 DEF FirstDay
<1>11. \A id \in Orders : DayFits(new[id], FirstDay')
  BY <1>8, <1>10 DEF EngineInv, DayFits
<1>12. host' => at' \in {"calls", "after"}
  BY <1>1
<1> QED
  BY <1>1, <1>7, <1>8, <1>9, <1>11, <1>12 DEF EngineInv

\* What a bar does.
LEMMA BarMatched ==
  ASSUME EngineInv, NEW s \in Securities, NEW bar \in Markets, MatchBar(s, bar)
  PROVE  \E m : /\ Matches(m, EligibleFor(s), s)
                /\ acct' = m.a /\ ord' = m.ord /\ bought' = [bought EXCEPT ![s] = m.bought]
                /\ pending' = pending \o Told(m.changed, m.ord)
                /\ UNCHANGED <<at, time, host, closed, told>>
<1> DEFINE share == IF s \in halted THEN 0 ELSE bar.share
           m == MatchedBy(s, bar, share)
<1>1. share \in Int
  BY EngineShape
<1>2. /\ acct' = m.a /\ ord' = m.ord /\ bought' = [bought EXCEPT ![s] = m.bought]
      /\ pending' = pending \o Told(m.changed, m.ord)
      /\ UNCHANGED <<at, time, host, closed, told>>
  BY DEF MatchBar, MatchedBy
<1>3. Matches(m, EligibleFor(s), s)
  <2>1. HasBooks(acct) /\ Orderly(ord) /\ Agrees(acct, ord) /\ bought \in [Securities -> Nat]
    BY DEF EngineInv
  <2> HIDE DEF share
  <2> QED BY <1>1, <2>1, MatchedAll
<1> HIDE DEF m
<1> QED
  BY <1>2, <1>3

LEMMA MatchKeeps ==
  ASSUME EngineInv, NEW s \in Securities, NEW bar \in Markets, MatchBar(s, bar) PROVE EngineInv'
<1>1. PICK m : /\ Matches(m, EligibleFor(s), s)
               /\ acct' = m.a /\ ord' = m.ord /\ bought' = [bought EXCEPT ![s] = m.bought]
               /\ pending' = pending \o Told(m.changed, m.ord)
               /\ UNCHANGED <<at, time, host, closed, told>>
  BY BarMatched
<1>2. /\ HasBooks(acct') /\ acct'.day = acct.day /\ Orderly(ord') /\ Agrees(acct', ord')
      /\ m.changed \subseteq EligibleFor(s) /\ \A id \in Orders \ m.changed : ord'[id] = ord[id]
      /\ \A id \in Orders : Active(ord'[id]) => /\ Active(ord[id]) /\ ord'[id].tif = ord[id].tif
                                              /\ ord'[id].effective = ord[id].effective
      /\ m.bought \in Nat /\ m.bought + BidFor(ord', s) = bought[s] + BidFor(ord, s)
      /\ \A z \in Risky \ {s} : BidFor(ord', z) = BidFor(ord, z)
  BY <1>1 DEF Matches
<1>3. bought \in [Securities -> Nat] /\ bought' \in [Securities -> Nat] /\ bought'[s] = m.bought
  BY <1>1, <1>2 DEF EngineInv
<1>4. WithinCap(bought', ord')
  <2> SUFFICES ASSUME NEW z \in Risky PROVE bought'[z] + BidFor(ord', z) <= RiskCap
    BY DEF WithinCap
  <2>1. z \in Securities /\ bought[z] + BidFor(ord, z) <= RiskCap
    BY EngineShape DEF EngineInv, WithinCap
  <2>2. CASE z = s
    BY <1>2, <1>3, <2>1, <2>2
  <2>3. CASE z # s
    BY <1>1, <1>2, <1>3, <2>1, <2>3
  <2> QED BY <2>2, <2>3
<1>5. FirstDay' = FirstDay
  BY <1>1, <1>2 DEF FirstDay
<1>6. \A id \in Orders : DayFits(ord'[id], FirstDay')
  BY <1>2, <1>5 DEF EngineInv, DayFits
<1>7. Reported(pending', told', ord')
  <2>1. m.changed \in SUBSET Orders /\ \A id \in Orders \ m.changed : Word(ord'[id]) = Word(ord[id])
    BY <1>2 DEF EligibleFor, Live
  <2>2. Reported(pending, told, ord)
    BY DEF EngineInv
  <2>3. Reported(pending \o Told(m.changed, ord'), told, ord')
    BY <1>2, <2>1, <2>2, ReportedMore
  <2> QED BY <1>1, <2>3
<1> QED
  BY <1>1, <1>2, <1>3, <1>4, <1>6, <1>7 DEF EngineInv

LEMMA ExpireKeeps == EngineInv /\ Expire => EngineInv'
<1> SUFFICES ASSUME EngineInv, Expire PROVE EngineInv'
  OBVIOUS
<1> DEFINE S == {id \in Orders : Active(ord[id]) /\ ord[id].tif = "day" /\ ord[id].effective = acct.day}
           a == Freed(acct, S)
           new == EndAs(S, "expired", ord)
<1>1. /\ at = "calls" /\ closed /\ ~ host /\ pending = <<>>
      /\ at' = "after" /\ time' = Close + 1
      /\ acct' = a /\ ord' = new /\ pending' = Told(S, new)
      /\ UNCHANGED <<host, closed, due, bought, told>>
  BY DEF Expire, Drained, Market
<1>2. S \in SUBSET Orders
  OBVIOUS
<1>3. /\ HasBooks(a) /\ a.day = acct.day
      /\ \A id \in S : a.reserved[id].side = "none"
      /\ \A id \in Orders \ S : a.reserved[id] = acct.reserved[id]
  <2> HIDE DEF S
  <2> QED BY <1>2, FreedAll DEF EngineInv, Freed
<1> HIDE DEF a
<1>4. /\ Orderly(new) /\ Agrees(a, new)
      /\ \A id \in Orders : Active(new[id]) => id \notin S /\ new[id] = ord[id]
      /\ \A s : BidFor(new, s) \in Nat /\ BidFor(ord, s) \in Nat /\ BidFor(new, s) <= BidFor(ord, s)
      /\ Reported(pending \o Told(S, new), told, new)
  <2> HIDE DEF S
  <2> QED BY <1>2, <1>3, SomeEnd
<1>5. WithinCap(bought, new)
  <2> SUFFICES ASSUME NEW s \in Risky PROVE bought[s] + BidFor(new, s) <= RiskCap
    BY DEF WithinCap
  <2>1. bought[s] \in Nat /\ RiskCap \in Nat /\ bought[s] + BidFor(ord, s) <= RiskCap
    BY EngineShape DEF EngineInv, WithinCap
  <2>2. BidFor(new, s) \in Nat /\ BidFor(ord, s) \in Nat /\ BidFor(new, s) <= BidFor(ord, s)
    BY <1>4
  <2> QED BY <2>1, <2>2
<1>6. \A id \in Orders : DayFits(new[id], FirstDay')
  <2> SUFFICES ASSUME NEW id \in Orders, Active(new[id]), new[id].tif = "day"
               PROVE  new[id].effective >= FirstDay'
    BY DEF DayFits
  <2>1. id \notin S /\ new[id] = ord[id]
    BY <1>4
  <2>2. ord[id].effective # acct.day /\ ord[id].effective \in Nat /\ acct.day \in Nat
    BY <2>1 DEF EngineInv, Orderly, FitOrder, OrderRecords, HasBooks
  <2>3. ord[id].effective >= acct.day
    BY <1>1, <2>1, <2>2 DEF EngineInv, DayFits, FirstDay
  <2>4. FirstDay' = acct.day + 1
    BY <1>1, <1>3 DEF FirstDay
  <2> QED BY <2>1, <2>2, <2>3, <2>4
<1> HIDE DEF new, S
<1>7. Reported(Told(S, new), told, new)
  <2>1. Told(S, new) \in Seq(Notes)
    BY <1>2, <1>4, ToldAll DEF TellsAll
  <2>2. pending \o Told(S, new) = Told(S, new)
    BY <1>1, <2>1, ConcatEmptySeq
  <2> QED BY <1>4, <2>2
<1>8. time' \in Nat
  BY <1>1, EngineShape DEF Close
<1> QED
  BY <1>1, <1>3, <1>4, <1>5, <1>6, <1>7, <1>8 DEF EngineInv

-----------------------------------------------------------------------------
(* The engine.                                                             *)

\* Every step keeps the invariant.
LEMMA EngineStep == EngineInv /\ [Next]_vars => EngineInv'
<1> SUFFICES ASSUME EngineInv, [Next]_vars PROVE EngineInv'
  OBVIOUS
<1>1. CASE Strategy
  <2>1. CASE Notify \/ Call \/ Return
    BY <2>1, NotifyKeeps, CallKeeps
  <2>2. ASSUME NEW c \in {intent \in Intents : intent.s \in Securities}, SubmitCovered(c) \/ Submit(c)
        PROVE  EngineInv'
    BY <2>2, CoveredKeeps, SubmitKeeps DEF Asked
  <2>3. ASSUME NEW id \in Orders, Cancel(id) PROVE EngineInv'
    BY <2>3, CancelKeeps
  <2> QED BY <1>1, <2>1, <2>2, <2>3 DEF Strategy
<1>2. CASE Driver
  <2>1. ASSUME NEW stopped \in SUBSET Halting, Open(stopped) PROVE EngineInv'
    BY <2>1, OpenKeeps
  <2>2. CASE Timer \/ EndSession
    BY <2>2, CallKeeps
  <2>3. CASE Barrier \/ CloseEmpty
    BY <2>3, BarrierKeeps
  <2>4. CASE Expire
    BY <2>4, ExpireKeeps
  <2>5. ASSUME NEW S \in SUBSET Securities, Boundary(S) PROVE EngineInv'
    BY <2>5, BoundaryKeeps
  <2>6. ASSUME NEW s \in Securities, NEW bar \in Markets, MatchBar(s, bar) PROVE EngineInv'
    BY <2>6, MatchKeeps
  <2> QED BY <1>2, <2>1, <2>2, <2>3, <2>4, <2>5, <2>6 DEF Driver
<1>3. CASE UNCHANGED vars
  BY <1>3 DEF vars, EngineInv, FirstDay
<1> QED
  BY <1>1, <1>2, <1>3 DEF Next

\* The engine's inductive invariant: orders, reservations, the strategy's
\* knowledge, the cap and the calendar, whatever the strategy asks for.
THEOREM EngineHolds == Spec => []EngineInv
<1>1. Init => EngineInv
  BY EngineStarts
<1>2. EngineInv /\ [Next]_vars => EngineInv'
  BY EngineStep
<1> QED
  BY <1>1, <1>2, PTL DEF Spec

\* Every active order has the reservation of what remains of it and nothing
\* else has one; a strategy with nothing left to hear knows the state of every
\* order; and no day order is active after its session: for any strategy, any
\* bars, any corporate actions and any number of orders (OrderManager and
\* Account change together in submit, cancel_at, commit_match, expire_day).
THEOREM ManagerAndAccountAgree == Spec => []OrdersAgree
<1>1. EngineInv => OrdersAgree
  <2> SUFFICES ASSUME EngineInv PROVE OrdersAgree
    OBVIOUS
  <2>1. OrdersReserved
    BY DEF EngineInv, Agrees, OrdersReserved
  <2>2. Informed
    <3> SUFFICES ASSUME pending = <<>>, NEW id \in Orders PROVE told[id] = Word(ord[id])
      BY DEF Informed
    <3>1. Hears(pending, told[id], Word(ord[id]), id) /\ Len(pending) = 0
      BY DEF EngineInv, Reported
    <3> QED BY <3>1 DEF Hears
  <2>3. DayOrdersFit
    BY DEF EngineInv, DayFits, FirstDay, DayOrdersFit
  <2> QED BY <2>1, <2>2, <2>3 DEF OrdersAgree
<1> QED
  BY <1>1, EngineHolds, PTL

\* The shares of a security under a risk warning that were bought today, with
\* those that are still ordered, never pass the cap, however orders are
\* replaced, filled in part, cancelled or carried to the next session
\* (session_buys and the check in submit).
THEOREM RiskStaysBounded == Spec => []RiskBounded
<1>1. EngineInv => RiskBounded
  <2> SUFFICES ASSUME EngineInv, NEW s \in Risky
               PROVE  bought[s] + Total(LAMBDA id : Rest(ord[id]),
                                        {id \in Live(s) : ord[id].side = "buy"}) <= RiskCap
    BY DEF RiskBounded
  <2>1. {id \in Live(s) : ord[id].side = "buy"} = Bids(ord, s)
    BY DEF Live, Bids
  <2>2. Total(LAMBDA id : Rest(ord[id]), {id \in Live(s) : ord[id].side = "buy"}) = BidFor(ord, s)
    BY <2>1 DEF Total, BidFor
  <2>3. bought[s] + BidFor(ord, s) <= RiskCap
    BY DEF EngineInv, WithinCap
  <2> QED BY <2>2, <2>3
<1> QED
  BY <1>1, EngineHolds, PTL

\* What an ended order has filled stays as it was.
LEMMA EndsKeepFilled ==
  ASSUME NEW S, NEW status PROVE \A id \in Orders : EndAs(S, status, ord)[id].filled = ord[id].filled
  BY DEF EndAs, Ended, NoOrder

LEMMA SubmitFillsNone ==
  ASSUME EngineInv, NEW c, Submit(c) PROVE \A id \in Orders : ord'[id].filled = ord[id].filled
<1> DEFINE old == EndAs(Replaces(c), "cancelled", ord)
           x == NextOrder
<1>1. \A id \in Orders : old[id].filled = ord[id].filled
  BY EndsKeepFilled
<1>2. CASE ord' = old
  BY <1>1, <1>2
<1>3. ASSUME NEW quantity, NEW a, ord' = [old EXCEPT ![x] = NewOrder(c, quantity)], Acceptable(c, a, quantity)
      PROVE  \A id \in Orders : ord'[id].filled = ord[id].filled
  <2>1. x \in Orders /\ ord[x].status = "none"
    BY <1>3, FreeOrder DEF Acceptable
  <2>2. ord[x].filled = 0
    BY <2>1 DEF EngineInv, Orderly, FitOrder
  <2>3. NewOrder(c, quantity).filled = 0
    BY DEF NewOrder
  <2>4. DOMAIN old = Orders
    BY DEF EndAs
  <2> HIDE DEF old, x
  <2> QED BY <1>1, <1>3, <2>1, <2>2, <2>3, <2>4
<1> QED
  BY <1>2, <1>3 DEF Submit

\* No order is ever filled by a bar that had begun before the order was given:
\* only a bar fills orders, and only those of eligible_orders.
THEOREM NothingFillsLate == Spec => NoLookahead
<1> DEFINE Fair(id) == ord'[id].filled # ord[id].filled =>
                         ord[id].start[1] < acct.day \/ ord[id].start[2] <= time - 2
<1>1. EngineInv /\ [Next]_vars => [\A id \in Orders : Fair(id)]_vars
  <2> SUFFICES ASSUME EngineInv, Next, NEW id \in Orders PROVE Fair(id)
    OBVIOUS
  <2>1. CASE ord' = ord
    BY <2>1
  <2>2. ASSUME NEW c, Submit(c) PROVE Fair(id)
    BY <2>2, SubmitFillsNone
  <2>3. ASSUME NEW S, NEW status, ord' = EndAs(S, status, ord) PROVE Fair(id)
    BY <2>3, EndsKeepFilled
  <2>4. ASSUME NEW s \in Securities, NEW bar \in Markets, MatchBar(s, bar) PROVE Fair(id)
    <3>1. PICK m : Matches(m, EligibleFor(s), s) /\ ord' = m.ord
      BY <2>4, BarMatched
    <3>2. m.changed \subseteq EligibleFor(s) /\ (id \notin m.changed => ord'[id] = ord[id])
      BY <3>1 DEF Matches
    <3>3. id \in EligibleFor(s) => ord[id].start[1] < acct.day \/ ord[id].start[2] <= time - 2
      BY DEF EligibleFor
    <3> QED BY <3>2, <3>3
  <2> HIDE DEF Fair
  <2>5. CASE Strategy
    BY <2>1, <2>2, <2>3, <2>5 DEF Strategy, Notify, Call, Return, SubmitCovered, Cancel
  <2>6. CASE Driver
    BY <2>1, <2>3, <2>4, <2>6
       DEF Driver, Open, Timer, Barrier, CloseEmpty, Expire, EndSession, Boundary
  <2> QED BY <2>5, <2>6 DEF Next
<1> QED
  BY <1>1, EngineHolds, PTL DEF Spec, NoLookahead

-----------------------------------------------------------------------------
(* Shares that active orders will still buy, less those they will sell.    *)

Planned(o, s)      == IF o.s = s /\ Active(o) THEN Signed(o) ELSE 0
PlanFor(orders, s) == SumFunction([id \in Orders |-> Planned(orders[id], s)])

LEMMA PlansAre ==
  ASSUME NEW orders, Orderly(orders), NEW s, NEW g, g = [id \in Orders |-> Planned(orders[id], s)]
  PROVE  /\ g \in [Orders -> Int] /\ IsFiniteSet(Orders)
         /\ PlanFor(orders, s) = SumFunction(g) /\ PlanFor(orders, s) \in Int
<1>1. IsFiniteSet(Orders)
  BY OrdersFinite
<1>2. g \in [Orders -> Int]
  BY RestIsLeft DEF Orderly, Planned, Signed
<1>3. SumFunction(g) \in Int
  BY <1>1, <1>2, SumInteger
<1> QED
  BY <1>1, <1>2, <1>3 DEF PlanFor

\* What is planned depends on each order's plan only.
LEMMA PlanSame ==
  ASSUME NEW old, NEW new, NEW s, \A id \in Orders : Planned(new[id], s) = Planned(old[id], s)
  PROVE  PlanFor(new, s) = PlanFor(old, s)
<1>1. [id \in Orders |-> Planned(new[id], s)] = [id \in Orders |-> Planned(old[id], s)]
  <2> HIDE DEF Planned
  <2> QED OBVIOUS
<1> QED
  BY <1>1 DEF PlanFor

\* One order changes, and nothing else of what is planned.
LEMMA PlanChanges ==
  ASSUME NEW old, Orderly(old), NEW new, Orderly(new), NEW x \in Orders,
         \A y \in Orders \ {x} : new[y] = old[y], NEW s
  PROVE  PlanFor(new, s) - Planned(new[x], s) = PlanFor(old, s) - Planned(old[x], s)
<1>1. PICK g, h : g = [id \in Orders |-> Planned(old[id], s)] /\ h = [id \in Orders |-> Planned(new[id], s)]
  OBVIOUS
<1>2. /\ g \in [Orders -> Int] /\ h \in [Orders -> Int] /\ IsFiniteSet(Orders)
      /\ PlanFor(old, s) = SumFunction(g) /\ PlanFor(new, s) = SumFunction(h)
  BY <1>1, PlansAre
<1>3. \A y \in Orders \ {x} : h[y] = g[y]
  BY <1>1
<1>4. SumFunction(h) - h[x] = SumFunction(g) - g[x]
  BY <1>2, <1>3, SumDiffers
<1> QED
  BY <1>1, <1>2, <1>4

\* A plan is made of the orders of T that are the only ones to count.
PlansOnly(orders, T, s) ==
  \A id \in Orders : Planned(orders[id], s) = IF id \in T THEN Signed(orders[id]) ELSE 0
LEMMA PlanIs ==
  ASSUME NEW orders, Orderly(orders), NEW s, NEW T \in SUBSET Orders, PlansOnly(orders, T, s)
  PROVE  SumFunction([id \in T |-> Signed(orders[id])]) = PlanFor(orders, s)
<1>1. PICK g : g = [id \in Orders |-> Planned(orders[id], s)]
  OBVIOUS
<1>2. g \in [Orders -> Int] /\ IsFiniteSet(Orders) /\ PlanFor(orders, s) = SumFunction(g)
  BY <1>1, PlansAre
<1>3. \A id \in Orders \ T : g[id] = 0
  BY <1>1 DEF PlansOnly
<1>4. SumFunction(g) = SumFunction(Restrict(g, T))
  BY <1>2, <1>3, SumInside
<1>5. Restrict(g, T) = [id \in T |-> Signed(orders[id])]
  BY <1>1 DEF Restrict, PlansOnly
<1> QED
  BY <1>2, <1>4, <1>5

\* The active orders of a security are its plan.
LEMMA LivePlan ==
  ASSUME Orderly(ord), NEW s
  PROVE  Total(LAMBDA id : Signed(ord[id]), Live(s)) = PlanFor(ord, s)
<1>1. PICK T \in SUBSET Orders : T = Live(s)
  BY DEF Live
<1>2. PlansOnly(ord, T, s)
  BY <1>1 DEF PlansOnly, Live, Planned
<1>3. SumFunction([id \in T |-> Signed(ord[id])]) = PlanFor(ord, s)
  BY <1>2, PlanIs
<1> QED BY <1>1, <1>3 DEF Total

\* Orders that end are planned no more, and nothing else changes.
LEMMA EndedPlan ==
  ASSUME NEW S \in SUBSET Orders, NEW status \in {"filled", "cancelled", "expired"}, NEW new,
         new = EndAs(S, status, ord), NEW s
  PROVE  /\ \A id \in Orders : Planned(new[id], s) = IF id \in S THEN 0 ELSE Planned(ord[id], s)
         /\ (\A id \in S : ord[id].s # s) => PlanFor(new, s) = PlanFor(ord, s)
<1>1. \A id \in Orders \ S : new[id] = ord[id]
  BY DEF EndAs
<1>2. \A id \in S : ~ Active(new[id])
  BY DEF EndAs, Ended, Active, NoOrder
<1>3. \A id \in Orders : Planned(new[id], s) = IF id \in S THEN 0 ELSE Planned(ord[id], s)
  BY <1>1, <1>2 DEF Planned
<1>4. ASSUME \A id \in S : ord[id].s # s PROVE PlanFor(new, s) = PlanFor(ord, s)
  <2>1. \A id \in S : Planned(ord[id], s) = 0
    BY <1>4 DEF Planned
  <2>2. \A id \in Orders : Planned(new[id], s) = Planned(ord[id], s)
    BY <1>3, <2>1
  <2> QED BY <2>2, PlanSame
<1> QED
  BY <1>3, <1>4

-----------------------------------------------------------------------------
(* A bar is matched: what is bought and sold was planned, and the account  *)
(* stays sound.                                                            *)

LEMMA FilledPlan ==
  ASSUME NEW o, FitOrder(o), Active(o), NEW quantity \in 1..Rest(o), NEW new, new = Left(o, quantity), NEW z
  PROVE  Planned(new, z) =
           Planned(o, z) - IF z = o.s THEN (IF o.side = "buy" THEN quantity ELSE -quantity) ELSE 0
<1>1. /\ new.s = o.s /\ new.side = o.side
      /\ Active(new) <=> quantity # Rest(o)
      /\ Active(new) => Rest(new) = Rest(o) - quantity
  BY FilledOrder
<1>2. Rest(o) \in Nat /\ quantity \in Nat
  BY RestIsLeft
<1>3. CASE z # o.s
  BY <1>1, <1>3 DEF Planned
<1>4. CASE z = o.s /\ Active(new)
  BY <1>1, <1>2, <1>4 DEF Planned, Signed
<1>5. CASE z = o.s /\ ~ Active(new)
  BY <1>1, <1>2, <1>5 DEF Planned, Signed
<1> QED BY <1>3, <1>4, <1>5

\* A price is an amount, whatever the bar and the limit.
LEMMA PriceNatural ==
  ASSUME NEW o, FitOrder(o), NEW bar \in Markets
  PROVE  Price(o, bar) \in Nat
<1>1. /\ bar.open \in Nat /\ bar.close \in Nat /\ bar.high \in Nat /\ bar.low \in Nat /\ Slip \in Nat
  BY EngineShape
<1>2. o.limit \in Nat
  BY DEF FitOrder, OrderRecords
<1>3. Reference(o, bar) \in Nat
  BY <1>1, <1>2 DEF Reference
<1> HIDE DEF Reference
<1> QED
  BY <1>1, <1>2, <1>3 DEF Price, Lesser, Greater

\* Where matching is, the account is sound, has the rights it had, and what it
\* holds and plans of each security is what it was.
Gains(n) ==
  /\ Sound(n.a) /\ \A i \in DOMAIN Actions : SameRight(n.a.action[i], acct.action[i])
  /\ \A z \in Securities :
       n.a.position[z].quantity + PlanFor(n.ord, z) = acct.position[z].quantity + PlanFor(ord, z)

LEMMA GainsMore ==
  ASSUME Orderly(ord), NEW s \in Securities, NEW t \in SUBSET EligibleFor(s),
         NEW x \in EligibleFor(s) \ t, NEW n, Matches(n, t, s), Gains(n), NEW bar \in Markets
  PROVE  Gains(MatchOne(n, x, bar))
<1> DEFINE quantity == IF n.ord[x].side = "buy"
                       THEN Affordable(n.a, x, Lesser(Rest(n.ord[x]), n.share), Price(n.ord[x], bar), 1)
                       ELSE Lesser(Rest(n.ord[x]), n.share)
<1>1. PICK a, o, price, q : a = n.a /\ o = n.ord[x] /\ price = Price(o, bar) /\ q = quantity
  OBVIOUS
<1>2. PICK b, new, orders : /\ b = Filled(a, x, q, price) /\ new = Left(o, q)
                            /\ orders = [n.ord EXCEPT ![x] = new]
  OBVIOUS
<1>3. \/ MatchOne(n, x, bar) = n
      \/ /\ MayFill(a, x, q, price, b)
         /\ MatchOne(n, x, bar).a = b /\ MatchOne(n, x, bar).ord = orders
  BY <1>1, <1>2 DEF MatchOne, Left
<1> HIDE DEF quantity
<1>4. CASE MatchOne(n, x, bar) = n
  BY <1>4
<1>5. CASE MayFill(a, x, q, price, b) /\ MatchOne(n, x, bar).a = b /\ MatchOne(n, x, bar).ord = orders
  <2>1. x \in Orders /\ Active(ord[x]) /\ ord[x].s = s /\ x \notin n.changed
    BY DEF EligibleFor, Live, Matches
  <2>2. o = ord[x] /\ Active(o) /\ o.s = s /\ FitOrder(o)
    BY <1>1, <2>1 DEF Matches, Orderly
  <2>3. /\ a.reserved[x].left = Rest(o) /\ a.reserved[x].side = o.side /\ a.reserved[x].s = o.s
        /\ o.side # "none"
    BY <1>1, <2>1, <2>2 DEF Matches, Agrees, FitOrder, OrderRecords
  <2>4. q \in 1..Rest(o) /\ q \in Nat
    BY <1>5, <2>2, <2>3, RestIsLeft DEF MayFill
  <2>5. price \in Nat
    BY <1>1, <2>2, PriceNatural
  <2>6. Sound(a) /\ \A i \in DOMAIN Actions : SameRight(a.action[i], acct.action[i])
    BY <1>1 DEF Gains
  <2>7. PICK amount \in Int : amount = IF o.side = "buy" THEN q ELSE -q
    BY <2>4
  <2>8. Sound(b) /\ Traded(a, b, s, amount)
    <3>1. MayFill(a, x, q, price, Filled(a, x, q, price))
      BY <1>2, <1>5
    <3>2. /\ Sound(Filled(a, x, q, price))
          /\ Traded(a, Filled(a, x, q, price), a.reserved[x].s,
                    IF a.reserved[x].side = "buy" THEN q ELSE -q)
      BY <2>1, <2>3, <2>5, <2>6, <3>1, FilledSound
    <3> QED BY <1>2, <2>2, <2>3, <2>7, <3>2
  <2>9. \A z : Planned(new, z) = Planned(o, z) - IF z = s THEN amount ELSE 0
    BY <1>2, <2>2, <2>4, <2>7, FilledPlan
  <2>10. FitOrder(new)
    BY <1>2, <2>2, <2>4, FilledOrder
  <2>11. Orderly(n.ord) /\ Orderly(orders) /\ orders[x] = new /\ \A y \in Orders \ {x} : orders[y] = n.ord[y]
    BY <1>2, <2>1, <2>10 DEF Matches, Orderly
  <2>12. ASSUME NEW z \in Securities
         PROVE  b.position[z].quantity + PlanFor(orders, z) = acct.position[z].quantity + PlanFor(ord, z)
    <3>1. PICK old : old = n.ord
      OBVIOUS
    <3>2. PlanFor(orders, z) - Planned(orders[x], z) = PlanFor(old, z) - Planned(old[x], z)
      BY <2>1, <2>11, <3>1, PlanChanges
    <3>3. PlanFor(orders, z) \in Int /\ PlanFor(old, z) \in Int
      BY <2>11, <3>1, PlansAre
    <3>4. Planned(o, z) \in Int /\ old[x] = o
      <4>1. Rest(o) \in Nat
        BY <2>2, RestIsLeft
      <4>2. Planned(o, z) \in Int
        BY <4>1 DEF Planned, Signed
      <4> QED BY <1>1, <3>1, <4>2
    <3>5. PICK k \in Int : k = IF z = s THEN amount ELSE 0
      BY <2>7
    <3>6. Planned(orders[x], z) = Planned(o, z) - k
      BY <2>9, <2>11, <3>5
    <3>7. b.position[z].quantity = a.position[z].quantity + k
      BY <2>8, <3>5 DEF Traded
    <3>8. a.position[z].quantity \in Nat
      BY <2>6, SoundHolding
    <3>9. a.position[z].quantity + PlanFor(old, z) = acct.position[z].quantity + PlanFor(ord, z)
      BY <1>1, <3>1 DEF Gains
    <3>10. PlanFor(orders, z) = PlanFor(old, z) - k
      BY <3>2, <3>3, <3>4, <3>5, <3>6
    <3> QED BY <3>3, <3>5, <3>7, <3>8, <3>9, <3>10
  <2>13. \A i \in DOMAIN Actions : SameRight(b.action[i], acct.action[i])
    BY <2>6, <2>8 DEF Traded, SameRight
  <2> QED
    BY <1>5, <2>8, <2>12, <2>13 DEF Gains
<1> QED
  BY <1>3, <1>4, <1>5

\* Matches and gains go together through the orders of a bar.
LEMMA GainsAll ==
  ASSUME Orderly(ord), HasBooks(acct), Agrees(acct, ord), bought \in [Securities -> Nat], Sound(acct),
         NEW s \in Securities, NEW bar \in Markets, NEW share \in Int
  PROVE  Gains(MatchedBy(s, bar, share))
<1> DEFINE base == [a |-> acct, ord |-> ord, share |-> share, bought |-> bought[s], changed |-> {}]
           C == CHOOSE F : Matched(F, s, bar, base)
           S == EligibleFor(s)
           m == MatchedBy(s, bar, share)
<1>1. m = C[S]
  BY DEF MatchedBy, Ascending, MapThenFoldSet, Matched
<1>2. \A F : Folds(F, Matching(bar), base, S) <=> Matched(F, s, bar, base)
  BY DEF Folds, Matched, Matching, OneMore, Taking
<1>0. S \in SUBSET Orders /\ IsFiniteSet(S) /\ S \subseteq Int
  <2>1. S \in SUBSET Orders
    BY DEF EligibleFor, Live
  <2> QED BY <2>1, OrdersFinite
<1>3. \E F : Matched(F, s, bar, base)
  <2> HIDE DEF S, base
  <2> QED BY <1>0, <1>2, FoldExists, Chosen
<1>4. Matched(C, s, bar, base)
  BY <1>3
<1> HIDE DEF C, m
<1>5. \A t \in SUBSET S : C[t] = IF t = {} THEN base ELSE MatchOne(C[t \ {Max(t)}], Max(t), bar)
  BY <1>4 DEF Matched
<1> DEFINE Bad == {t \in SUBSET S : ~ (Matches(C[t], t, s) /\ Gains(C[t]))}
<1>6. ASSUME Bad # {} PROVE FALSE
  <2>1. PICK p \in Bad : \A t \in Bad : t \subseteq p => t = p
    <3>1. Bad \subseteq SUBSET S /\ IsFiniteSet(S)
      BY <1>0, SMTT(40)
    <3> HIDE DEF Bad, S
    <3> QED BY <1>6, <3>1, SmallestSet
  <2>2. Matches(base, {}, s) /\ Gains(base)
    BY DEF Matches, Gains, SameRight
  <2>3. p # {}
    BY <1>5, <2>2
  <2> DEFINE x == Max(p)
             t == p \ {x}
  <2>4. x \in p
    BY <1>0, <2>3, GreatestNumber
  <2>5. t \in SUBSET S /\ t \notin Bad
    BY <2>1, <2>4
  <2>6. Matches(C[t], t, s) /\ Gains(C[t])
    BY <2>5
  <2>7. C[p] = MatchOne(C[t], x, bar)
    BY <1>5, <2>3
  <2>8. x \in S \ t /\ p = t \cup {x}
    BY <2>4
  <2> DEFINE n == C[t]
  <2> HIDE DEF x, t
  <2>9. Matches(n, t, s) /\ Gains(n) /\ C[p] = MatchOne(n, x, bar)
    BY <2>6, <2>7
  <2> HIDE DEF n
  <2>10. Matches(MatchOne(n, x, bar), t \cup {x}, s)
    BY <2>5, <2>8, <2>9, MatchedMore
  <2>11. Gains(MatchOne(n, x, bar))
    BY <2>5, <2>8, <2>9, GainsMore
  <2> QED
    BY <2>8, <2>9, <2>10, <2>11
<1>7. Gains(C[S])
  BY <1>6
<1> QED
  BY <1>1, <1>7 DEF m

-----------------------------------------------------------------------------
(* The books and the goals: what holds between the steps of a run.         *)

\* Where the rights of this session stand.
Stage == IF closed THEN 2 ELSE 1

\* The account is sound, and no right is late: a session that is over was
\* closed, and its bars come before its close.
BooksInv ==
  /\ Sound(acct) /\ Timely(acct, Stage)
  /\ time \in 0..(Close + 1) /\ host \in BOOLEAN /\ closed \in BOOLEAN
  /\ due \subseteq Securities /\ halted \subseteq Securities /\ mark \in [Securities -> Nat]
  /\ at \in {"after", "gap"} /\ acct.day > 0 => closed
  /\ acct.day = 0 => ~ closed /\ at = "gap"
  /\ at = "market" => ~ closed

\* A target that still stands is what is held and planned.
Met(goals, a, orders, s) ==
  goals[s] # NoGoal => a.position[s].quantity + PlanFor(orders, s) = goals[s].quantity
GoalInv == DOMAIN goal = Securities /\ \A s \in Securities : Met(goal, acct, ord, s)

\* From a to b every right stands as it stood.
SameFlags(a, b) == b.day = a.day /\ \A i \in DOMAIN Actions : FlagsOf(b.action[i]) = FlagsOf(a.action[i])

LEMMA TimelyStays ==
  ASSUME NEW a, NEW b, SameFlags(a, b), NEW k, Timely(a, k)
  PROVE  Timely(b, k)
  BY StandsSame DEF SameFlags, Timely

LEMMA BooksStay ==
  ASSUME BooksInv, Sound(acct'), SameFlags(acct, acct'), closed' = closed,
         time' \in 0..(Close + 1), host' \in BOOLEAN, due' \subseteq Securities,
         halted' \subseteq Securities, mark' \in [Securities -> Nat],
         at = "gap" => at' = "gap", at' = "gap" => at \in {"after", "gap"},
         at' = "after" => closed \/ at = "after", at' = "market" => ~ closed
  PROVE  BooksInv'
<1>1. Timely(acct', Stage) /\ acct'.day = acct.day
  BY TimelyStays DEF BooksInv, SameFlags
<1>2. Stage' = Stage
  BY DEF Stage
<1>3. Timely(acct, Stage)'
  BY <1>1, <1>2
<1> QED
  BY <1>1, <1>3 DEF BooksInv

LEMMA GoalStays ==
  ASSUME GoalInv, goal' = goal, ord' = ord,
         \A s \in Securities : acct'.position[s].quantity = acct.position[s].quantity
  PROVE  GoalInv'
  BY DEF GoalInv, Met

LEMMA NoFlagsMove == ASSUME acct' = acct PROVE SameFlags(acct, acct')
  BY DEF SameFlags

LEMMA BooksStart == Init => BooksInv /\ GoalInv
<1> SUFFICES ASSUME Init PROVE BooksInv /\ GoalInv
  OBVIOUS
<1>1. Sound(acct) /\ acct.day = 0
  BY NewSound DEF Init, NewAccount
<1>2. Timely(acct, Stage)
  <2>1. Stage = 1
    BY DEF Init, Stage
  <2>2. ASSUME NEW i \in DOMAIN Actions PROVE Stands(acct.action[i], i, 0, 1)
    <3>1. acct.action[i] = NoAction
      BY DEF Init, NewAccount
    <3>2. ~ RecordedBy(i, 0, 1) /\ ~ BegunBy(i, 0, 1) /\ ~ PaidBy(i, 0, 1)
      BY ActionTimes DEF RecordedBy, BegunBy, PaidBy
    <3> QED BY <3>1, <3>2 DEF Stands, NoAction
  <2> QED BY <1>1, <2>1, <2>2 DEF Timely
<1>3. 0 \in 0..(Close + 1) /\ mark \in [Securities -> Nat]
  BY EngineShape DEF Init, Close
<1>4. BooksInv
  <2>1. /\ at = "gap" /\ time = 0 /\ host = FALSE /\ closed = FALSE /\ due = {} /\ halted = {}
    BY DEF Init
  <2>2. time \in 0..(Close + 1) /\ ~ (acct.day > 0)
    BY <1>1, <1>3, <2>1
  <2>3. /\ host \in BOOLEAN /\ closed \in BOOLEAN /\ ~ closed
        /\ due \subseteq Securities /\ halted \subseteq Securities /\ at # "market"
    BY <2>1
  <2> QED BY <1>1, <1>2, <1>3, <2>1, <2>2, <2>3 DEF BooksInv
<1>5. GoalInv
  BY DEF GoalInv, Met, Init
<1> QED BY <1>4, <1>5

\* Steps of the strategy and the driver that change no order and no account.
LEMMA QuietBooks ==
  ASSUME EngineInv, BooksInv, GoalInv, Notify \/ Call \/ Return \/ Timer \/ EndSession
  PROVE  BooksInv' /\ GoalInv'
<1>1. UNCHANGED <<acct, ord, goal, closed, due, halted, mark>> /\ host' \in BOOLEAN
  BY DEF Notify, Call, Return, Timer, EndSession, Clock, Market, BooksInv
<1>2. Sound(acct') /\ SameFlags(acct, acct')
  BY <1>1, NoFlagsMove DEF BooksInv
<1>3. time' \in 0..(Close + 1)
  <2>1. CASE UNCHANGED time
    BY <2>1 DEF BooksInv
  <2>2. CASE Timer
    BY <2>2, EngineShape DEF Timer, BooksInv, Close
  <2> QED BY <2>1, <2>2 DEF Notify, Call, Return, EndSession, Clock
<1>4. \/ at' = at
      \/ at = "after" /\ at' = "gap"
  BY DEF Notify, Call, Return, Timer, EndSession, Clock
<1>5. BooksInv'
  BY <1>1, <1>2, <1>3, <1>4, BooksStay DEF BooksInv
<1> QED
  BY <1>1, <1>5, GoalStays

LEMMA BoundaryBooks ==
  ASSUME EngineInv, BooksInv, GoalInv, NEW S \in SUBSET Securities, Boundary(S)
  PROVE  BooksInv' /\ GoalInv'
<1>1. /\ UNCHANGED <<acct, ord, goal, closed, host, halted, mark>> /\ due' = S
      /\ at = "calls" /\ at' = "market" /\ ~ closed
  BY DEF Boundary, Market
<1>2. Sound(acct') /\ SameFlags(acct, acct')
  BY <1>1, NoFlagsMove DEF BooksInv
<1>3. time' \in 0..(Close + 1)
  BY EngineShape DEF Boundary, BooksInv, Close
<1>4. BooksInv'
  BY <1>1, <1>2, <1>3, BooksStay DEF BooksInv
<1> QED
  BY <1>1, <1>4, GoalStays

\* The close of a session records and pays what is due.
LEMMA CloseBooks ==
  ASSUME EngineInv, BooksInv, GoalInv, Barrier \/ CloseEmpty
  PROVE  BooksInv' /\ GoalInv'
<1>1. /\ UNCHANGED <<ord, goal, host, due, halted, mark>> /\ at' = "calls" /\ at # "gap" /\ ~ closed
      /\ time' \in 0..(Close + 1) /\ closed' \in BOOLEAN
      /\ closed' => Closing
      /\ ~ closed' => acct' = acct
  <2>1. Close \in Nat
    BY EngineShape DEF Close
  <2>2. time \in 0..(Close + 1) /\ Close \in 0..(Close + 1)
    BY <2>1 DEF BooksInv
  <2>3. CASE Barrier
    BY <2>2, <2>3 DEF Barrier, Market, BooksInv
  <2>4. CASE CloseEmpty
    BY <2>2, <2>4 DEF CloseEmpty, Market
  <2> QED BY <2>3, <2>4
<1>2. CASE ~ closed'
  <2>1. Sound(acct') /\ SameFlags(acct, acct') /\ closed' = closed
    BY <1>1, <1>2, NoFlagsMove DEF BooksInv
  <2>2. BooksInv'
    BY <1>1, <2>1, BooksStay DEF BooksInv
  <2> QED BY <1>1, <1>2, <2>2, GoalStays
<1>3. CASE closed'
  <2>1. PICK n : n = Advance(acct, "close")
    OBVIOUS
  <2>2. acct' = n.a
    BY <1>1, <1>3, <2>1 DEF Closing
  <2>3. Sound(acct) /\ Timely(acct, 1) /\ PhaseOf(2) = "close"
    BY <1>1 DEF BooksInv, Stage, PhaseOf
  <2>4. /\ n.ok => /\ Sound(n.a) /\ Timely(n.a, 2) /\ n.a.day = acct.day
                   /\ \A z \in Securities \ Struck(acct.day, "close") :
                        n.a.position[z].quantity = acct.position[z].quantity
        /\ n.ok
    <3>1. PICK k \in {1, 2} : k = 2 /\ Timely(acct, k - 1) /\ PhaseOf(k) = "close"
      BY <2>3
    <3>2. /\ k = 2 => n.ok
          /\ n.ok => /\ Sound(n.a) /\ Timely(n.a, k) /\ n.a.day = acct.day
                     /\ \A z \in Securities \ Struck(acct.day, PhaseOf(k)) :
                          n.a.position[z].quantity = acct.position[z].quantity
      BY <2>1, <2>3, <3>1, AdvanceSound
    <3> QED BY <3>1, <3>2
  <2>5. \A z \in Securities : acct'.position[z].quantity = acct.position[z].quantity
    BY <2>2, <2>4 DEF Struck
  <2>6. Timely(acct, Stage)'
    BY <1>3, <2>2, <2>4 DEF Stage
  <2>7. acct'.day = acct.day /\ Sound(acct')
    BY <2>2, <2>4
  <2>8. BooksInv'
    BY <1>1, <2>6, <2>7 DEF BooksInv
  <2> QED BY <1>1, <2>5, <2>8, GoalStays
<1> QED
  BY <1>1, <1>2, <1>3

\* Where shares are held as before, rights stand as before.
LEMMA SharesFlags ==
  ASSUME NEW a, NEW b, SameShares(a, b)
  PROVE  SameFlags(a, b)
  BY DEF SameShares, SameFlags

\* When orders end, the targets they were part of are given up.
LEMMA UndoneMet ==
  ASSUME GoalInv, NEW S \in SUBSET Orders, NEW status \in {"filled", "cancelled", "expired"},
         NEW new, new = EndAs(S, status, ord), NEW a, NEW s \in Securities,
         a.position[s].quantity = acct.position[s].quantity
  PROVE  DOMAIN Undone(S) = Securities /\ Met(Undone(S), a, new, s)
<1>1. /\ DOMAIN Undone(S) = Securities
      /\ Undone(S)[s] = IF \E id \in S : ord[id].s = s THEN NoGoal ELSE goal[s]
  BY DEF Undone
<1>2. CASE \E id \in S : ord[id].s = s
  BY <1>1, <1>2 DEF Met
<1>3. CASE ~ \E id \in S : ord[id].s = s
  <2>1. PlanFor(new, s) = PlanFor(ord, s)
    BY <1>3, EndedPlan
  <2> QED BY <1>1, <1>3, <2>1 DEF Met, GoalInv
<1> QED BY <1>2, <1>3

LEMMA EndsMeet ==
  ASSUME GoalInv, NEW S \in SUBSET Orders, NEW status \in {"filled", "cancelled", "expired"},
         SameShares(acct, acct'), ord' = EndAs(S, status, ord), goal' = Undone(S)
  PROVE  GoalInv'
<1>1. PICK a, new, goals : a = acct' /\ new = ord' /\ goals = goal'
  OBVIOUS
<1>2. \A s \in Securities : a.position[s].quantity = acct.position[s].quantity
  BY <1>1 DEF SameShares
<1>3. \A s \in Securities : DOMAIN Undone(S) = Securities /\ Met(Undone(S), a, new, s)
  BY <1>1, <1>2, UndoneMet
<1>4. DOMAIN goals = Securities /\ \A s \in Securities : Met(goals, a, new, s)
  BY <1>1, <1>3 DEF Undone
<1> QED
  BY <1>1, <1>4 DEF GoalInv

LEMMA CancelBooks ==
  ASSUME EngineInv, BooksInv, GoalInv, NEW x \in Orders, Cancel(x)
  PROVE  BooksInv' /\ GoalInv'
<1>1. /\ acct' = Release(acct, x) /\ ord' = EndAs({x}, "cancelled", ord) /\ goal' = Undone({x})
      /\ UNCHANGED <<at, time, due, closed, host, halted, mark>>
  BY DEF Cancel, Clock, Market
<1>2. Sound(acct') /\ SameShares(acct, acct')
  BY <1>1, ReleaseSound DEF BooksInv
<1>3. BooksInv'
  BY <1>1, <1>2, SharesFlags, BooksStay DEF BooksInv
<1>4. {x} \in SUBSET Orders
  OBVIOUS
<1>5. GoalInv'
  BY <1>1, <1>2, <1>4, EndsMeet
<1> QED BY <1>3, <1>5

LEMMA ExpireBooks ==
  ASSUME EngineInv, BooksInv, GoalInv, Expire
  PROVE  BooksInv' /\ GoalInv'
<1>1. PICK S \in SUBSET Orders :
        /\ at = "calls" /\ at' = "after" /\ time' = Close + 1 /\ closed
        /\ acct' = FreedOf(acct, S) /\ ord' = EndAs(S, "expired", ord) /\ goal' = Undone(S)
        /\ UNCHANGED <<due, closed, host, halted, mark>>
  <2>1. PICK S : S = {id \in Orders : Active(ord[id]) /\ ord[id].tif = "day" /\ ord[id].effective = acct.day}
    OBVIOUS
  <2>2. S \in SUBSET Orders
    BY <2>1
  <2> QED BY <2>1, <2>2 DEF Expire, Market, Freed
<1>2. Sound(acct') /\ SameShares(acct, acct')
  BY <1>1, FreedSound DEF BooksInv
<1>3. Close + 1 \in 0..(Close + 1)
  BY EngineShape DEF Close
<1>4. BooksInv'
  BY <1>1, <1>2, <1>3, SharesFlags, BooksStay DEF BooksInv
<1>5. GoalInv'
  BY <1>1, <1>2, EndsMeet
<1> QED BY <1>4, <1>5

\* A session begins with every right up to date, and with the targets that no
\* ex session and no halt has overtaken.
LEMMA OpenBooks ==
  ASSUME EngineInv, BooksInv, GoalInv, NEW stopped \in SUBSET Halting, Open(stopped)
  PROVE  BooksInv' /\ GoalInv'
<1>1. PICK day, st, n : day = acct.day + 1 /\ st = Settle(acct, day) /\ n = Advance(st, "open")
  OBVIOUS
<1>2. PICK dropped, a : /\ dropped = n.ended \cup {id \in Orders : Active(ord[id]) /\ ord[id].s \in stopped}
                        /\ a = FreedOf(n.a, dropped \ n.ended)
  OBVIOUS
<1>3. /\ at = "gap" /\ day <= Sessions /\ n.ok
      /\ at' = "calls" /\ time' = 0 /\ closed' = FALSE /\ halted' = stopped /\ mark' = MarkAt(day)
      /\ acct' = a /\ ord' = EndAs(dropped, "cancelled", ord) /\ UNCHANGED <<host, due>>
      /\ goal' = [s \in Securities |-> IF \E i \in ExToday(day) : Actions[i].s = s THEN NoGoal
                                      ELSE Undone(dropped)[s]]
  BY <1>1, <1>2 DEF Open, Freed
<1>4. Sound(acct) /\ acct.day \in Nat /\ day \in Nat /\ day > 0 /\ Sessions \in Nat
  BY <1>1, AccountShape DEF BooksInv, EngineInv, HasBooks
<1>5. Sound(st) /\ st.action = acct.action /\ st.position = acct.position /\ st.day = day
  BY <1>1, <1>3, <1>4, SettleSound
<1>6. Timely(st, 0)
  <2>1. PICK k \in {1, 2} : k = Stage
    BY DEF Stage
  <2>2. k = 2 \/ (acct.day = 0 /\ k = 1)
    BY <1>3, <1>4, <2>1 DEF BooksInv, Stage
  <2>3. PICK e \in Nat : e = acct.day /\ st.day = e + 1
    BY <1>1, <1>4, <1>5
  <2> QED BY <1>5, <2>1, <2>2, <2>3, TimelyNext DEF BooksInv
<1>7. /\ Sound(n.a) /\ Timely(n.a, 1) /\ n.a.day = day
      /\ \A z \in Securities \ Struck(day, "open") : n.a.position[z].quantity = acct.position[z].quantity
  <2>1. PICK k \in {1, 2} : k = 1 /\ Timely(st, k - 1) /\ PhaseOf(k) = "open"
    BY <1>6 DEF PhaseOf
  <2>2. n.ok => /\ Sound(n.a) /\ Timely(n.a, k) /\ n.a.day = st.day
                /\ \A z \in Securities \ Struck(st.day, PhaseOf(k)) :
                     n.a.position[z].quantity = st.position[z].quantity
    BY <1>1, <1>5, <2>1, AdvanceSound
  <2> QED BY <1>3, <1>5, <2>1, <2>2
<1>8. dropped \in SUBSET Orders
  <2>1. Ends(st, n)
    BY <1>1, <1>5, AccountMade, Advanced DEF Sound
  <2> QED BY <1>2, <2>1 DEF Ends
<1>9. Sound(a) /\ SameShares(n.a, a)
  <2>1. PICK m, S : m = n.a /\ S = dropped \ n.ended
    OBVIOUS
  <2>2. S \in SUBSET Orders /\ Sound(m) /\ a = FreedOf(m, S)
    BY <1>2, <1>7, <1>8, <2>1
  <2>3. Sound(a) /\ SameShares(m, a)
    BY <2>2, FreedSound
  <2> QED BY <2>1, <2>3
<1>10. Timely(a, 1) /\ a.day = day
  <2>1. PICK m : m = n.a
    OBVIOUS
  <2>2. SameFlags(m, a) /\ Timely(m, 1)
    BY <1>7, <1>9, <2>1, SharesFlags
  <2> QED BY <1>7, <2>1, <2>2, TimelyStays DEF SameFlags
<1>11. mark' \in [Securities -> Nat]
  <2> SUFFICES ASSUME NEW s \in Securities PROVE MarkAt(day)[s] \in Nat
    BY <1>3 DEF MarkAt
  <2>1. PICK E \in SUBSET DOMAIN Actions : E = {i \in ExToday(day) : Actions[i].s = s}
    BY DEF ExToday
  <2>2. MarkAt(day)[s] = IF E = {} THEN mark[s] ELSE Actions[Max(E)].mark
    BY <2>1 DEF MarkAt
  <2>3. E # {} => Max(E) \in E
    BY ActionsFinite, GreatestNumber
  <2>4. \A i \in E : Actions[i].mark \in Nat
    BY ActionShape
  <2> QED BY <2>2, <2>3, <2>4 DEF BooksInv
<1>12. BooksInv'
  <2>1. stopped \subseteq Securities /\ 0 \in 0..(Close + 1)
    BY EngineShape DEF Close
  <2>2. Timely(acct, Stage)'
    BY <1>3, <1>10 DEF Stage
  <2>3. due' \subseteq Securities /\ host' \in BOOLEAN
    BY <1>3 DEF BooksInv
  <2>4. acct'.day # 0
    BY <1>3, <1>4, <1>10
  <2>5. closed' \in BOOLEAN /\ ~ closed' /\ at' = "calls"
    BY <1>3
  <2>6. time' \in 0..(Close + 1) /\ halted' \subseteq Securities
    BY <1>3, <2>1
  <2> QED BY <1>3, <1>9, <1>11, <2>2, <2>3, <2>4, <2>5, <2>6 DEF BooksInv
<1>13. GoalInv'
  <2>1. PICK new, goals : new = ord' /\ goals = goal'
    OBVIOUS
  <2>2. ASSUME NEW s \in Securities PROVE Met(goals, a, new, s)
    <3>1. CASE \E i \in ExToday(day) : Actions[i].s = s
      BY <1>3, <2>1, <3>1 DEF Met
    <3>2. CASE ~ \E i \in ExToday(day) : Actions[i].s = s
      <4>1. s \in Securities \ Struck(day, "open")
        BY <3>2 DEF Struck, ExToday
      <4>2. a.position[s].quantity = acct.position[s].quantity
        BY <1>7, <1>9, <4>1 DEF SameShares
      <4>3. Met(Undone(dropped), a, new, s)
        BY <1>3, <1>8, <2>1, <4>2, UndoneMet
      <4>4. goals[s] = Undone(dropped)[s]
        BY <1>3, <2>1, <3>2
      <4> QED BY <4>3, <4>4 DEF Met
    <3> QED BY <3>1, <3>2
  <2>3. DOMAIN goals = Securities
    BY <1>3, <2>1
  <2> QED BY <1>3, <2>1, <2>2, <2>3 DEF GoalInv
<1> QED BY <1>12, <1>13

\* A bar moves shares from what is planned to what is held.
LEMMA MatchBooks ==
  ASSUME EngineInv, BooksInv, GoalInv, NEW s \in Securities, NEW bar \in Markets, MatchBar(s, bar)
  PROVE  BooksInv' /\ GoalInv'
<1>1. PICK share \in Int : share = IF s \in halted THEN 0 ELSE bar.share
  BY EngineShape
<1>2. PICK m : m = MatchedBy(s, bar, share)
  OBVIOUS
<1>3. /\ acct' = m.a /\ ord' = m.ord /\ mark' = [mark EXCEPT ![s] = bar.close] /\ due' = due \ {s}
      /\ at = "market" /\ UNCHANGED <<at, time, host, closed, halted, goal>>
  BY <1>1, <1>2 DEF MatchBar, MatchedBy
<1>4. Matches(m, EligibleFor(s), s) /\ Gains(m)
  BY <1>2, MatchedAll, GainsAll DEF EngineInv, BooksInv
<1>5. Sound(acct') /\ SameFlags(acct, acct')
  <2>1. \A i \in DOMAIN Actions : FlagsOf(m.a.action[i]) = FlagsOf(acct.action[i])
    BY <1>4 DEF Gains, SameRight, FlagsOf
  <2> QED BY <1>3, <1>4, <2>1 DEF Gains, Matches, SameFlags
<1>6. mark' \in [Securities -> Nat]
  BY <1>3, EngineShape DEF BooksInv
<1>7. BooksInv'
  BY <1>3, <1>5, <1>6, BooksStay DEF BooksInv
<1>8. GoalInv'
  BY <1>3, <1>4 DEF GoalInv, Met, Gains
<1> QED BY <1>7, <1>8

-----------------------------------------------------------------------------
(* A submission: a target that is promised is what is held and ordered.    *)

\* What an order asks for fits in a reservation.
LEMMA WantedFits ==
  ASSUME BooksInv, NEW c, Asked(c), NEW quantity \in Nat
  PROVE  NewReservation(Wanted(c, quantity))
<1>1. c.s \in Securities /\ c.limit \in Nat /\ Estimate(c) \in Nat /\ Side(c) \in {"buy", "sell"}
  BY EngineShape DEF Asked, Estimate, BooksInv, Side
<1>2. PICK none \in ReservationSet : none = NoReservation /\ none.notional = 0 /\ none.paid = 0 /\ none.cash = 0
  BY NoReservationFits DEF NoReservation
<1>3. PICK w : w = [none EXCEPT !.side = Side(c), !.s = c.s, !.left = quantity, !.estimate = Estimate(c), !.limit = c.limit]
  OBVIOUS
<1>4. w = Wanted(c, quantity)
  BY <1>2, <1>3 DEF Wanted
<1>5. w \in ReservationSet /\ w.side = Side(c) /\ w.s = c.s /\ w.notional = 0 /\ w.paid = 0 /\ w.cash = 0
  BY <1>1, <1>2, <1>3 DEF ReservationSet
<1> QED
  BY <1>1, <1>4, <1>5 DEF NewReservation

\* The position a target starts from is what is held and still planned when
\* the orders it replaces have ended.
LEMMA BasePlan ==
  ASSUME EngineInv, NEW c, Targets(c), NEW old, old = EndAs(Replaces(c), "cancelled", ord)
  PROVE  Base(c) = acct.position[c.s].quantity + PlanFor(old, c.s)
<1>1. PICK T \in SUBSET Orders : T = Live(c.s) \ Replaces(c)
  BY DEF Live
<1>2. Replaces(c) \in SUBSET Orders /\ \A id \in T : old[id] = ord[id]
  BY <1>1 DEF Replaces, Live, EndAs
<1>3. Orderly(old)
  BY <1>2, EndedBids DEF EngineInv
<1>4. PlansOnly(old, T, c.s)
  <2>1. \A id \in Orders : Planned(old[id], c.s) = IF id \in Replaces(c) THEN 0 ELSE Planned(ord[id], c.s)
    BY <1>2, EndedPlan
  <2> QED BY <1>1, <1>2, <2>1 DEF PlansOnly, Live, Planned
<1>5. SumFunction([id \in T |-> Signed(old[id])]) = PlanFor(old, c.s)
  BY <1>3, <1>4, PlanIs
<1>6. [id \in T |-> Signed(ord[id])] = [id \in T |-> Signed(old[id])]
  BY <1>2
<1>7. Base(c) = acct.position[c.s].quantity + SumFunction([id \in T |-> Signed(ord[id])])
  BY <1>1 DEF Base, Total
<1> QED
  BY <1>5, <1>6, <1>7

\* Only the security of the intent has another plan, and its own target.
LEMMA PromiseMet ==
  ASSUME GoalInv, NEW c, Asked(c), NEW quantity, Promise(c, quantity),
         \A z \in Securities : acct'.position[z].quantity = acct.position[z].quantity,
         \A z \in Securities \ {c.s} : PlanFor(ord', z) = PlanFor(ord, z),
         Targets(c) => acct.position[c.s].quantity + PlanFor(ord', c.s) = Toward(c, quantity)
  PROVE  GoalInv'
<1>1. PICK g : g = IF Targets(c) THEN [quantity |-> Toward(c, quantity), effective |-> Effective] ELSE NoGoal
  OBVIOUS
<1>2. goal' = [goal EXCEPT ![c.s] = g]
  BY <1>1 DEF Promise
<1>3. DOMAIN goal' = Securities /\ goal'[c.s] = g /\ \A z \in Securities \ {c.s} : goal'[z] = goal[z]
  BY <1>2 DEF GoalInv, Asked
<1>4. g = NoGoal \/ (Targets(c) /\ g.quantity = Toward(c, quantity))
  BY <1>1
<1>5. ASSUME NEW z \in Securities PROVE Met(goal', acct', ord', z)
  <2>1. CASE z = c.s
    BY <1>3, <1>4, <2>1 DEF Met, Asked
  <2>2. CASE z # c.s
    BY <1>3, <2>2 DEF Met, GoalInv
  <2> QED BY <2>1, <2>2
<1> QED
  BY <1>3, <1>5 DEF GoalInv

\* What is replaced is of the security of the intent.
LEMMA ReplacedPlan ==
  ASSUME NEW c, NEW old, old = EndAs(Replaces(c), "cancelled", ord), NEW z, z # c.s
  PROVE  PlanFor(old, z) = PlanFor(ord, z)
<1>1. Replaces(c) \in SUBSET Orders /\ \A id \in Replaces(c) : ord[id].s # z
  BY DEF Replaces, Live
<1> QED
  BY <1>1, EndedPlan

LEMMA CoveredBooks ==
  ASSUME EngineInv, BooksInv, GoalInv, NEW c, Asked(c), SubmitCovered(c)
  PROVE  BooksInv' /\ GoalInv'
<1>1. PICK a, quantity, old : /\ a = Freed(acct, Replaces(c)) /\ quantity = Quantity(c, a)
                              /\ old = EndAs(Replaces(c), "cancelled", ord)
  OBVIOUS
<1>2. /\ UNCHANGED <<at, time, due, closed, host, acct, ord, halted, mark>> /\ Targets(c)
      /\ \/ Keeps(c, quantity) /\ \E id \in Replaces(c) : Promise(c, Rest(ord[id]))
         \/ quantity = 0 /\ Replaces(c) = {} /\ Promise(c, 0)
  BY <1>1 DEF SubmitCovered, Clock, Market
<1>3. BooksInv'
  BY <1>2, NoFlagsMove, BooksStay DEF BooksInv
<1>4. /\ Base(c) = acct.position[c.s].quantity + PlanFor(old, c.s)
      /\ acct.position[c.s].quantity \in Nat
  BY <1>1, <1>2, BasePlan, SoundHolding DEF BooksInv, Asked
<1>5. Orderly(ord) /\ Orderly(old) /\ Replaces(c) \in SUBSET Orders
  <2>1. Replaces(c) \in SUBSET Orders
    BY DEF Replaces, Live
  <2> QED BY <1>1, <2>1, EndedBids DEF EngineInv
<1>6. CASE Keeps(c, quantity) /\ \E id \in Replaces(c) : Promise(c, Rest(ord[id]))
  <2>1. PICK x \in Orders : Replaces(c) = {x} /\ ord[x].side = Side(c) /\ Promise(c, Rest(ord[x]))
    BY <1>5, <1>6 DEF Keeps
  <2>2. Active(ord[x]) /\ ord[x].s = c.s
    BY <2>1 DEF Replaces, Live
  <2>3. Rest(ord[x]) \in Nat /\ FitOrder(ord[x])
    BY <1>5, RestIsLeft DEF Orderly
  <2>4. PICK k \in Int : k = (IF Side(c) = "buy" THEN Rest(ord[x]) ELSE -Rest(ord[x]))
    BY <2>3
  <2>5. Planned(ord[x], c.s) = k /\ Toward(c, Rest(ord[x])) = Base(c) + k
    BY <2>1, <2>2, <2>4 DEF Planned, Signed, Toward
  <2>6. \A y \in Orders \ {x} : old[y] = ord[y]
    BY <1>1, <2>1 DEF EndAs
  <2>7. Planned(old[x], c.s) = 0
    BY <1>1, <1>5, <2>1, EndedPlan
  <2>8. PlanFor(old, c.s) - 0 = PlanFor(ord, c.s) - k
    BY <1>5, <2>5, <2>6, <2>7, PlanChanges
  <2>9. PlanFor(old, c.s) \in Int /\ PlanFor(ord, c.s) \in Int
    BY <1>5, PlansAre
  <2>10. acct.position[c.s].quantity + PlanFor(ord, c.s) = Toward(c, Rest(ord[x]))
    BY <1>4, <2>4, <2>5, <2>8, <2>9
  <2>11. GoalInv'
    BY <1>2, <2>1, <2>10, PromiseMet
  <2> QED BY <1>3, <2>11
<1>7. CASE quantity = 0 /\ Replaces(c) = {} /\ Promise(c, 0)
  <2>1. PlanFor(old, c.s) = PlanFor(ord, c.s)
    BY <1>1, <1>5, <1>7, EndedPlan
  <2>2. PlanFor(ord, c.s) \in Int
    BY <1>5, PlansAre
  <2>3. Toward(c, 0) = Base(c) + 0
    BY DEF Toward
  <2>4. acct.position[c.s].quantity + PlanFor(ord, c.s) = Toward(c, 0)
    BY <1>4, <2>1, <2>2, <2>3
  <2>5. GoalInv'
    BY <1>2, <1>7, <2>4, PromiseMet
  <2> QED BY <1>3, <2>5
<1> QED BY <1>2, <1>6, <1>7

\* A new order is planned for all of its shares.
LEMMA PlacedPlan ==
  ASSUME NEW c, NEW quantity, NEW a, NEW old, Orderly(old), NEW b, NEW new, new = Placed(old, c, quantity),
         Given(c, quantity, a, old, new, b), NEW z
  PROVE  PlanFor(new, z) = PlanFor(old, z) +
           IF z = c.s THEN (IF Side(c) = "buy" THEN quantity ELSE -quantity) ELSE 0
<1>1. PICK x : x = NextOrder
  OBVIOUS
<1>2. /\ x \in Orders /\ Orderly(new) /\ quantity \in Nat /\ ~ Active(old[x])
      /\ \A y \in Orders \ {x} : new[y] = old[y]
  BY <1>1 DEF Given
<1>3. new[x] = NewOrder(c, quantity)
  BY <1>1, <1>2 DEF Placed, Orderly
<1>4. PICK k \in Int : k = IF z = c.s THEN (IF Side(c) = "buy" THEN quantity ELSE -quantity) ELSE 0
  BY <1>2
<1>5. Planned(new[x], z) = k
  <2>1. /\ NewOrder(c, quantity).s = c.s /\ NewOrder(c, quantity).side = Side(c)
        /\ Active(NewOrder(c, quantity)) /\ Rest(NewOrder(c, quantity)) = quantity
    BY <1>2 DEF NewOrder, Active, Rest
  <2> QED BY <1>3, <1>4, <2>1 DEF Planned, Signed
<1>6. Planned(old[x], z) = 0
  BY <1>2 DEF Planned
<1>7. PlanFor(new, z) - Planned(new[x], z) = PlanFor(old, z) - Planned(old[x], z)
  BY <1>2, PlanChanges
<1>8. PlanFor(new, z) \in Int /\ PlanFor(old, z) \in Int
  BY <1>2, PlansAre
<1>9. PlanFor(new, z) = PlanFor(old, z) + k
  BY <1>4, <1>5, <1>6, <1>7, <1>8
<1> QED BY <1>4, <1>9

LEMMA SubmitBooks ==
  ASSUME EngineInv, BooksInv, GoalInv, NEW c, Asked(c), Submit(c)
  PROVE  BooksInv' /\ GoalInv'
<1>1. PICK R, a, quantity, old : /\ R = Replaces(c) /\ a = Freed(acct, R) /\ quantity = Quantity(c, a)
                                 /\ old = EndAs(R, "cancelled", ord)
  OBVIOUS
<1>2. /\ UNCHANGED <<at, time, due, closed, host, halted, mark>> /\ host /\ Promise(c, quantity)
      /\ \/ quantity = 0 /\ R # {} /\ acct' = a /\ ord' = old
         \/ /\ Acceptable(c, a, quantity)
            /\ acct' = Booked(a, c, quantity) /\ ord' = Placed(old, c, quantity)
  BY <1>1 DEF Submit, Clock, Market, Booked, Placed
<1>3. R \in SUBSET Orders /\ \A id \in R : Active(ord[id])
  BY <1>1 DEF Replaces, Live
<1>4. Sound(a) /\ SameShares(acct, a)
  BY <1>1, <1>3, FreedSound DEF BooksInv, Freed
<1>5. /\ HasBooks(a) /\ a.day = acct.day
      /\ \A id \in R : a.reserved[id].side = "none"
      /\ \A id \in Orders \ R : a.reserved[id] = acct.reserved[id]
  BY <1>1, <1>3, FreedAll DEF EngineInv, Freed
<1>6. /\ Orderly(old) /\ Agrees(a, old)
      /\ \A id \in Orders : Active(old[id]) => id \notin R /\ old[id] = ord[id]
  BY <1>1, <1>3, <1>5, SomeEnd
<1>7. /\ \A z \in Securities \ {c.s} : PlanFor(old, z) = PlanFor(ord, z)
      /\ Targets(c) => Base(c) = acct.position[c.s].quantity + PlanFor(old, c.s)
      /\ PlanFor(old, c.s) \in Int /\ c.s \in Securities /\ acct.position[c.s].quantity \in Nat
  <2>1. \A z \in Securities \ {c.s} : PlanFor(old, z) = PlanFor(ord, z)
    BY <1>1, ReplacedPlan
  <2>2. Targets(c) => Base(c) = acct.position[c.s].quantity + PlanFor(old, c.s)
    BY <1>1, BasePlan
  <2>3. PlanFor(old, c.s) \in Int
    BY <1>6, PlansAre
  <2>4. c.s \in Securities /\ acct.position[c.s].quantity \in Nat
    BY SoundHolding DEF BooksInv, Asked
  <2> QED BY <2>1, <2>2, <2>3, <2>4
<1>8. CASE quantity = 0 /\ R # {} /\ acct' = a /\ ord' = old
  <2>1. BooksInv'
    BY <1>2, <1>4, <1>8, SharesFlags, BooksStay DEF BooksInv
  <2>2. Toward(c, quantity) = Base(c) + 0
    BY <1>8 DEF Toward
  <2>3. Targets(c) => acct.position[c.s].quantity + PlanFor(ord', c.s) = Toward(c, quantity)
    BY <1>7, <1>8, <2>2
  <2>4. \A z \in Securities : acct'.position[z].quantity = acct.position[z].quantity
    BY <1>4, <1>8 DEF SameShares
  <2>5. GoalInv'
    BY <1>2, <1>7, <1>8, <2>3, <2>4, PromiseMet
  <2> QED BY <2>1, <2>5
<1>9. CASE /\ Acceptable(c, a, quantity)
           /\ acct' = Booked(a, c, quantity) /\ ord' = Placed(old, c, quantity)
  <2>1. PICK b, new : b = Booked(a, c, quantity) /\ new = Placed(old, c, quantity)
    OBVIOUS
  <2>2. Given(c, quantity, a, old, new, b)
    <3>1. at \in {"calls", "after"}
      BY <1>2 DEF EngineInv
    <3>2. \A id \in Orders : ~ Active(ord[id]) => old[id] = ord[id]
      BY <1>1, <1>3 DEF EndAs
    <3>3. \A id \in Orders : Active(old[id]) => old[id] = ord[id]
      BY <1>6
    <3> QED BY <1>5, <1>6, <1>9, <2>1, <3>1, <3>2, <3>3, OrderGiven
  <2>3. PICK x : x = NextOrder
    OBVIOUS
  <2>4. x \in Orders /\ quantity \in Nat /\ a.reserved[x].side = "none"
    BY <1>6, <2>2, <2>3 DEF Given, Agrees
  <2>5. PICK w : w = Wanted(c, quantity)
    OBVIOUS
  <2>6. NewReservation(w) /\ MayReserve(a, w)
    BY <1>9, <2>4, <2>5, WantedFits DEF Acceptable
  <2>7. Sound(b) /\ SameShares(a, b)
    BY <1>4, <2>1, <2>3, <2>4, <2>5, <2>6, ReserveSound DEF Booked
  <2>8. SameShares(acct, b)
    BY <1>4, <2>7 DEF SameShares
  <2>9. BooksInv'
    BY <1>2, <1>9, <2>1, <2>7, <2>8, SharesFlags, BooksStay DEF BooksInv
  <2>10. PICK k \in Int : k = IF Side(c) = "buy" THEN quantity ELSE -quantity
    BY <2>4
  <2>11. /\ \A z \in Securities \ {c.s} : PlanFor(new, z) = PlanFor(old, z) + 0
         /\ PlanFor(new, c.s) = PlanFor(old, c.s) + k
    BY <1>6, <2>1, <2>2, <2>10, PlacedPlan
  <2>12. \A z \in Securities \ {c.s} : PlanFor(new, z) = PlanFor(ord, z)
    <3>1. \A z : PlanFor(old, z) \in Int
      BY <1>6, PlansAre
    <3> QED BY <1>7, <2>11, <3>1
  <2>13. Toward(c, quantity) = Base(c) + k
    BY <2>10 DEF Toward
  <2>14. Targets(c) => acct.position[c.s].quantity + PlanFor(new, c.s) = Toward(c, quantity)
    BY <1>7, <2>10, <2>11, <2>13
  <2>15. \A z \in Securities : acct'.position[z].quantity = acct.position[z].quantity
    BY <1>9, <2>1, <2>8 DEF SameShares
  <2>16. GoalInv'
    BY <1>2, <1>9, <2>1, <2>12, <2>14, <2>15, PromiseMet
  <2> QED BY <2>9, <2>16
<1> QED BY <1>2, <1>8, <1>9

-----------------------------------------------------------------------------
(* The books and the goals hold in every run.                              *)

LEMMA BooksStep == EngineInv /\ BooksInv /\ GoalInv /\ [Next]_vars => BooksInv' /\ GoalInv'
<1> SUFFICES ASSUME EngineInv, BooksInv, GoalInv, [Next]_vars PROVE BooksInv' /\ GoalInv'
  OBVIOUS
<1>1. CASE Strategy
  <2>1. CASE Notify \/ Call \/ Return
    BY <2>1, QuietBooks
  <2>2. ASSUME NEW c \in {intent \in Intents : intent.s \in Securities}, SubmitCovered(c) \/ Submit(c)
        PROVE  BooksInv' /\ GoalInv'
    BY <2>2, CoveredBooks, SubmitBooks DEF Asked
  <2>3. ASSUME NEW id \in Orders, Cancel(id) PROVE BooksInv' /\ GoalInv'
    BY <2>3, CancelBooks
  <2> QED BY <1>1, <2>1, <2>2, <2>3 DEF Strategy
<1>2. CASE Driver
  <2>1. ASSUME NEW stopped \in SUBSET Halting, Open(stopped) PROVE BooksInv' /\ GoalInv'
    BY <2>1, OpenBooks
  <2>2. CASE Timer \/ EndSession
    BY <2>2, QuietBooks
  <2>3. CASE Barrier \/ CloseEmpty
    BY <2>3, CloseBooks
  <2>4. CASE Expire
    BY <2>4, ExpireBooks
  <2>5. ASSUME NEW S \in SUBSET Securities, Boundary(S) PROVE BooksInv' /\ GoalInv'
    BY <2>5, BoundaryBooks
  <2>6. ASSUME NEW s \in Securities, NEW bar \in Markets, MatchBar(s, bar) PROVE BooksInv' /\ GoalInv'
    BY <2>6, MatchBooks
  <2> QED BY <1>2, <2>1, <2>2, <2>3, <2>4, <2>5, <2>6 DEF Driver
<1>3. CASE UNCHANGED vars
  <2>1. UNCHANGED <<at, time, host, closed, due, acct, ord, mark, halted, goal>>
    BY <1>3 DEF vars
  <2>2. BooksInv'
    BY <2>1 DEF BooksInv, Stage
  <2> QED BY <2>1, <2>2, GoalStays
<1> QED
  BY <1>1, <1>2, <1>3 DEF Next

\* The inductive invariant of the account and the targets, with the one of the
\* orders: a sound account, rights that are up to date, and targets that are
\* what is held and planned.
THEOREM BooksHold == Spec => [](EngineInv /\ BooksInv /\ GoalInv)
<1>1. Init => EngineInv /\ BooksInv /\ GoalInv
  BY EngineStarts, BooksStart
<1>2. EngineInv /\ BooksInv /\ GoalInv /\ [Next]_vars => EngineInv' /\ BooksInv' /\ GoalInv'
  BY EngineStep, BooksStep
<1> QED
  BY <1>1, <1>2, PTL DEF Spec

\* Nothing is spent, frozen, sold, taxed, paid or counted twice: the cash of a
\* run covers what is reserved and blocked, every position is the sum of its
\* lots and covers what is on sale, cash and costs balance against what was
\* earned, and every dividend is kept to the last unit, for any strategy, any
\* bars, any corporate actions and any number of orders (Account, OrderManager,
\* and the corporate actions of a session).
THEOREM AccountStaysConsistent == Spec => []AccountConsistent
<1>1. EngineInv /\ BooksInv => AccountConsistent
  <2> SUFFICES ASSUME EngineInv, BooksInv PROVE AccountConsistent
    OBVIOUS
  <2>1. AccountFits(acct) /\ CashCovered(acct) /\ SharesCovered(acct) /\ BooksBalance(acct) /\ DividendsKept(acct)
    BY SoundConsistent DEF BooksInv
  <2>2. \A id \in Orders :
          /\ ord[id].quantity \in Nat /\ ord[id].filled \in 0..ord[id].quantity
          /\ ord[id].status \in {"none", "open", "partial", "filled", "cancelled", "expired"}
    BY DEF EngineInv, Orderly, FitOrder, OrderRecords, Statuses
  <2>3. TypeOK
    BY <2>1, <2>2 DEF TypeOK, EngineInv, BooksInv
  <2> QED BY <2>1, <2>3 DEF AccountConsistent
<1> QED
  BY <1>1, BooksHold, PTL

\* The target a strategy was last promised for a security is what is held and
\* still ordered of it, after every partial fill, replacement and repetition,
\* until one of its orders is cancelled or expires, an ex session begins or the
\* strategy orders otherwise (the targets of prepare_submit).
THEOREM TargetsStayCovered == Spec => []GoalCovered
<1>1. EngineInv /\ GoalInv => GoalCovered
  <2> SUFFICES ASSUME EngineInv, GoalInv, NEW s \in Securities, goal[s] # NoGoal
               PROVE  acct.position[s].quantity + Total(LAMBDA id : Signed(ord[id]), Live(s)) = goal[s].quantity
    BY DEF GoalCovered
  <2>1. Total(LAMBDA id : Signed(ord[id]), Live(s)) = PlanFor(ord, s)
    BY LivePlan DEF EngineInv
  <2>2. acct.position[s].quantity + PlanFor(ord, s) = goal[s].quantity
    BY DEF GoalInv, Met
  <2> QED BY <2>1, <2>2
<1> QED
  BY <1>1, BooksHold, PTL

=============================================================================
