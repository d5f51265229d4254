------------------------------- MODULE Account -------------------------------
(***************************************************************************)
(* The account of a backtest: cash, positions in lots, a reservation per   *)
(* active order, and the corporate actions of its securities, as operators *)
(* on one record `a`.  The engine runs them on a copy first and commits    *)
(* the copy, so each is one step or none.  Amounts are integers in the     *)
(* smallest unit of account.                                               *)
(***************************************************************************)
EXTENDS Integers, FiniteSets, FiniteSetsExt, Sequences, SequencesExt

CONSTANTS
  Securities,
  Sessions,    \* number of sessions of the run
  InitialCash,
  Lot,         \* shares of a legal order, minimum_buy and buy_step
  MinFee,      \* minimum commission of an order
  FeeUnit,     \* notional of one unit of commission
  SameDay,     \* securities that may be sold on the day they are bought
  Delayed,     \* whether proceeds can be used from the next session only
  MaxOrders,   \* bound: orders of the run
  Actions,     \* the corporate actions, in the order of those of one boundary
  Cent,        \* units of the smallest amount that is settled in cash
  Month, Year  \* sessions after which a holding is longer than that

ASSUME AccountShape ==
  /\ IsFiniteSet(Securities) /\ Sessions \in Nat \ {0} /\ InitialCash \in Nat \ {0} /\ Lot \in Nat \ {0}
  /\ MinFee \in Nat /\ FeeUnit \in Nat \ {0} /\ SameDay \subseteq Securities
  /\ Delayed \in BOOLEAN /\ MaxOrders \in Nat
  /\ Cent \in Nat \ {0} /\ Month \in Nat /\ Year \in Nat /\ Month <= Year
ASSUME ActionShape ==
  /\ Len(Actions) \in Nat /\ DOMAIN Actions = 1..Len(Actions)
  /\ \A i \in DOMAIN Actions : LET c == Actions[i] IN
      /\ c.kind \in {"dividend", "shares", "split", "rights"} /\ c.s \in Securities
      /\ c.record \in Nat \ {0} /\ c.ex \in Nat /\ c.record < c.ex /\ c.settled \in BOOLEAN /\ c.mark \in Nat
      /\ c.kind = "dividend" => /\ c.pay \in Nat \X {"open", "close"} /\ c.ex <= c.pay[1]
                               /\ c.each \in Nat /\ c.rates \in [1..3 -> 0..10] /\ c.first \in 0..10
      /\ c.kind \in {"shares", "split"} => /\ c.num \in Nat \ {0} /\ c.den \in Nat \ {0}
                                          /\ c.from \in Nat /\ c.ex <= c.from /\ c.tax \in Nat
      /\ c.kind = "shares" => c.inherit \in BOOLEAN

Orders == 1..MaxOrders
Days   == 1..(Sessions + 1)   \* the next session after the run is known
Lesser(x, y)  == IF x < y THEN x ELSE y
Greater(x, y) == IF x > y THEN x ELSE y
Total(f(_), S) == SumFunction([i \in S |-> f(i)])

\* The numbers of S from the least to the greatest, and what a sequence has there.
Ranked(S, i)   == CHOOSE x \in S : Cardinality({y \in S : y < x}) = i - 1
Picked(seq, S) == [i \in 1..Cardinality(S) |-> seq[Ranked(S, i)]]

\* One element after the other, the least first.
Ascending(op(_, _), base, S) == MapThenFoldSet(op, base, LAMBDA i : i, Max, S)

NoReservation == [side |-> "none", s |-> CHOOSE s \in Securities : TRUE, left |-> 0, estimate |-> 0,
                  limit |-> 0, cash |-> 0, notional |-> 0, paid |-> 0]
NoPosition    == [quantity |-> 0, frozen |-> 0, cost |-> 0, lots |-> <<>>]
NoAction      == [registered |-> FALSE, ex |-> FALSE, paid |-> FALSE, recorded |-> <<>>, quantity |-> 0,
                  gross |-> 0, initial |-> 0, sold |-> [b \in 1..3 |-> 0], withheld |-> 0, extra |-> 0]

NewAccount ==
  [cash |-> InitialCash, frozen |-> 0, blocked |-> 0, locks |-> [d \in Days |-> 0], day |-> 0,
   realized |-> 0, receivable |-> 0, action |-> [i \in DOMAIN Actions |-> NoAction], position |-> [s \in Securities |-> NoPosition],
   reserved |-> [id \in Orders |-> NoReservation]]

-----------------------------------------------------------------------------
Frozen(a)    == a.frozen + a.blocked
Available(a) == a.cash - Frozen(a)

Shares(lots)   == Total(LAMBDA k : lots[k].quantity, DOMAIN lots)
Eligible(a, s) ==
  LET lots == a.position[s].lots
  IN  Total(LAMBDA k : lots[k].quantity, {k \in DOMAIN lots : lots[k].from <= a.day})
Sellable(a, s) == Eligible(a, s) - a.position[s].frozen

\* OrderFeeAccumulator: the commission of all fills of an order together.
Commission(notional) == Greater(MinFee, notional \div FeeUnit)
Charge(r, value)     == Commission(r.notional + value) - r.paid

\* A legal quantity: whole lots; a sale may also take the odd rest.
Legal(a, s, side, quantity) ==
  /\ quantity \in Nat \ {0}
  /\ IF side = "buy" THEN quantity % Lot = 0
     ELSE /\ quantity <= Sellable(a, s)
          /\ \/ quantity = Sellable(a, s)
             \/ /\ quantity >= Lot \/ quantity = Sellable(a, s) % Lot
                /\ quantity % Lot \in {0, Sellable(a, s) % Lot}

\* max_affordable: its cash is what is free and what the order itself reserved.
Affordable(a, id, most, price, step) ==
  LET r == a.reserved[id] IN
  Max({0} \cup {q \in 1..Lesser(most, r.left) :
                  q % step = 0 /\ q * price + Charge(r, q * price) <= Available(a) + r.cash})

-----------------------------------------------------------------------------
(* Shares leave lot by lot, the oldest first, and dividends with them: the *)
(* tax on a dividend depends on how long its shares were held.             *)

\* release_cost, rounded half to even.
HalfEven(n, d) ==
  LET q == n \div d
      r == n % d
  IN  IF 2 * r < d \/ (2 * r = d /\ q % 2 = 0) THEN q ELSE q + 1
ReleasedCost(cost, held, sold) == IF sold = held THEN cost ELSE HalfEven(cost * sold, held)
Settled(n, d) == Cent * HalfEven(n, d * Cent)

\* holding_band
Band(acquired, day) == IF day - acquired > Year THEN 3 ELSE IF day - acquired > Month THEN 2 ELSE 1

\* What selling `taken` shares of a lot takes of the dividend i on them.
Claimed(lot, i, taken) ==
  LET c == lot.claims[i] IN
  [quantity |-> taken, gross |-> ReleasedCost(c.gross, c.quantity, taken),
   initial |-> ReleasedCost(c.initial, c.quantity, taken)]
MinusShares(c, d) == [c EXCEPT !.quantity = @ - d.quantity]
Minus(c, d) == [quantity |-> c.quantity - d.quantity, gross |-> c.gross - d.gross,
                initial |-> c.initial - d.initial]

\* One lot on the way of n.left shares.
TakeLot(n, lot, day) ==
  LET taken == IF lot.from <= day THEN Lesser(lot.quantity, n.left) ELSE 0
      gone  == [i \in DOMAIN lot.claims |-> Claimed(lot, i, taken)]
      rest  == [lot EXCEPT !.quantity = @ - taken,
                           !.claims = [i \in DOMAIN @ |-> Minus(@[i], gone[i])]]
  IN  IF taken = 0 THEN [n EXCEPT !.lots = Append(@, lot)]
      ELSE [left |-> n.left - taken,
            lots |-> IF rest.quantity = 0 THEN n.lots ELSE Append(n.lots, rest),
            action |-> [i \in DOMAIN n.action |->
              IF i \notin DOMAIN gone THEN n.action[i]
              ELSE [n.action[i] EXCEPT !.sold[Band(lot.acquired, day)] = @ + gone[i].gross,
                                       !.withheld = @ + gone[i].initial]]]

\* The tax still to be paid on what was sold is rounded once, and what was paid deducted.
Due(i, x) ==
  IF Actions[i].kind # "dividend" THEN 0
  ELSE Settled(Total(LAMBDA b : Settled(x.sold[b] * Actions[i].rates[b], 10), 1..3) - x.withheld, 1)

\* dispose
Taken(a, s, quantity) ==
  FoldLeft(LAMBDA m, lot : TakeLot(m, lot, a.day),
           [left |-> quantity, lots |-> <<>>, action |-> a.action], a.position[s].lots)
Taxed(a, n, owed) ==
  [lots |-> n.lots, tax |-> Total(LAMBDA i : owed[i] - a.action[i].extra, DOMAIN Actions),
   action |-> [i \in DOMAIN Actions |-> [n.action[i] EXCEPT !.extra = owed[i]]]]
Disposed(a, s, quantity) ==
  LET n == Taken(a, s, quantity) IN Taxed(a, n, [i \in DOMAIN Actions |-> Due(i, n.action[i])])

-----------------------------------------------------------------------------
(* Reservations.                                                           *)

\* What a reservation of this order freezes.
Needs(a, r) ==
  LET value == r.left * r.estimate IN
  IF r.side = "buy" THEN Lesser(value + Charge(r, value), Available(a))
  ELSE Greater(0, Charge(r, value) + Disposed(a, r.s, r.left).tax - value)

MayReserve(a, r) ==
  /\ Legal(a, r.s, r.side, r.left)
  /\ IF r.side = "buy" THEN Lot * r.estimate + Charge(r, Lot * r.estimate) <= Available(a)
     ELSE Needs(a, r) <= Available(a)

Froze(a, id, r, cash) ==
  [a EXCEPT !.frozen = @ + cash, !.reserved[id] = [r EXCEPT !.cash = cash],
            !.position[r.s].frozen = @ + IF r.side = "sell" THEN r.left ELSE 0]
Reserve(a, id, r) == Froze(a, id, r, Needs(a, r))

\* put_position: an empty position is removed.
Kept(p) == IF p.quantity = 0 THEN NoPosition ELSE p

Release(a, id) ==
  LET r == a.reserved[id] IN
  IF r.side = "none" THEN a
  ELSE [a EXCEPT !.frozen = @ - r.cash, !.reserved[id] = NoReservation,
                 !.position[r.s] = IF r.side = "buy" THEN @
                                   ELSE Kept([a.position[r.s] EXCEPT !.frozen = @ - r.left])]

-----------------------------------------------------------------------------
(* Fills.                                                                  *)

\* What is bought joins the last lot of its day until a dividend comes between.
WithLot(a, s, quantity) ==
  LET lots == a.position[s].lots
      from == IF s \in SameDay THEN a.day ELSE a.day + 1
      last == lots[Len(lots)]
      joins == lots # <<>> /\ last.acquired = a.day /\ last.from = from /\ DOMAIN last.claims = {}
  IN  IF joins THEN [lots EXCEPT ![Len(lots)].quantity = @ + quantity]
      ELSE Append(lots, [acquired |-> a.day, from |-> from, quantity |-> quantity, claims |-> <<>>])

Others(a, id) == Frozen(a) - a.reserved[id].cash

\* The account after a buy; the rest of the order keeps what it needs, or what is there.
BoughtFor(a, id, quantity, value, fee) ==
  LET r    == a.reserved[id]
      p    == a.position[r.s]
      cash == a.cash - value - fee
      rest == [r EXCEPT !.left = @ - quantity, !.notional = @ + value, !.paid = @ + fee]
      keep == IF rest.left = 0 THEN 0
              ELSE Lesser(rest.left * r.estimate + Charge(rest, rest.left * r.estimate),
                          cash - Others(a, id))
  IN  [a EXCEPT !.cash = cash, !.frozen = @ - r.cash + keep,
                !.position[r.s] = [p EXCEPT !.quantity = @ + quantity, !.cost = @ + value + fee,
                                            !.lots = WithLot(a, r.s, quantity)],
                !.reserved[id] = IF rest.left = 0 THEN NoReservation ELSE [rest EXCEPT !.cash = keep]]
Bought(a, id, quantity, value) == BoughtFor(a, id, quantity, value, Charge(a.reserved[id], value))

\* The account after a sale.
SoldFor(a, id, quantity, value, fee, disposed) ==
  LET r        == a.reserved[id]
      p        == a.position[r.s]
      proceeds == value - fee - disposed.tax
      released == ReleasedCost(p.cost, p.quantity, quantity)
      later    == Delayed /\ proceeds > 0
      rest     == [r EXCEPT !.left = @ - quantity, !.notional = @ + value, !.paid = @ + fee]
      keep     == IF rest.left = 0 THEN 0 ELSE Lesser(r.cash, a.cash + proceeds - Others(a, id))
  IN  [a EXCEPT !.cash = @ + proceeds, !.frozen = @ - r.cash + keep,
                !.blocked = @ + IF later THEN proceeds ELSE 0,
                !.locks[a.day + 1] = @ + IF later THEN proceeds ELSE 0,
                !.realized = @ + proceeds - released, !.action = disposed.action,
                !.position[r.s] = Kept([quantity |-> p.quantity - quantity, frozen |-> p.frozen - quantity,
                                        cost |-> p.cost - released, lots |-> disposed.lots]),
                !.reserved[id] = IF rest.left = 0 THEN NoReservation ELSE [rest EXCEPT !.cash = keep]]
Sold(a, id, quantity, value) ==
  SoldFor(a, id, quantity, value, Charge(a.reserved[id], value), Disposed(a, a.reserved[id].s, quantity))

Filled(a, id, quantity, price) ==
  IF a.reserved[id].side = "buy" THEN Bought(a, id, quantity, quantity * price)
  ELSE Sold(a, id, quantity, quantity * price)

\* fill_plan: what makes a fill impossible, however it was chosen.
MayFill(a, id, quantity, price, after) ==
  LET r     == a.reserved[id]
      value == quantity * price
  IN  /\ quantity \in 1..r.left
      /\ r.limit = 0 \/ IF r.side = "buy" THEN price <= r.limit ELSE price >= r.limit
      /\ IF r.side = "buy" THEN value + Charge(r, value) <= a.cash - Others(a, id)
         ELSE /\ quantity <= a.position[r.s].frozen /\ quantity <= Eligible(a, r.s)
              /\ after.cash >= Others(a, id)
      /\ Frozen(after) <= after.cash

-----------------------------------------------------------------------------
\* settle: proceeds that were waiting for this session can be used.
Settle(a, day) ==
  LET ready == Total(LAMBDA d : a.locks[d], 1..day) IN
  [a EXCEPT !.day = day, !.blocked = @ - ready,
            !.locks = [d \in Days |-> IF d <= day THEN 0 ELSE @[d]]]
-----------------------------------------------------------------------------
(* advance_corporate_actions: what happens at one boundary, the opening or *)
(* the close of a session, one action after the other.  A failure leaves   *)
(* everything as it was and ends the run.                                  *)

\* Who holds the shares at the close of the record session has the right.
Entitled(a, i) ==
  LET lots == a.position[Actions[i].s].lots
  IN  Picked(lots, {k \in DOMAIN lots : Actions[i].settled => lots[k].from <= a.day})

\* The dividend of the entitled lots, divided among them without a rest.
AttachOne(n, lot, i) ==
  LET c == [quantity |-> lot.quantity, gross |-> ReleasedCost(n.gross, n.quantity, lot.quantity),
            initial |-> ReleasedCost(n.initial, n.quantity, lot.quantity)]
  IN  IF Actions[i].settled /\ lot.from > n.day THEN [n EXCEPT !.lots = Append(@, lot)]
      ELSE [n EXCEPT !.quantity = @ - c.quantity, !.gross = @ - c.gross, !.initial = @ - c.initial,
              !.lots = Append(@, [lot EXCEPT !.claims =
                         [j \in DOMAIN @ \cup {i} |-> IF j = i THEN c ELSE @[j]]])]

\* register_action
Attached(a, i, quantity, gross, initial) ==
  FoldLeft(LAMBDA n, lot : AttachOne(n, lot, i),
           [quantity |-> quantity, gross |-> gross, initial |-> initial, day |-> a.day, lots |-> <<>>],
           a.position[Actions[i].s].lots).lots
Recorded(a, i, quantity, gross, initial) ==
  [a EXCEPT !.action[i].registered = TRUE, !.action[i].quantity = quantity,
            !.action[i].gross = gross, !.action[i].initial = initial,
            !.position[Actions[i].s].lots = IF quantity = 0 THEN @ ELSE Attached(a, i, quantity, gross, initial)]
Dividend(a, i, quantity, gross) == Recorded(a, i, quantity, gross, Settled(gross * Actions[i].first, 10))
Register(a, i) ==
  IF Actions[i].kind = "dividend"
  THEN Dividend(a, i, Shares(Entitled(a, i)), Settled(Actions[i].each * Shares(Entitled(a, i)), 1))
  ELSE [a EXCEPT !.action[i].registered = TRUE, !.action[i].quantity = Shares(Entitled(a, i)),
                 !.action[i].recorded = Entitled(a, i)]

Net(x) == x.gross - x.initial

Divisible(c, n) == (n * c.num) % c.den = 0
Scaled(c, n)    == (n * c.num) \div c.den

\* Lots by age; those of one day stay in their order.
Before(lots, k) ==
  {j \in DOMAIN lots : \/ lots[j].acquired < lots[k].acquired
                       \/ lots[j].acquired = lots[k].acquired /\ j < k}
ByAge(lots) ==
  [i \in DOMAIN lots |-> lots[CHOOSE k \in DOMAIN lots : Cardinality(Before(lots, k)) = i - 1]]

\* The new shares of a distribution; a right to them outlives the shares it came from.
Granted(a, i) ==
  LET c    == Actions[i]
      lots == [k \in DOMAIN a.action[i].recorded |-> LET lot == a.action[i].recorded[k] IN
                 [acquired |-> IF c.inherit THEN lot.acquired ELSE a.day, from |-> c.from,
                  quantity |-> Scaled(c, lot.quantity), claims |-> <<>>]]
  IN  Picked(lots, {k \in DOMAIN lots : lots[k].quantity > 0})

\* A split leaves what was claimed before as it is; it is only more shares' or fewer.
SplitClaim(c, claim) == [claim EXCEPT !.quantity = Scaled(c, @)]
SplitLot(c, lot) ==
  [lot EXCEPT !.quantity = Scaled(c, @), !.from = Greater(@, c.from),
              !.claims = [j \in DOMAIN @ |-> SplitClaim(c, @[j])]]

ShareTax(a, i) == Settled(Actions[i].tax * a.action[i].quantity, 1)

\* No shares are divided, and no money is added for the tax.
MayEx(a, i) ==
  LET c == Actions[i]
      p == a.position[c.s]
  IN  /\ c.kind = "shares" => \A k \in DOMAIN a.action[i].recorded : Divisible(c, a.action[i].recorded[k].quantity)
      /\ c.kind = "split" => Divisible(c, p.quantity) /\ \A k \in DOMAIN p.lots : Divisible(c, p.lots[k].quantity)
      /\ c.kind \in {"shares", "split"} => ShareTax(a, i) <= Available(a)

\* ex_action
Ex(a, i) ==
  LET c    == Actions[i]
      x    == a.action[i]
      p    == a.position[c.s]
      past == [a EXCEPT !.action[i].ex = TRUE, !.action[i].recorded = <<>>]
      paid == [past EXCEPT !.cash = @ - ShareTax(a, i), !.realized = @ - ShareTax(a, i)]
  IN  CASE c.kind = "dividend" -> [past EXCEPT !.receivable = @ + Net(x), !.realized = @ + Net(x)]
        [] c.kind = "shares"   -> [paid EXCEPT !.position[c.s].quantity = @ + Shares(Granted(a, i)),
                                               !.position[c.s].lots = ByAge(@ \o Granted(a, i))]
        [] c.kind = "split"    -> [paid EXCEPT !.position[c.s] =
                                     Kept([p EXCEPT !.quantity = Scaled(c, @),
                                             !.lots = [k \in DOMAIN @ |-> SplitLot(c, @[k])]])]
        [] OTHER -> past

Pay(a, i) ==
  LET net == Net(a.action[i]) IN
  [a EXCEPT !.cash = @ + net, !.receivable = @ - net, !.action[i].paid = TRUE]

\* The orders of a security do not survive its ex session.
HeldBy(a, s) == {id \in Orders : a.reserved[id].side # "none" /\ a.reserved[id].s = s}
FreedOf(a, S) == FoldSet(LAMBDA id, b : Release(b, id), a, S)

\* One action at the boundary; n.ended are the orders it cancels.
Registered(n, i, phase) ==
  IF phase = "close" /\ Actions[i].record = n.a.day THEN [n EXCEPT !.a = Register(@, i)] ELSE n
Begun(n, i, freed, orders) ==
  IF MayEx(freed, i) THEN [n EXCEPT !.a = Ex(freed, i), !.ended = @ \cup orders] ELSE [n EXCEPT !.ok = FALSE]
Begins(n, i, orders) == Begun(n, i, FreedOf(n.a, orders), orders)
AtEx(n, i, phase) ==
  IF phase = "open" /\ Actions[i].ex = n.a.day THEN Begins(n, i, HeldBy(n.a, Actions[i].s)) ELSE n
Paid(n, i, phase) ==
  IF n.ok /\ Actions[i].kind = "dividend" /\ Actions[i].pay = <<n.a.day, phase>>
  THEN [n EXCEPT !.a = Pay(@, i)] ELSE n
Step(n, i, phase) ==
  IF n.ok THEN Paid(AtEx(Registered(n, i, phase), i, phase), i, phase) ELSE n

Advance(a, phase) ==
  Ascending(LAMBDA i, n : Step(n, i, phase), [ok |-> TRUE, a |-> a, ended |-> {}], DOMAIN Actions)
-----------------------------------------------------------------------------
(* What is always true of an account.                                      *)

AccountFits(a) ==
  /\ a.cash \in Nat /\ a.frozen \in Nat /\ a.blocked \in Nat /\ a.day \in 0..Sessions
  /\ a.locks \in [Days -> Nat] /\ a.realized \in Int /\ a.receivable \in Nat
  /\ \A s \in Securities : LET p == a.position[s] IN
       /\ p.quantity \in Nat /\ p.frozen \in Nat /\ p.cost \in Nat
       /\ \A k \in DOMAIN p.lots : /\ p.lots[k].quantity \in Nat \ {0} /\ p.lots[k].from \in Nat
                                 /\ p.lots[k].acquired \in 0..a.day
  /\ \A id \in Orders : LET r == a.reserved[id] IN
       r.side \in {"none", "buy", "sell"} /\ r.left \in Nat /\ r.cash \in Nat

\* No order and no jump of prices spends cash that another order has reserved
\* or that is not yet settled.
CashCovered(a) ==
  /\ Frozen(a) <= a.cash
  /\ a.frozen = Total(LAMBDA id : a.reserved[id].cash, Orders)
  /\ a.blocked = Total(LAMBDA d : a.locks[d], Days)

\* A share is sold once, and only from the session it may be sold in.
SharesCovered(a) ==
  \A s \in Securities : LET p == a.position[s] IN
    /\ p.quantity = Shares(p.lots)
    /\ p.frozen = Total(LAMBDA id : a.reserved[id].left,
                        {id \in Orders : a.reserved[id].side = "sell" /\ a.reserved[id].s = s})
    /\ Sellable(a, s) >= 0

\* Money is moved, never made: cash, dividends to come and the cost of what is
\* held are the initial cash and what was earned.
BooksBalance(a) ==
  a.cash + a.receivable + Total(LAMBDA s : a.position[s].cost, Securities) = InitialCash + a.realized

\* The lots that still carry a claim to dividend i.
ClaimedBy(lots, i) == {k \in DOMAIN lots : i \in DOMAIN lots[k].claims}

\* A dividend is on its way once, and whatever was sold in whatever parts, what
\* is still on shares and what was sold with them is what was recorded.
DividendsKept(a) ==
  /\ a.receivable = Total(LAMBDA i : Net(a.action[i]), {i \in DOMAIN Actions : a.action[i].ex /\ ~a.action[i].paid})
  /\ \A i \in DOMAIN Actions :
       LET x    == a.action[i]
           lots == a.position[Actions[i].s].lots
       IN  /\ x.gross = Total(LAMBDA k : lots[k].claims[i].gross, ClaimedBy(lots, i)) + Total(LAMBDA b : x.sold[b], 1..3)
           /\ x.initial = Total(LAMBDA k : lots[k].claims[i].initial, ClaimedBy(lots, i)) + x.withheld
  /\ \A s \in Securities : LET lots == a.position[s].lots IN
       \A k \in DOMAIN lots : \A i \in DOMAIN lots[k].claims : lots[k].claims[i].quantity = lots[k].quantity
=============================================================================
