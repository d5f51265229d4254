----------------------------- MODULE OrderEngine -----------------------------
(***************************************************************************)
(* One run of the backtest engine: the session loop of the driver, the     *)
(* order manager and its account, the bar matcher, and the strategy's      *)
(* calls.  The loop is sequential; what may happen in any order is what a  *)
(* strategy asks for in each of its calls, which bars there are and what   *)
(* they show, and which securities are halted.  Corporate actions are      *)
(* given with the run and take place at the bounds of its sessions.        *)
(*                                                                         *)
(* Bar k of a session ends at time 2k and spans [2k - 2, 2k].  Timers run  *)
(* in between, and at the end of a bar.  A step that fails ends the run,   *)
(* so every prefix of a behaviour is one too.                              *)
(***************************************************************************)
EXTENDS Account

CONSTANTS
  BarsPerDay,  \* bars of a session
  Markets,     \* bound: what a bar may show; its share is what may be traded of it
  Slip,        \* slippage in ticks
  Risky,       \* securities under a risk warning
  RiskCap,     \* shares of them that may be bought a day, orders included
  Halting,     \* bound: securities that may be halted for a session
  Intents      \* bound: what a strategy may ask for

ASSUME EngineShape ==
  /\ BarsPerDay \in Nat \ {0} /\ Slip \in Nat /\ Risky \subseteq Securities /\ RiskCap \in Nat
  /\ Halting \subseteq Securities
  /\ \A m \in Markets : /\ {m.open, m.close, m.high, m.share} \subseteq Nat
                        /\ m.low \in 1..m.open /\ m.low <= m.close /\ m.high >= m.open /\ m.high >= m.close
  /\ \A c \in Intents : /\ c.kind \in {"quantity", "target", "worth"} /\ c.side \in {"buy", "sell"}
                        /\ c.n \in Nat /\ c.limit \in Nat /\ c.tif \in {"day", "gtc"}

VARIABLES
  at,        \* where the driver is: "gap", "calls", "market" or "after"
  time,      \* of the session
  host,      \* whether the strategy runs
  closed,    \* whether the close of the session was processed
  due,       \* securities whose bar of this boundary is not yet matched
  acct,      \* the account, with the number of the session
  ord,       \* the orders
  bought,    \* session_buys
  mark,      \* last raw price, 0 after an ex session began without one
  halted,    \* securities halted in this session
  pending,   \* order notifications on their way to the strategy
  told,      \* history: the last word to the strategy on each order
  goal       \* history: the effective target the strategy was last promised

vars == <<at, time, host, closed, due, acct, ord, bought, mark, halted, pending, told, goal>>

-----------------------------------------------------------------------------
Active(o) == o.status \in {"open", "partial"}
Rest(o)   == o.quantity - o.filled
Signed(o) == IF o.side = "buy" THEN Rest(o) ELSE -Rest(o)
Live(s)   == {id \in Orders : ord[id].s = s /\ Active(ord[id])}
Word(o)   == [status |-> o.status, filled |-> o.filled]

NoOrder == [s |-> CHOOSE s \in Securities : TRUE, side |-> "buy", quantity |-> 0, filled |-> 0,
            limit |-> 0, tif |-> "day", effective |-> 1, start |-> <<0, 0>>, target |-> FALSE,
            status |-> "none"]
NoGoal  == [quantity |-> -1, effective |-> 0]

Close == 2 * BarsPerDay

Init ==
  /\ at = "gap" /\ time = 0 /\ host = FALSE /\ closed = FALSE /\ due = {}
  /\ acct = NewAccount
  /\ ord = [id \in Orders |-> NoOrder]
  /\ bought = [s \in Securities |-> 0]
  /\ mark = [s \in Securities |-> 1]
  /\ halted = {}
  /\ pending = <<>>
  /\ told = [id \in Orders |-> Word(NoOrder)]
  /\ goal = [s \in Securities |-> NoGoal]

Clock  == <<at, time, due, closed>>
Market == <<bought, mark, halted>>

\* Orders of S end, their reservations with them; their owner is told of each.
\* Nothing else of an order that has ended is looked at again.
Ended(o, status) ==
  [NoOrder EXCEPT !.s = o.s, !.side = o.side, !.quantity = o.quantity, !.filled = o.filled, !.status = status]
EndAs(S, status, orders) == [id \in Orders |-> IF id \in S THEN Ended(orders[id], status) ELSE orders[id]]
FreedOne(a, S)   == IF S = {} THEN a ELSE Release(a, Min(S))
Freed(a, S)      == FreedOf(a, S)
Told(S, orders)  ==
  [i \in 1..Cardinality(S) |-> [id |-> Ranked(S, i), word |-> Word(orders[Ranked(S, i)])]]
Undone(S)        == [s \in Securities |-> IF \E id \in S : ord[id].s = s THEN NoGoal ELSE goal[s]]

-----------------------------------------------------------------------------
(* Calls of the strategy.                                                  *)

MayCall == at \in {"calls", "after"} /\ ~host

\* drain: notifications are delivered one at a time, before anything else.
Notify ==
  /\ MayCall /\ pending # <<>>
  /\ host' = TRUE
  /\ told' = [told EXCEPT ![Head(pending).id] = Head(pending).word]
  /\ pending' = Tail(pending)
  /\ UNCHANGED <<Clock, acct, ord, Market, goal>>

\* before_open, timers, handle_bars, after_close
Call ==
  /\ MayCall /\ pending = <<>>
  /\ host' = TRUE
  /\ UNCHANGED <<Clock, acct, ord, Market, pending, told, goal>>

Return ==
  /\ host /\ host' = FALSE
  /\ UNCHANGED <<Clock, acct, ord, Market, pending, told, goal>>

-----------------------------------------------------------------------------
(* submit: a number of shares, a target position, or one worth an amount.  *)

Targets(c) == c.kind # "quantity"

\* Where an order given now becomes effective.
Effective == IF closed THEN acct.day + 1 ELSE acct.day

\* The target orders it replaces, and the position it starts from.
Replaces(c) == IF Targets(c) THEN {id \in Live(c.s) : ord[id].target} ELSE {}
BaseHeld(c) == IF Targets(c) THEN acct.position[c.s].quantity ELSE 0
Base(c) ==
  IF ~Targets(c) THEN 0
  ELSE acct.position[c.s].quantity + Total(LAMBDA id : Signed(ord[id]), Live(c.s) \ Replaces(c))

Estimate(c)  == IF c.limit = 0 THEN mark[c.s] ELSE c.limit
Priced(c)    == c.n = 0 \/ IF c.kind = "worth" THEN mark[c.s] > 0 ELSE Estimate(c) > 0
Requested(c) == IF c.kind = "worth" /\ c.n > 0 THEN c.n \div mark[c.s] ELSE c.n
Delta(c) ==
  IF Targets(c) THEN Requested(c) - Base(c) ELSE IF c.side = "buy" THEN Requested(c) ELSE -Requested(c)
Side(c)    == IF Delta(c) < 0 THEN "sell" ELSE "buy"
Missing(c) == IF Delta(c) < 0 THEN -Delta(c) ELSE Delta(c)
Toward(c, quantity) == Base(c) + IF Side(c) = "buy" THEN quantity ELSE -quantity

\* quantize_buy, quantize_sell: amounts are rounded down to legal quantities.
Whole(n) == n - (n % Lot)
QuantizedSale(n, available) ==
  LET odd   == available % Lot
      floor == Whole(n)
      value == IF odd # 0 /\ n - floor >= odd THEN floor + odd ELSE floor
  IN  IF n = available THEN n ELSE IF value < Lot /\ value # odd THEN 0 ELSE value
Quantity(c, a) ==
  IF c.kind # "worth" THEN Missing(c)
  ELSE IF Side(c) = "buy" THEN Whole(Missing(c)) ELSE QuantizedSale(Missing(c), Sellable(a, c.s))
Quantizable(c, a) == c.kind = "worth" /\ Side(c) = "sell" => Missing(c) <= Sellable(a, c.s)

\* The one target order that is already what is asked for stays.
Keeps(c, quantity) ==
  \E id \in Orders :
    /\ Replaces(c) = {id}
    /\ ord[id].side = Side(c) /\ ord[id].limit = c.limit /\ ord[id].tif = c.tif
    /\ \/ Rest(ord[id]) = quantity
       \/ c.kind = "worth" /\ Rest(ord[id]) <= Missing(c) /\ quantity <= Rest(ord[id])

\* What counts against the cap of a security under a risk warning.
BoughtOnly(c)   == bought[c.s]
BoughtOrOpen(c) ==
  bought[c.s] + Total(LAMBDA id : Rest(ord[id]),
                      {id \in Live(c.s) \ Replaces(c) : ord[id].side = "buy"})
Permitted(c, quantity) ==
  c.s \in Risky /\ Side(c) = "buy" => BoughtOrOpen(c) + quantity <= RiskCap

Wanted(c, quantity) ==
  [NoReservation EXCEPT !.side = Side(c), !.s = c.s, !.left = quantity, !.estimate = Estimate(c), !.limit = c.limit]
NextOrder == CHOOSE id \in Orders : /\ ord[id].status = "none"
                                    /\ \A before \in 1..(id - 1) : ord[before].status # "none"

\* The new order is legal, allowed and can be paid in full.
Acceptable(c, a, quantity) ==
  LET id == NextOrder
      after == Reserve(a, id, Wanted(c, quantity))
  IN  /\ \E free \in Orders : ord[free].status = "none"
      /\ c.s \notin halted /\ Permitted(c, quantity) /\ Estimate(c) > 0
      /\ MayReserve(a, Wanted(c, quantity))
      /\ Side(c) = "buy" => Affordable(after, id, quantity, Estimate(c), Lot) >= quantity

Promise(c, quantity) ==
  goal' = [goal EXCEPT ![c.s] =
             IF Targets(c) THEN [quantity |-> Toward(c, quantity), effective |-> Effective] ELSE NoGoal]

NewOrder(c, quantity) ==
  [s |-> c.s, side |-> Side(c), quantity |-> quantity, filled |-> 0, limit |-> c.limit, tif |-> c.tif,
   effective |-> Effective, start |-> <<acct.day, time>>, target |-> Targets(c), status |-> "open"]

\* The target is covered, and nothing changes.
SubmitCovered(c) ==
  LET a == Freed(acct, Replaces(c))
      quantity == Quantity(c, a)
  IN  /\ host /\ Targets(c) /\ Priced(c) /\ Quantizable(c, a)
      /\ \/ /\ Keeps(c, quantity)
            /\ \E id \in Replaces(c) : Promise(c, Rest(ord[id]))
         \/ /\ quantity = 0 /\ Replaces(c) = {}
            /\ Promise(c, 0)
      /\ UNCHANGED <<Clock, host, acct, ord, Market, pending, told>>

\* The target orders of the security are replaced, all or nothing.
Submit(c) ==
  LET a == Freed(acct, Replaces(c))
      quantity == Quantity(c, a)
      old == EndAs(Replaces(c), "cancelled", ord)
  IN  /\ host /\ Priced(c) /\ Quantizable(c, a) /\ ~Keeps(c, quantity)
      /\ IF quantity = 0
         THEN /\ Replaces(c) # {}
              /\ acct' = a /\ ord' = old
              /\ pending' = pending \o Told(Replaces(c), old)
         ELSE /\ Acceptable(c, a, quantity)
              /\ acct' = Reserve(a, NextOrder, Wanted(c, quantity))
              /\ ord' = [old EXCEPT ![NextOrder] = NewOrder(c, quantity)]
              /\ pending' = pending \o Told(Replaces(c) \cup {NextOrder}, ord')
      /\ Promise(c, quantity)
      /\ UNCHANGED <<Clock, host, Market, told>>

\* cancel_at; an order that has ended is left as it is.
Cancel(id) ==
  /\ host /\ Active(ord[id])
  /\ acct' = Release(acct, id)
  /\ ord' = EndAs({id}, "cancelled", ord)
  /\ pending' = pending \o Told({id}, ord')
  /\ goal' = Undone({id})
  /\ UNCHANGED <<Clock, host, Market, told>>

-----------------------------------------------------------------------------
(* The driver.  It waits until the strategy has returned and knows all.    *)

Drained == ~host /\ pending = <<>>

\* The securities whose actions begin an ex session, and the price they begin with.
ExToday(day) == {i \in DOMAIN Actions : Actions[i].ex = day}
MarkAt(day)  == [s \in Securities |->
  LET E == {i \in ExToday(day) : Actions[i].s = s} IN IF E = {} THEN mark[s] ELSE Actions[Max(E)].mark]

\* settle and session_start: orders that cannot stay are cancelled.
Open(stopped) ==
  LET day     == acct.day + 1
      n       == Advance(Settle(acct, day), "open")
      dropped == n.ended \cup {id \in Orders : Active(ord[id]) /\ ord[id].s \in stopped}
  IN  /\ at = "gap" /\ day <= Sessions /\ n.ok
      /\ at' = "calls" /\ time' = 0 /\ closed' = FALSE
      /\ halted' = stopped
      /\ bought' = [s \in Securities |-> 0]
      /\ mark' = MarkAt(day)
      /\ acct' = Freed(n.a, dropped \ n.ended)
      /\ ord' = EndAs(dropped, "cancelled", ord)
      /\ pending' = pending \o Told(dropped, ord')
      /\ goal' = [s \in Securities |-> IF \E i \in ExToday(day) : Actions[i].s = s THEN NoGoal
                                      ELSE Undone(dropped)[s]]
      /\ UNCHANGED <<host, due, told>>

Timer ==
  /\ at = "calls" /\ ~closed /\ Drained
  /\ time' \in (time + 1)..(Close - 1)
  /\ UNCHANGED <<at, host, closed, due, acct, ord, Market, pending, told, goal>>

\* The next boundary has bars of these securities ...
Boundary(S) ==
  /\ at = "calls" /\ ~closed /\ Drained /\ S # {}
  /\ at' = "market" /\ due' = S
  /\ time' \in {t \in (time + 1)..Close : t % 2 = 0}
  /\ UNCHANGED <<host, closed, acct, ord, Market, pending, told, goal>>

\* candidate_price of an order in a bar, 0 when it is not reached.
Reference(o, bar) ==
  IF o.limit = 0 THEN bar.open
  ELSE IF o.side = "buy" THEN IF bar.open <= o.limit THEN bar.open ELSE IF bar.low <= o.limit THEN o.limit ELSE 0
  ELSE IF bar.open >= o.limit THEN bar.open ELSE IF bar.high >= o.limit THEN o.limit ELSE 0
Price(o, bar) ==
  IF Reference(o, bar) = 0 THEN 0
  ELSE IF o.side = "buy"
  THEN Lesser(Reference(o, bar) + Slip, IF o.limit = 0 THEN bar.high ELSE Lesser(o.limit, bar.high))
  ELSE Greater(Reference(o, bar) - Slip, IF o.limit = 0 THEN bar.low ELSE Greater(o.limit, bar.low))

\* The orders that were there when the bar began, in the order they came.
InForce(o) == o.effective <= acct.day /\ (o.tif = "gtc" \/ o.effective = acct.day)
EligibleNow(s) == {id \in Live(s) : InForce(ord[id])}
EligibleFor(s) ==
  {id \in Live(s) : InForce(ord[id]) /\ (ord[id].start[1] < acct.day \/ ord[id].start[2] <= time - 2)}

\* One order after the other takes of the bar what it can pay.
MatchOne(m, id, bar) ==
  LET o        == m.ord[id]
      price    == Price(o, bar)
      most     == Lesser(Rest(o), m.share)
      quantity == IF o.side = "buy" THEN Affordable(m.a, id, most, price, 1) ELSE most
      filled   == o.filled + quantity
      after    == [o EXCEPT !.filled = filled, !.status = "partial"]
      filledTo == Filled(m.a, id, quantity, price)
  IN  IF price = 0 \/ quantity = 0 \/ ~MayFill(m.a, id, quantity, price, filledTo) THEN m
      ELSE [a |-> filledTo, share |-> m.share - quantity,
            changed |-> m.changed \cup {id},
            bought |-> m.bought + IF o.side = "buy" THEN quantity ELSE 0,
            ord |-> [m.ord EXCEPT ![id] = IF filled = o.quantity THEN Ended(after, "filled") ELSE after]]

\* commit_match: orders, account and daily count change together.
MatchBar(s, bar) ==
  LET m == Ascending(LAMBDA id, n : MatchOne(n, id, bar),
                     [a |-> acct, ord |-> ord, share |-> IF s \in halted THEN 0 ELSE bar.share,
                      bought |-> bought[s], changed |-> {}],
                     EligibleFor(s))
  IN  /\ at = "market" /\ s \in due
      /\ acct' = m.a /\ ord' = m.ord /\ bought' = [bought EXCEPT ![s] = m.bought]
      /\ pending' = pending \o Told(m.changed, m.ord)
      /\ mark' = [mark EXCEPT ![s] = bar.close]
      /\ due' = due \ {s}
      /\ UNCHANGED <<at, time, host, closed, halted, told, goal>>

\* close_accounts: rights are recorded and dividends paid; nothing fails for it.
Closing == acct' = Advance(acct, "close").a

\* ... and the calls begin when all of them are matched; at the close, after it.
Barrier ==
  /\ at = "market" /\ due = {}
  /\ at' = "calls" /\ closed' = (time = Close)
  /\ IF time = Close THEN Closing ELSE UNCHANGED acct
  /\ UNCHANGED <<time, host, due, ord, Market, pending, told, goal>>

\* No bar ends at the close.
CloseEmpty ==
  /\ at = "calls" /\ ~closed /\ Drained
  /\ time' = Close /\ closed' = TRUE /\ Closing
  /\ UNCHANGED <<at, host, due, ord, Market, pending, told, goal>>

\* expire_day: the day orders of this session.
Expire ==
  LET old == {id \in Orders : Active(ord[id]) /\ ord[id].tif = "day" /\ ord[id].effective = acct.day} IN
  /\ at = "calls" /\ closed /\ Drained
  /\ at' = "after" /\ time' = Close + 1
  /\ acct' = Freed(acct, old)
  /\ ord' = EndAs(old, "expired", ord)
  /\ pending' = Told(old, ord')
  /\ goal' = Undone(old)
  /\ UNCHANGED <<host, closed, due, Market, told>>

EndSession ==
  /\ at = "after" /\ Drained
  /\ at' = "gap"
  /\ UNCHANGED <<time, host, closed, due, acct, ord, Market, pending, told, goal>>

-----------------------------------------------------------------------------
Strategy ==
  \/ Notify \/ Call \/ Return
  \/ \E c \in {intent \in Intents : intent.s \in Securities} : SubmitCovered(c) \/ Submit(c)
  \/ \E id \in Orders : Cancel(id)
Driver ==
  \/ \E stopped \in SUBSET Halting : Open(stopped)
  \/ Timer \/ Barrier \/ CloseEmpty \/ Expire \/ EndSession
  \/ \E S \in SUBSET Securities : Boundary(S)
  \/ \E s \in Securities, bar \in Markets : MatchBar(s, bar)

Next == Strategy \/ Driver
Spec == Init /\ [][Next]_vars

-----------------------------------------------------------------------------
(* Properties.                                                             *)

TypeOK ==
  /\ at \in {"gap", "calls", "market", "after"} /\ time \in 0..(Close + 1)
  /\ host \in BOOLEAN /\ closed \in BOOLEAN /\ due \subseteq Securities
  /\ AccountFits(acct)
  /\ \A id \in Orders :
       /\ ord[id].quantity \in Nat /\ ord[id].filled \in 0..ord[id].quantity
       /\ ord[id].status \in {"none", "open", "partial", "filled", "cancelled", "expired"}
  /\ bought \in [Securities -> Nat] /\ halted \subseteq Securities

\* Whatever fills, ends, splits or is replaced, in whatever order and at
\* whatever price, nothing is spent, sold, paid or counted twice.
AccountConsistent ==
  TypeOK /\ CashCovered(acct) /\ SharesCovered(acct) /\ BooksBalance(acct) /\ DividendsKept(acct)

\* The manager's orders and the account's reservations never part.
OrdersReserved ==
  \A id \in Orders : LET r == acct.reserved[id] IN
    IF Active(ord[id])
    THEN r.side = ord[id].side /\ r.s = ord[id].s /\ r.left = Rest(ord[id]) /\ r.limit = ord[id].limit
    ELSE r.side = "none"

\* After every partial fill, replacement and repetition, what is held and what
\* is ordered add up to the target that was promised.
GoalCovered ==
  \A s \in Securities :
    goal[s] # NoGoal =>
      acct.position[s].quantity + Total(LAMBDA id : Signed(ord[id]), Live(s)) = goal[s].quantity

\* The cap of a security under a risk warning holds for shares bought today
\* and still ordered, whatever was cancelled, sold or carried over.
RiskBounded ==
  \A s \in Risky :
    bought[s] + Total(LAMBDA id : Rest(ord[id]), {id \in Live(s) : ord[id].side = "buy"}) <= RiskCap

\* A strategy with nothing left to hear knows every one of its orders.
Informed == pending = <<>> => \A id \in Orders : told[id] = Word(ord[id])

\* No day order outlives its session, and none given after the close dies with it.
DayOrdersFit ==
  \A id \in Orders :
    Active(ord[id]) /\ ord[id].tif = "day" =>
      ord[id].effective >= acct.day + IF at \in {"after", "gap"} THEN 1 ELSE 0

\* Manager, account, calendar and strategy agree on every order.
OrdersAgree == OrdersReserved /\ Informed /\ DayOrdersFit

\* No order trades in a bar that had begun before the order was given: a
\* strategy never trades on what it could already see of the bar.
NoLookahead ==
  [][\A id \in Orders :
       ord'[id].filled # ord[id].filled =>
         ord[id].start[1] < acct.day \/ ord[id].start[2] <= time - 2]_vars

\* A target promised at the close for the next session outlives the session.
PromiseKept ==
  [][\A s \in Securities :
       /\ at = "calls" /\ at' = "after" /\ goal[s] # NoGoal /\ goal[s].effective > acct.day
       => acct'.position[s].quantity + Total(LAMBDA id : Signed(ord'[id]),
            {id \in Orders : ord'[id].s = s /\ Active(ord'[id])}) = goal[s].quantity]_vars

=============================================================================
