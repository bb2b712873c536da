------------------------------ MODULE OrderBook -------------------------------
(***************************************************************************)
(* The market of the API server: handlers of routes/marketplace.rs put     *)
(* commands into the channel of the matching engine (matching/engine.rs),  *)
(* one task that owns the book (matching/order_book.rs); what it matches   *)
(* goes to the outbox (matching/outbox.rs), which streams each trade and   *)
(* then inserts it into a table of Supabase.                               *)
(*                                                                         *)
(* One instrument: the books of different pairs have nothing in common.    *)
(* Ids are fresh and given out in the order in which the orders enter the  *)
(* channel.  A client that hangs up changes nothing: the engine ignores    *)
(* that nobody takes its answer.  Depth and statistics only read.          *)
(***************************************************************************)
EXTENDS Integers, Sequences, SequencesExt

CONSTANTS
  MaxOrders,   \* bound: orders placed
  Terms,       \* what place_order lets through: see TermsType
  NoPrice,     \* the price of a market order, and of a limit order without
  Capacity     \* of the command channel

Price == {t.price : t \in Terms} \ {NoPrice}
TermsType ==
  [side : {"buy", "sell"}, price : Price \cup {NoPrice}, qty : Nat \ {0},
   kind : {"market", "GTC", "IOC", "FOK"}]

ASSUME OrderBookAssumption ==
  /\ MaxOrders \in Nat \ {0} /\ Capacity \in Nat \ {0}
  /\ NoPrice \notin Nat /\ Price \subseteq Nat /\ Terms \subseteq TermsType
  /\ \A t \in Terms : t.kind = "market" => t.price = NoPrice

VARIABLES
  book,      \* book[side]: bids or asks, price levels to queues of orders,
             \*   each with its id and what of it is filled
  index,     \* order_index: ids to side and price
  up,        \* has the engine's task not panicked?
  queue,     \* the command channel
  terms,     \* terms[o], what order o asks for; its length is the last id
  call,      \* call[o]: how far the handlers are with order o
  answer,    \* answer[o]: the MatchResult
  trades,    \* history: every trade, in order
  outbox,    \* trades on their way to the outbox, the first maybe streamed
  streamed,  \* history: how many trades were published
  recorded   \* the table of trades

engine == <<book, index, up>>
delivery == <<outbox, streamed, recorded>>
bookVars == <<engine, queue, terms, call, answer, trades, delivery>>

Side == {"buy", "sell"}
Opposite(s) == CHOOSE t \in Side : t # s
Order == 1..Len(terms)
NoAnswer == [status |-> "none", remaining |-> 0]
EmptyBook == [s \in Side |-> <<>>]

\* PriceLevel: bids from the highest price down, asks from the lowest up.
Before(s, p, q) == IF s = "buy" THEN p > q ELSE p < q

\* Faulty variant: only what is better than the limit.
TakesBetter(t, p) ==
  t.price # NoPrice => IF t.side = "buy" THEN t.price > p ELSE t.price < p

\* Does an order on these terms take what rests at price p?
Takes(t, p) ==
  t.price # NoPrice => IF t.side = "buy" THEN t.price >= p ELSE t.price <= p

Least(a, b) == IF a < b THEN a ELSE b
Without(f, ids) == [i \in DOMAIN f \ ids |-> f[i]]

\* The levels of one side when the orders at price p have become these.
WithLevel(levels, p, orders) ==
  IF orders = <<>> THEN Without(levels, {p})
  ELSE [q \in DOMAIN levels \cup {p} |-> IF q = p THEN orders ELSE levels[q]]

\* The prices order o would trade at, and the one whose turn it is.
Reach(levels, o) == {p \in DOMAIN levels : Takes(terms[o], p)}
Best(s, P) == CHOOSE p \in P : \A q \in P \ {p} : Before(s, p, q)

\* One turn of the loops of match_against_book, for order o.  In w are the book,
\* the index, what is left of o and the trades so far.  A filled order leaves its
\* level and the index, an emptied level leaves the book.
Meet(w, o) ==
  LET s == Opposite(terms[o].side)
      p == Best(s, Reach(w.book[s], o))
      r == Head(w.book[s][p])
      n == Least(w.left, terms[r.id].qty - r.filled)
      full == r.filled + n = terms[r.id].qty
      others == Tail(w.book[s][p])
      orders == IF full THEN others ELSE <<[r EXCEPT !.filled = @ + n]>> \o others
  IN [book |-> [w.book EXCEPT ![s] = WithLevel(@, p, orders)],
      index |-> IF full THEN Without(w.index, {r.id}) ELSE w.index,
      left |-> w.left - n,
      trades |-> Append(w.trades, [taker |-> o, maker |-> r.id, qty |-> n, price |-> p])]

\* match_against_book.  A turn trades at least 1, so there are at most qty.
Unmatched(o) == [book |-> book, index |-> index, left |-> terms[o].qty, trades |-> <<>>]
Matched(o) ==
  LET over(w) == w.left = 0 \/ Reach(w.book[Opposite(terms[o].side)], o) = {}
      after[i \in 0..terms[o].qty] ==
        IF i = 0 THEN Unmatched(o)
        ELSE IF over(after[i - 1]) THEN after[i - 1] ELSE Meet(after[i - 1], o)
  IN after[terms[o].qty]

\* Faulty variant: in front of what waits at its price.
InsertFirst(b, o, filled) ==
  LET t == terms[o]
      old == IF t.price \in DOMAIN b[t.side] THEN b[t.side][t.price] ELSE <<>>
  IN [b EXCEPT ![t.side] = WithLevel(@, t.price, <<[id |-> o, filled |-> filled]>> \o old)]
\* insert_resting_order: behind everything at its price.
InsertResting(b, o, filled) ==
  LET t == terms[o]
      old == IF t.price \in DOMAIN b[t.side] THEN b[t.side][t.price] ELSE <<>>
  IN [b EXCEPT ![t.side] = WithLevel(@, t.price, Append(old, [id |-> o, filled |-> filled]))]

\* Faulty variant: a fill-or-kill order is told what it would have filled.
ResultPartial(t, left, ts) ==
  [status |-> IF left = 0 THEN "Filled" ELSE "Cancelled", remaining |-> left]
\* The MatchResult of an order that was matched with the trades ts.
Result(t, left, ts) ==
  CASE left = 0 -> [status |-> "Filled", remaining |-> 0]
    [] left # 0 /\ t.kind = "market" -> [status |-> "Cancelled", remaining |-> left]
    [] left # 0 /\ t.kind = "FOK" -> [status |-> "Cancelled", remaining |-> t.qty]
    [] left # 0 /\ t.kind = "IOC" ->
         [status |-> IF ts = <<>> THEN "Cancelled" ELSE "PartiallyFilled", remaining |-> left]
    [] left # 0 /\ t.kind = "GTC" ->
         [status |-> IF ts = <<>> THEN "Resting" ELSE "PartiallyFilled", remaining |-> left]

\* The trades the engine reports of them.
Reported(t, left, ts) == IF t.kind = "FOK" /\ left > 0 THEN <<>> ELSE ts

Rests(t, left) == t.kind = "GTC" /\ left > 0

BookInit ==
  /\ book = EmptyBook /\ index = <<>> /\ up = TRUE
  /\ queue = <<>> /\ terms = <<>> /\ call = <<>> /\ answer = <<>>
  /\ trades = <<>> /\ outbox = <<>> /\ streamed = 0 /\ recorded = {}

-----------------------------------------------------------------------------
(* The handlers. *)

\* place_order up to where it waits for the engine's answer.
Place(t) ==
  LET o == Len(terms) + 1 IN
  /\ o <= MaxOrders /\ Len(queue) < Capacity
  /\ terms' = Append(terms, t)
  /\ answer' = Append(answer, NoAnswer)
  /\ IF up THEN /\ queue' = Append(queue, [kind |-> "submit", id |-> o])
                /\ call' = Append(call, "placing")
           ELSE call' = Append(call, "failed") /\ UNCHANGED queue
  /\ UNCHANGED <<engine, trades, delivery>>

\* cancel_order of an order the client knows by the answer to place_order.
Cancel(o) ==
  /\ call[o] = "placed" /\ Len(queue) < Capacity
  /\ IF up THEN /\ queue' = Append(queue, [kind |-> "cancel", id |-> o])
                /\ call' = [call EXCEPT ![o] = "cancelling"]
           ELSE call' = [call EXCEPT ![o] = "fallback"] /\ UNCHANGED queue
  /\ UNCHANGED <<engine, terms, answer, trades, delivery>>

\* The engine knew no such order: the row in Supabase is marked, if there is one,
\* and the client is told so; or the request fails.
Fallback(o) ==
  /\ call[o] = "fallback"
  /\ \E c \in {"cancelled", "failed"} : call' = [call EXCEPT ![o] = c]
  /\ UNCHANGED <<engine, queue, terms, answer, trades, delivery>>

-----------------------------------------------------------------------------
(* The engine's task. *)

Command(kind) == up /\ queue # <<>> /\ Head(queue).kind = kind /\ queue' = Tail(queue)

\* submit_order, but for a limit order without price that is to rest.
Submit ==
  /\ Command("submit")
  /\ LET o == Head(queue).id
         t == terms[o]
         w == IF t.kind # "market" /\ t.price = NoPrice THEN Unmatched(o) ELSE Matched(o)
         ts == Reported(t, w.left, w.trades)
     IN /\ t.kind = "GTC" => t.price # NoPrice
        /\ book' = IF Rests(t, w.left) THEN InsertResting(w.book, o, t.qty - w.left) ELSE w.book
        /\ index' = IF Rests(t, w.left)
                    THEN [i \in DOMAIN w.index \cup {o} |->
                            IF i = o THEN [side |-> t.side, price |-> t.price] ELSE w.index[i]]
                    ELSE w.index
        /\ trades' = trades \o ts
        /\ outbox' = outbox \o ts
        /\ answer' = [answer EXCEPT ![o] = Result(t, w.left, w.trades)]
        /\ call' = [call EXCEPT ![o] = "placed"]
  /\ UNCHANGED <<up, terms, streamed, recorded>>

\* Faulty variant: only those who place an order learn that it is gone.
ClosedPlacing(c) == IF c = "placing" THEN "failed" ELSE c
\* What a handler makes of a closed answer channel.
Closed(c) == CASE c = "placing" -> "failed" [] c = "cancelling" -> "fallback" [] OTHER -> c

\* insert_resting_order expects a price: the task ends, and with it the book
\* and everything in the channel, whose senders find their answers closed.
Panic ==
  /\ up /\ queue # <<>> /\ Head(queue).kind = "submit"
  /\ LET t == terms[Head(queue).id] IN t.kind = "GTC" /\ t.price = NoPrice
  /\ up' = FALSE /\ book' = EmptyBook /\ index' = <<>> /\ queue' = <<>>
  /\ call' = [o \in Order |-> Closed(call[o])]
  /\ UNCHANGED <<terms, answer, trades, delivery>>

RemovedIndexOnly(o) == book   \* Faulty variant: the order stays at its level.
\* The order is looked for at the level the index names.
Removed(o) ==
  LET s == index[o].side
      orders == book[s][index[o].price]
      pos == CHOOSE i \in DOMAIN orders : orders[i].id = o
  IN [book EXCEPT ![s] = WithLevel(@, index[o].price, RemoveAt(orders, pos))]

\* cancel_order of the book.
TakeOut ==
  /\ Command("cancel")
  /\ LET o == Head(queue).id IN
     /\ IF o \in DOMAIN index
        THEN /\ book' = Removed(o)
             /\ index' = Without(index, {o})
             /\ call' = [call EXCEPT ![o] = "cancelled"]
        ELSE /\ call' = [call EXCEPT ![o] = "fallback"]
             /\ UNCHANGED <<book, index>>
  /\ UNCHANGED <<up, terms, answer, trades, delivery>>

-----------------------------------------------------------------------------
(* The outbox. *)

Stream ==
  /\ outbox # <<>> /\ streamed = Len(trades) - Len(outbox)
  /\ streamed' = streamed + 1
  /\ UNCHANGED <<engine, queue, terms, call, answer, trades, outbox, recorded>>

\* insert_row; an error is logged and the trade is dropped.
SaveTrade(ok) ==
  /\ outbox # <<>> /\ streamed > Len(trades) - Len(outbox)
  /\ outbox' = Tail(outbox)
  /\ recorded' = IF ok THEN recorded \cup {Head(outbox)} ELSE recorded
  /\ UNCHANGED <<engine, queue, terms, call, answer, trades, streamed>>

BookNext ==
  \/ \E t \in Terms : Place(t)
  \/ \E o \in Order : Cancel(o) \/ Fallback(o)
  \/ Submit \/ Panic \/ TakeOut
  \/ Stream \/ \E ok \in BOOLEAN : SaveTrade(ok)

\* The engine has taken a command, or has ended with all that were waiting.
\* Whenever there is one, Submit, Panic or TakeOut can do this.
Served == queue # <<>> /\ queue' \in {Tail(queue), <<>>}

\* The engine takes what is in its channel, the outbox and a handler go on.
BookFairness ==
  /\ WF_queue(Served)
  /\ WF_bookVars(Stream \/ \E ok \in BOOLEAN : SaveTrade(ok))
  /\ WF_bookVars(\E o \in Order : Fallback(o))

BookSpec == BookInit /\ [][BookNext]_bookVars /\ BookFairness

-----------------------------------------------------------------------------
(* Properties. *)

Resting == [id : Order, filled : Nat]
Trade == [taker : Order, maker : Order, qty : Nat \ {0}, price : Price]

BookTypeOK ==
  /\ \A s \in Side : /\ DOMAIN book[s] \subseteq Price
                     /\ \A p \in DOMAIN book[s] : book[s][p] \in Seq(Resting)
  /\ DOMAIN index \subseteq Order /\ up \in BOOLEAN
  /\ queue \in Seq([kind : {"submit", "cancel"}, id : Order])
  /\ terms \in Seq(Terms)
  /\ call \in [Order -> {"placing", "placed", "failed", "cancelling", "fallback", "cancelled"}]
  /\ DOMAIN answer = Order
  /\ trades \in Seq(Trade) /\ outbox \in Seq(Trade)
  /\ streamed \in 0..Len(trades) /\ recorded \subseteq Range(trades)

\* order_index and the two trees tell of the same orders: every resting order is
\* found under the side and price the index has for it, once, no level is empty,
\* and what rests still has something to give.  Cancelling (order_book.rs:126)
\* and order_count rely on it, and three places keep it up separately.
IndexAgrees ==
  /\ \A s \in Side : \A p \in DOMAIN book[s] :
       /\ book[s][p] # <<>>
       /\ \A r \in Range(book[s][p]) :
            /\ r.id \in DOMAIN index /\ index[r.id] = [side |-> s, price |-> p]
            /\ r.filled < terms[r.id].qty
  /\ \A o \in DOMAIN index :
       LET levels == book[index[o].side] IN
       /\ index[o].price \in DOMAIN levels
       /\ \E i \in DOMAIN levels[index[o].price] :
            \A j \in DOMAIN levels[index[o].price] :
              levels[index[o].price][j].id = o <=> i = j

\* No bid at or above an ask is left to rest: what can trade has traded.
Uncrossed ==
  \A p \in DOMAIN book["buy"], q \in DOMAIN book["sell"] : p < q

\* What place_order answers is what happened: the remaining quantity is what
\* its reported trades left, and the status tells whether it rests.
Amount(ts, role, o) ==
  LET sum[i \in 0..Len(ts)] ==
        IF i = 0 THEN 0 ELSE sum[i - 1] + (IF ts[i][role] = o THEN ts[i].qty ELSE 0)
  IN sum[Len(ts)]
AnswersTrue ==
  \A o \in Order : answer[o] # NoAnswer =>
    LET taken == Amount(trades, "taker", o)
        a == answer[o]
    IN /\ a.remaining = terms[o].qty - taken
       /\ (a.status = "Filled") = (a.remaining = 0)
       /\ (a.status = "Resting") = (terms[o].kind = "GTC" /\ taken = 0)
       /\ (a.status = "PartiallyFilled") => taken # 0 /\ terms[o].kind \in {"GTC", "IOC"}
       /\ (a.status = "Cancelled") => terms[o].kind # "GTC"

\* No trade is outside what either order allows, neither in price nor, with
\* all its other trades, in quantity.
Traded(ts, o) == Amount(ts, "taker", o) + Amount(ts, "maker", o)
WithinLimits ==
  /\ \A i \in DOMAIN trades : LET t == trades[i] IN
       /\ terms[t.taker].side # terms[t.maker].side
       /\ terms[t.maker].price = t.price
       /\ LET u == terms[t.taker] IN
          u.price = NoPrice \/ IF u.side = "buy" THEN t.price <= u.price ELSE t.price >= u.price
  /\ \A o \in Order : Traded(trades, o) <= terms[o].qty

\* The types, and a book that is in order and has kept to what orders allow.
BookSound == BookTypeOK /\ IndexAgrees /\ Uncrossed /\ WithinLimits

\* Price-time priority, the promise in the head of order_book.rs: an order that
\* gets a trade leaves none behind on its side that was ahead of it, by a better
\* price or by an earlier entry at the same one.
Waiting(s, p) == {r.id : r \in Range(book[s][p])}
Given(o) == \E i \in (Len(trades) + 1)..Len(trades') : trades'[i].maker = o
PriceTime ==
  [][\A s \in Side : \A p, q \in DOMAIN book[s] : \A x \in Waiting(s, p), y \in Waiting(s, q) :
       (Before(s, p, q) \/ (p = q /\ x < y)) /\ Given(y)
         => Given(x) /\ x \notin DOMAIN index']_bookVars

\* An order the API has called cancelled does not trade after that.
CancelledStops ==
  [][\A o \in Order : call[o] = "cancelled" =>
       \A i \in (Len(trades) + 1)..Len(trades') : o \notin {trades'[i].maker, trades'[i].taker}]_bookVars

\* Whoever places or cancels an order gets an answer, also when the engine's
\* task is gone.
Answered ==
  \A o \in 1..MaxOrders :
    (o \in Order /\ call[o] \in {"placing", "cancelling", "fallback"})
      ~> (o \in Order /\ call[o] \in {"placed", "cancelled", "failed"})

\* Every trade is published, and none is still on its way to the table.
Delivered == [](trades # <<>> => <>(streamed = Len(trades) /\ outbox = <<>>))

\* Every handler and every trade gets to its end.
Settles == Answered /\ Delivered

\* An order that rested leaves the book when it is cancelled or when its trades
\* amount to its quantity.  The fill-or-kill branch of submit_order
\* (order_book.rs:88) answers that nothing happened, as test_fok_rejects_partial
\* expects, after the walk has filled and removed resting orders: so they may
\* be gone without a trade.
GoneIsTraded ==
  \A o \in Order :
    up /\ answer[o] # NoAnswer /\ terms[o].kind = "GTC" /\ o \notin DOMAIN index
       /\ call[o] # "cancelled"
    => Traded(trades, o) = terms[o].qty

\* Orders that rest have a price, as insert_resting_order expects
\* (order_book.rs:235); place_order accepts a limit order without one, and the
\* engine's task ends.
RestingPriced == up
==============================================================================
