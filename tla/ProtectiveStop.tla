--------------------------- MODULE ProtectiveStop ---------------------------
(***************************************************************************)
(* The protective prices of one position, from an approved order to the    *)
(* close: construction and its gates (execution/pipeline.py), the snap to  *)
(* the instrument's price grid, the confirmation and repair of the stop    *)
(* (broker/oanda_adapter.py), registration and restart adoption            *)
(* (execution/close_tracker.py), and the breakeven and trailing rules      *)
(* (broker/position_manager.py).                                           *)
(*                                                                         *)
(* Prices are integers; the instrument's grid is the multiples of Tick.    *)
(* What gets an order sent at most once is OrderPath's, what becomes of    *)
(* its close CloseTracking's: here a redelivery finds the fill, and a      *)
(* close ends the position.  Sizes play no part.                           *)
(***************************************************************************)
EXTENDS Integers

CONSTANTS
  MaxPrice,     \* the highest price (bounds the model)
  Tick,         \* the instrument's price step (displayPrecision)
  DefaultTicks, \* what default_display_precision may give for the instrument
  Buffer,       \* breakeven_buffer_pips, as a price
  Trail,        \* trail_distance; 0 disables trailing
  Slip          \* how far from the reference the broker fills (bounds the model)

ASSUME StopAssumption ==
  /\ MaxPrice \in Nat /\ Tick \in Nat \ {0}
  /\ DefaultTicks \subseteq Nat \ {0}
  /\ \A step \in DefaultTicks : Tick % step = 0   \* no instrument is quoted finer
  /\ Buffer \in Nat /\ Trail \in Nat /\ Slip \in Nat

VARIABLES
  defaultTick,  \* the step format_price assumes for the instrument
  phase,        \* where the position stands
  order,        \* the constructed order
  sent,         \* the protective prices on the wire
  fill,         \* the price it was filled at
  stop,         \* the broker: the stop of the open position, or NoPrice
  mem,          \* the ManagedTrade: its initial and current stop, at_breakeven
  price,        \* the price of the tick being applied
  report,       \* the fill confirmation: none yet, the price of a stop, or NO_STOP_UNSAFE
  repaired,     \* the stop was attached by the repair (history)
  unread,       \* the confirmation names a stop although the trade was never read (history)
  behind        \* the record was left behind the broker's stop: the answer to a move
                \* was lost, or a redelivery registered an unread trade anew (history)

vars == <<defaultTick, phase, order, sent, fill, stop, mem, price, report, repaired,
          unread, behind>>

-----------------------------------------------------------------------------
Prices == 1..MaxPrice
NoPrice == 0
Inf == 2 * MaxPrice + 1
NaN == Inf + 1
Buy == 1
Sell == -1

TypeOK ==
  /\ defaultTick \in DefaultTicks
  /\ phase \in {"none", "sent", "filled", "managed", "breakeven", "trail"}
  /\ order \in [side : {Buy, Sell}, entry : Nat, sl : Nat, tp : Nat]
  /\ sent \in [sl : Nat, tp : Nat]
  /\ fill \in Nat /\ stop \in Nat /\ price \in Nat
  /\ mem \in [initial : Nat, current : Nat, atBreakeven : BOOLEAN]
  /\ report \in {"none", "stop", "unsafe"}
  /\ repaired \in BOOLEAN /\ unread \in BOOLEAN /\ behind \in BOOLEAN

NoOrder == [side |-> Buy, entry |-> NoPrice, sl |-> NoPrice, tp |-> NoPrice]
NotSent == [sl |-> NoPrice, tp |-> NoPrice]
Unmanaged == [initial |-> NoPrice, current |-> NoPrice, atBreakeven |-> FALSE]

Init ==
  /\ defaultTick \in DefaultTicks
  /\ phase = "none" /\ order = NoOrder /\ sent = NotSent
  /\ fill = NoPrice /\ stop = NoPrice /\ price = NoPrice
  /\ mem = Unmanaged /\ report = "none"
  /\ repaired = FALSE /\ unread = FALSE /\ behind = FALSE

-----------------------------------------------------------------------------
\* A comparison with NaN is false, whichever way it is put.
LessEq(x, y) == x # NaN /\ y # NaN /\ x <= y
Finite(x) == x \notin {NaN, Inf}

\* require_market_price: finite and above zero, or no order.
MarketPrice(x) == Finite(x) /\ ~LessEq(x, 0)

\* assert_protective_prices: both finite and positive, each on its side of the entry.
Sided(side, entry, sl, tp) ==
  IF side = Buy THEN ~LessEq(entry, sl) /\ ~LessEq(tp, entry)
  ELSE ~LessEq(sl, entry) /\ ~LessEq(entry, tp)
Protective_Sided(side, entry, sl, tp) == Sided(side, entry, sl, tp)
Protective(side, entry, sl, tp) ==
  /\ \A x \in {sl, tp} : Finite(x) /\ ~LessEq(x, 0)
  /\ Sided(side, entry, sl, tp)

\* _atr_stops with the default multipliers.
AtrStops(side, entry, atr) == [sl |-> entry - side * atr, tp |-> entry + side * 3 * atr]

\* The multiples of the step at or below, at or above, and nearest (ROUND_HALF_UP).
Down(x, step) == (x \div step) * step
Up(x, step) == ((x + step - 1) \div step) * step
Nearest(x, step) == ((2 * x + step) \div (2 * step)) * step

\* quantize_price with toward: never away from the reference.
Quantized_Nearest(x, toward, step) == Nearest(x, step)
Quantized(x, toward, step) ==
  IF x > toward THEN Down(x, step) ELSE IF x < toward THEN Up(x, step) ELSE Nearest(x, step)

\* modify_trade_stop renders with format_price: nearest, at the default precision.
Rendered(x) == Nearest(x, defaultTick)
\* The broker takes positive prices on its grid.
Accepts(x) == x > 0 /\ x % Tick = 0

-----------------------------------------------------------------------------
\* build_order and _build_payload: System 3's prices, or the ATR's, through the gates
\* before and after they are snapped.  The spec may be unknown: default precision.
Build(side, quote, stops) ==
  \E step \in {Tick, defaultTick} :
    LET onWire == [sl |-> Quantized(stops.sl, quote, step),
                   tp |-> Quantized(stops.tp, quote, step)]
    IN /\ MarketPrice(quote) /\ Protective(side, quote, stops.sl, stops.tp)
       /\ Protective(side, quote, onWire.sl, onWire.tp)
       /\ order' = [side |-> side, entry |-> quote, sl |-> stops.sl, tp |-> stops.tp]
       /\ sent' = onWire
Submit ==
  /\ phase = "none" /\ phase' = "sent"
  /\ \E side \in {Buy, Sell}, quote \in Prices \cup {Inf, NaN} :
       \/ \E sl, tp \in Prices \cup {0, Inf, NaN} : Build(side, quote, [sl |-> sl, tp |-> tp])
       \/ \E atr \in Prices : Finite(quote) /\ Build(side, quote, AtrStops(side, quote, atr))
  /\ UNCHANGED <<defaultTick, fill, stop, mem, price, report, repaired, unread, behind>>

\* The broker fills with the stop on the losing side and on its grid, and may leave it
\* off; or it opens nothing.
Fills ==
  /\ phase = "sent" /\ phase' = "filled"
  /\ Accepts(sent.sl) /\ Accepts(sent.tp)
  /\ \E p \in Prices :
       /\ p - order.entry \in (-Slip)..Slip /\ order.side * (p - sent.sl) > 0
       /\ fill' = p
  /\ stop' \in {sent.sl, NoPrice}
  /\ sent' = NotSent /\ order' = [order EXCEPT !.tp = NoPrice]
  /\ UNCHANGED <<defaultTick, mem, price, report, repaired, unread, behind>>

\* Nothing is left of the order: no fill, or the position closed at the broker.
Over ==
  /\ phase # "none" /\ phase' = "none"
  /\ order' = NoOrder /\ sent' = NotSent /\ fill' = NoPrice /\ stop' = NoPrice
  /\ mem' = Unmanaged /\ price' = NoPrice /\ report' = "none"
  /\ repaired' = FALSE /\ unread' = FALSE /\ behind' = FALSE
  /\ UNCHANGED defaultTick

-----------------------------------------------------------------------------
\* managed_trade_from_fill, managed_trade_from_broker_trade: current_stop starts as
\* the initial one.
Managed(initial) == [initial |-> initial, current |-> initial, atBreakeven |-> FALSE]
Registered(says, initial) ==
  /\ report' = says /\ mem' = Managed(initial) /\ phase' = "managed"

\* _confirm_stops.  A missing stop is attached; an attachment that fails is reported
\* NO_STOP_UNSAFE and the trade is managed as if it had the order's stop.  A trade that
\* cannot be read is reported with the order's stop, as one whose stop was attached is.
\* Where the process died before it, the redelivered order does it and registers the
\* adopted trade anew, unless the order has expired meanwhile.
Unconfirmed == phase = "managed" /\ report = "none"
Confirm ==
  /\ phase = "filled" \/ Unconfirmed
  /\ \/ /\ Registered("stop", order.sl) /\ UNCHANGED <<stop, repaired>>
        /\ unread' = TRUE /\ behind' = (behind \/ Unconfirmed)
     \/ /\ UNCHANGED <<unread, behind>>
        /\ \/ stop # NoPrice /\ Registered("stop", stop) /\ UNCHANGED <<stop, repaired>>
           \/ /\ stop = NoPrice /\ Accepts(Rendered(order.sl))
              /\ stop' = Rendered(order.sl) /\ repaired' = TRUE
              /\ \/ Registered("stop", order.sl) \/ Registered("unsafe", order.sl)
                 \/ UNCHANGED <<report, mem, phase>>
           \/ stop = NoPrice /\ Registered("unsafe", order.sl) /\ UNCHANGED <<stop, repaired>>
  /\ UNCHANGED <<defaultTick, order, sent, fill, price>>

\* The process dies: what it knew is gone, and startup_reconcile adopts the position
\* with the stop the broker has.
Adopted == mem' = Managed(stop) /\ phase' = "managed" /\ price' = NoPrice
Restart ==
  /\ phase \notin {"none", "sent"} /\ Adopted
  /\ UNCHANGED <<defaultTick, order, sent, fill, stop, report, repaired, unread, behind>>

-----------------------------------------------------------------------------
\* is_tighter, r_multiple against breakeven_r = 1, and the two stops the rules ask for.
Tighter_Swapped(new, current) == new > current
Tighter(new, current) == IF order.side = Buy THEN new > current ELSE new < current
Risk == IF fill > mem.initial THEN fill - mem.initial ELSE mem.initial - fill
AtOneR == Risk > 0 /\ order.side * (price - fill) >= Risk
BreakevenStop == fill + order.side * Buffer
TrailingStop == price - order.side * Trail

\* on_tick, at some price.
Ticks ==
  /\ phase = "managed" /\ phase' = "breakeven"
  /\ price' \in Prices
  /\ UNCHANGED <<defaultTick, order, sent, fill, stop, mem, report, repaired, unread, behind>>

\* _set_stop: the broker's stop moves and the record follows.  The call may fail, and
\* fail after it went through: the tick ends there and the record stays.
SetStop(new, then) ==
  /\ \/ /\ new > 0 /\ Accepts(Rendered(new)) /\ stop' = Rendered(new)
        /\ \/ /\ mem' = [mem EXCEPT !.current = new, !.atBreakeven = TRUE]
              /\ phase' = then /\ UNCHANGED behind
           \/ phase' = "managed" /\ behind' = TRUE /\ UNCHANGED mem
     \/ phase' = "managed" /\ UNCHANGED <<stop, mem, behind>>
  /\ price' = IF phase' = "managed" THEN NoPrice ELSE price
  /\ UNCHANGED <<defaultTick, order, sent, fill, report, repaired, unread>>
LeaveStop(then, atBreakeven) ==
  /\ phase' = then /\ mem' = [mem EXCEPT !.atBreakeven = atBreakeven]
  /\ price' = IF then = "managed" THEN NoPrice ELSE price
  /\ UNCHANGED <<defaultTick, order, sent, fill, stop, report, repaired, unread, behind>>

\* Breakeven once, at one R; then trailing, and only tighter.
Breakeven ==
  /\ phase = "breakeven"
  /\ IF ~mem.atBreakeven /\ AtOneR
     THEN IF Tighter(BreakevenStop, mem.current)
          THEN SetStop(BreakevenStop, "trail")
          ELSE LeaveStop("trail", TRUE)
     ELSE LeaveStop("trail", mem.atBreakeven)
Trailing ==
  /\ phase = "trail"
  /\ IF mem.atBreakeven /\ Trail > 0 /\ Tighter(TrailingStop, mem.current)
     THEN SetStop(TrailingStop, "managed")
     ELSE LeaveStop("managed", mem.atBreakeven)

Next == Submit \/ Fills \/ Over \/ Confirm \/ Restart \/ Ticks \/ Breakeven \/ Trailing
Spec == Init /\ [][Next]_vars

-----------------------------------------------------------------------------
\* How far x is on the winning side of y.
Ahead(x, y) == order.side * (x - y)

\* From the wire to the close the position is protected as approved: both prices on
\* the wire are positive and on their side of the entry, the stop is never further
\* from it than the approved one - but for the half step a repair may round it by, which
\* no later move loses either - and an open position without a stop was never reported
\* with one.  There the code has one exception: a trade that could not be read counts as
\* "not proven unsafe" and is reported with the stop of its order.
ProtectedAsApproved ==
  /\ phase = "sent" =>
       /\ sent.sl > 0 /\ sent.tp > 0
       /\ Ahead(sent.sl, order.entry) < 0 /\ Ahead(sent.tp, order.entry) > 0
       /\ Ahead(sent.sl, order.sl) >= 0
  /\ phase # "sent" /\ stop # NoPrice =>
       2 * Ahead(stop, order.sl) >= IF repaired THEN -defaultTick ELSE 0
  /\ phase \notin {"none", "sent", "filled"} /\ stop = NoPrice => report # "stop" \/ unread

\* The stop of an open position is never loosened: over ticks, rounding, failed moves
\* and restarts.  Only where the record was left behind the broker may a move go back.
StopOnlyTightens ==
  [][stop # NoPrice /\ phase' # "none" => Ahead(stop', stop) >= 0 \/ behind]_vars
=============================================================================
