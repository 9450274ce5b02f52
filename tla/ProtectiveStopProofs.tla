------------------------ MODULE ProtectiveStopProofs ------------------------
(***************************************************************************)
(* Proofs about ProtectiveStop, for any prices, price steps, buffer, trail *)
(* distance and slippage.  The first part is about the price grid: what    *)
(* quantize_price does to an order of prices.  The second is the inductive *)
(* invariant: the stop the rules will ask for, once rounded, is never      *)
(* behind the stop the broker has, as long as the record keeps up with it. *)
(***************************************************************************)
EXTENDS ProtectiveStop, TLAPS

-----------------------------------------------------------------------------
\* The price grid.
LEMMA Division ==
  ASSUME NEW x \in Int, NEW step \in Nat \ {0}
  PROVE  /\ x \div step \in Int
         /\ (x \div step) * step <= x /\ x < (x \div step) * step + step
BY Z3

LEMMA DownBounds ==
  ASSUME NEW x \in Int, NEW step \in Nat \ {0}
  PROVE  Down(x, step) \in Int /\ Down(x, step) <= x /\ x < Down(x, step) + step
BY Division DEF Down

LEMMA UpBounds ==
  ASSUME NEW x \in Int, NEW step \in Nat \ {0}
  PROVE  Up(x, step) \in Int /\ x <= Up(x, step) /\ Up(x, step) < x + step
<1>1. x + step - 1 \in Int
  OBVIOUS
<1>2. Up(x, step) \in Int /\ Up(x, step) <= x + step - 1 /\ x + step - 1 < Up(x, step) + step
  BY <1>1, Division DEF Up
<1> QED
  BY <1>2

LEMMA NearestBounds ==
  ASSUME NEW x \in Int, NEW step \in Nat \ {0}
  PROVE  Nearest(x, step) \in Int /\ 2 * Nearest(x, step) <= 2 * x + step
         /\ 2 * x - step <= 2 * Nearest(x, step)
<1>1. 2 * x + step \in Int /\ 2 * step \in Nat \ {0}
  OBVIOUS
<1> DEFINE q == (2 * x + step) \div (2 * step)
<1>2. q \in Int /\ q * (2 * step) <= 2 * x + step /\ 2 * x + step < q * (2 * step) + 2 * step
  BY <1>1, Division
<1>3. q * (2 * step) = 2 * (q * step) /\ q * step \in Int
  BY <1>2, Z3
<1>4. Nearest(x, step) = q * step
  BY DEF Nearest
<1> HIDE DEF q
<1> QED
  BY <1>2, <1>3, <1>4

LEMMA NearestMonotone ==
  ASSUME NEW x \in Int, NEW y \in Int, NEW step \in Nat \ {0}, x <= y
  PROVE  Nearest(x, step) <= Nearest(y, step)
<1> DEFINE p == (2 * x + step) \div (2 * step)
           q == (2 * y + step) \div (2 * step)
<1>1. 2 * x + step \in Int /\ 2 * y + step \in Int /\ 2 * step \in Nat \ {0}
  OBVIOUS
<1>2. p \in Int /\ p * (2 * step) <= 2 * x + step
  BY <1>1, Division
<1>3. q \in Int /\ 2 * y + step < q * (2 * step) + 2 * step
  BY <1>1, Division
<1>4. Nearest(x, step) = p * step /\ Nearest(y, step) = q * step
  BY DEF Nearest
<1> HIDE DEF p, q
<1>5. p * (2 * step) < (q + 1) * (2 * step)
  BY <1>2, <1>3, Z3
<1>6. p <= q
  BY <1>2, <1>3, <1>5, Z3
<1> QED
  BY <1>2, <1>3, <1>4, <1>6, Z3

LEMMA NearestOnGrid ==
  ASSUME NEW k \in Int, NEW step \in Nat \ {0}
  PROVE  Nearest(k * step, step) = k * step
<1> DEFINE q == (2 * (k * step) + step) \div (2 * step)
<1>1. k * step \in Int /\ 2 * (k * step) + step \in Int /\ 2 * step \in Nat \ {0}
  BY Z3
<1>2. q \in Int /\ q * (2 * step) <= 2 * (k * step) + step
      /\ 2 * (k * step) + step < q * (2 * step) + 2 * step
  BY <1>1, Division
<1>3. Nearest(k * step, step) = q * step
  BY DEF Nearest
<1> HIDE DEF q
<1>4. q * step <= k * step + step /\ k * step < (q + 1) * step
  BY <1>1, <1>2, Z3
<1>5. q * (2 * step) < (k + 1) * (2 * step) /\ k * (2 * step) < (q + 1) * (2 * step)
  BY <1>2, Z3
<1>6. q < k + 1 /\ k < q + 1
  BY <1>2, <1>5, Z3
<1> QED
  BY <1>2, <1>3, <1>6

LEMMA Multiples ==
  ASSUME NEW x \in Int, NEW step \in Nat \ {0}
  PROVE  x % step = 0 <=> \E k \in Int : x = k * step
<1>1. ASSUME x % step = 0 PROVE \E k \in Int : x = k * step
  BY <1>1, Z3
<1>2. ASSUME NEW k \in Int, x = k * step PROVE x % step = 0
  BY <1>2, Z3
<1> QED
  BY <1>1, <1>2

LEMMA GridFiner ==
  ASSUME NEW x \in Int, NEW step \in Nat \ {0}, NEW fine \in Nat \ {0},
         x % step = 0, step % fine = 0
  PROVE  x % fine = 0
<1>1. PICK k \in Int : x = k * step
  BY Multiples
<1>2. PICK j \in Int : step = j * fine
  BY Multiples
<1>3. k * j \in Int /\ x = (k * j) * fine
  BY <1>1, <1>2, Z3
<1> QED
  BY <1>3, Multiples

LEMMA Sides ==
  ASSUME NEW side \in {Buy, Sell}, NEW x \in Int, NEW y \in Int
  PROVE  /\ side = Buy => side * (x - y) = x - y
         /\ side = Sell => side * (x - y) = y - x
BY DEF Buy, Sell

\* Rounding keeps one price ahead of another, on either side of the market, and does
\* not move one that is on the grid.
LEMMA NearestKeepsAhead ==
  ASSUME NEW side \in {Buy, Sell}, NEW x \in Int, NEW y \in Int, NEW step \in Nat \ {0},
         side * (x - y) >= 0
  PROVE  side * (Nearest(x, step) - Nearest(y, step)) >= 0
<1>0. Nearest(x, step) \in Int /\ Nearest(y, step) \in Int
  BY NearestBounds
<1>1. CASE side = Buy
  <2>1. y <= x
    BY <1>1 DEF Buy
  <2> QED
    BY <1>0, <1>1, <2>1, NearestMonotone DEF Buy
<1>2. CASE side = Sell
  <2>1. x <= y
    BY <1>2 DEF Sell
  <2> QED
    BY <1>0, <1>2, <2>1, NearestMonotone DEF Sell
<1> QED
  BY <1>1, <1>2

LEMMA NearestFixed ==
  ASSUME NEW x \in Int, NEW step \in Nat \ {0}, x % step = 0
  PROVE  Nearest(x, step) = x
<1>1. PICK k \in Int : x = k * step
  BY Multiples
<1> QED
  BY <1>1, NearestOnGrid

LEMMA NearestIsMultiple ==
  ASSUME NEW x \in Int, NEW step \in Nat \ {0}
  PROVE  Nearest(x, step) % step = 0
<1> DEFINE q == (2 * x + step) \div (2 * step)
<1>1. 2 * x + step \in Int /\ 2 * step \in Nat \ {0}
  OBVIOUS
<1>2. q \in Int
  BY <1>1, Division
<1>3. Nearest(x, step) = q * step
  BY DEF Nearest
<1> HIDE DEF q
<1> QED
  BY <1>2, <1>3, NearestBounds, Multiples

LEMMA NearestTwice ==
  ASSUME NEW x \in Int, NEW step \in Nat \ {0}
  PROVE  Nearest(Nearest(x, step), step) = Nearest(x, step)
BY NearestBounds, NearestIsMultiple, NearestFixed

\* quantize_price toward a reference: never away from it.
LEMMA QuantizedToward ==
  ASSUME NEW x \in Int, NEW toward \in Int, NEW step \in Nat \ {0}
  PROVE  /\ Quantized(x, toward, step) \in Int
         /\ x > toward => Quantized(x, toward, step) <= x
         /\ x < toward => Quantized(x, toward, step) >= x
<1>1. Down(x, step) \in Int /\ Down(x, step) <= x
  BY DownBounds
<1>2. Up(x, step) \in Int /\ Up(x, step) >= x
  BY UpBounds
<1>3. Nearest(x, step) \in Int
  BY NearestBounds
<1> QED
  BY <1>1, <1>2, <1>3 DEF Quantized

-----------------------------------------------------------------------------
LEMMA Constants ==
  /\ MaxPrice \in Nat /\ Tick \in Nat \ {0} /\ DefaultTicks \subseteq Nat \ {0}
  /\ \A step \in DefaultTicks : Tick % step = 0
  /\ Buffer \in Nat /\ Trail \in Nat /\ Slip \in Nat
BY StopAssumption DEF StopAssumption

\* What passes the two gates of an order: a positive entry, both prices positive and on
\* their side of it, and the stop on the wire not behind the approved one.
LEMMA BuildMeans ==
  ASSUME TypeOK, NEW side \in {Buy, Sell}, NEW quote \in Nat, NEW stops,
         stops.sl \in Int, stops.tp \in Int, Build(side, quote, stops)
  PROVE  /\ order' \in [side : {Buy, Sell}, entry : Nat, sl : Nat, tp : Nat]
         /\ sent' \in [sl : Nat, tp : Nat]
         /\ order'.side = side /\ order'.entry = quote /\ order'.sl = stops.sl
         /\ sent'.sl > 0 /\ sent'.tp > 0
         /\ side * (sent'.sl - quote) < 0 /\ side * (sent'.tp - quote) > 0
         /\ side * (sent'.sl - stops.sl) >= 0
<1>1. PICK step \in {Tick, defaultTick} :
        LET onWire == [sl |-> Quantized(stops.sl, quote, step),
                       tp |-> Quantized(stops.tp, quote, step)]
        IN /\ Protective(side, quote, stops.sl, stops.tp)
           /\ Protective(side, quote, onWire.sl, onWire.tp)
           /\ order' = [side |-> side, entry |-> quote, sl |-> stops.sl, tp |-> stops.tp]
           /\ sent' = onWire
  BY DEF Build
<1> DEFINE sl == Quantized(stops.sl, quote, step)
           tp == Quantized(stops.tp, quote, step)
<1>2. step \in Nat \ {0}
  BY Constants DEF TypeOK
<1>3. sl \in Int /\ tp \in Int
      /\ (stops.sl > quote => sl <= stops.sl) /\ (stops.sl < quote => sl >= stops.sl)
  <2>1. ASSUME NEW x \in Int
        PROVE  /\ Quantized(x, quote, step) \in Int
               /\ x > quote => Quantized(x, quote, step) <= x
               /\ x < quote => Quantized(x, quote, step) >= x
    <3>1. quote \in Int
      OBVIOUS
    <3> QED
      BY <1>2, <3>1, QuantizedToward
  <2> QED
    BY <2>1
<1>4. /\ Protective(side, quote, stops.sl, stops.tp) /\ Protective(side, quote, sl, tp)
      /\ order' = [side |-> side, entry |-> quote, sl |-> stops.sl, tp |-> stops.tp]
      /\ sent' = [sl |-> sl, tp |-> tp]
  BY <1>1
<1> HIDE DEF sl, tp
<1>5. /\ stops.sl > 0 /\ stops.tp > 0 /\ sl > 0 /\ tp > 0
  <2>1. MaxPrice \in Nat
    BY Constants
  <2> QED
    BY <1>3, <1>4, <2>1 DEF Protective, LessEq, Finite, Inf, NaN
<1>6. quote # NaN
  BY DEF Build, MarketPrice, Finite
<1>7. /\ side = Buy => stops.sl < quote /\ sl < quote /\ quote < tp
      /\ side = Sell => quote < stops.sl /\ quote < sl /\ tp < quote
  BY <1>3, <1>4, <1>6 DEF Protective, Sided, LessEq, Finite, Buy, Sell
<1>8. /\ order' \in [side : {Buy, Sell}, entry : Nat, sl : Nat, tp : Nat]
      /\ sent' \in [sl : Nat, tp : Nat]
      /\ order'.side = side /\ order'.entry = quote /\ order'.sl = stops.sl
      /\ sent'.sl = sl /\ sent'.tp = tp
  BY <1>3, <1>4, <1>5
<1>9. side * (sl - quote) < 0 /\ side * (tp - quote) > 0 /\ side * (sl - stops.sl) >= 0
  <2>1. quote \in Int
    OBVIOUS
  <2>2. /\ side = Buy => side * (sl - quote) = sl - quote
        /\ side = Sell => side * (sl - quote) = quote - sl
    BY <1>3, <2>1, Sides
  <2>3. /\ side = Buy => side * (tp - quote) = tp - quote
        /\ side = Sell => side * (tp - quote) = quote - tp
    BY <1>3, <2>1, Sides
  <2>4. /\ side = Buy => side * (sl - stops.sl) = sl - stops.sl
        /\ side = Sell => side * (sl - stops.sl) = stops.sl - sl
    BY <1>3, Sides
  <2> QED
    BY <1>3, <1>7, <2>2, <2>3, <2>4
<1> QED
  BY <1>5, <1>8, <1>9

LEMMA SubmitMeans ==
  ASSUME TypeOK, Submit
  PROVE  /\ order' \in [side : {Buy, Sell}, entry : Nat, sl : Nat, tp : Nat]
         /\ sent' \in [sl : Nat, tp : Nat]
         /\ sent'.sl > 0 /\ sent'.tp > 0
         /\ order'.side * (sent'.sl - order'.entry) < 0
         /\ order'.side * (sent'.tp - order'.entry) > 0
         /\ order'.side * (sent'.sl - order'.sl) >= 0
<1> USE Constants
<1>1. PICK side \in {Buy, Sell}, quote \in Prices \cup {Inf, NaN} :
        \/ \E sl, tp \in Prices \cup {0, Inf, NaN} : Build(side, quote, [sl |-> sl, tp |-> tp])
        \/ \E atr \in Prices : Finite(quote) /\ Build(side, quote, AtrStops(side, quote, atr))
  BY DEF Submit
<1>2. quote \in Nat
  BY DEF Prices, Inf, NaN
<1>3. CASE \E sl, tp \in Prices \cup {0, Inf, NaN} : Build(side, quote, [sl |-> sl, tp |-> tp])
  <2>1. PICK sl, tp \in Prices \cup {0, Inf, NaN} : Build(side, quote, [sl |-> sl, tp |-> tp])
    BY <1>3
  <2>2. sl \in Int /\ tp \in Int
    BY DEF Prices, Inf, NaN
  <2> QED
    BY <1>2, <2>1, <2>2, BuildMeans
<1>4. CASE \E atr \in Prices : Finite(quote) /\ Build(side, quote, AtrStops(side, quote, atr))
  <2>1. PICK atr \in Prices : Build(side, quote, AtrStops(side, quote, atr))
    BY <1>4
  <2>2. AtrStops(side, quote, atr).sl \in Int /\ AtrStops(side, quote, atr).tp \in Int
    BY <1>2 DEF AtrStops, Prices, Buy, Sell
  <2> QED
    BY <1>2, <2>1, <2>2, BuildMeans
<1> QED
  BY <1>1, <1>3, <1>4

-----------------------------------------------------------------------------
\* format_price at the instrument's default precision, as a function of the price.
LEMMA RenderedBehaves ==
  ASSUME TypeOK, NEW x \in Int
  PROVE  /\ Rendered(x) \in Int /\ Rendered(Rendered(x)) = Rendered(x)
         /\ 2 * Rendered(x) <= 2 * x + defaultTick /\ 2 * x - defaultTick <= 2 * Rendered(x)
         /\ x % Tick = 0 => Rendered(x) = x
<1>1. defaultTick \in Nat \ {0} /\ Tick % defaultTick = 0 /\ Tick \in Nat \ {0}
  BY Constants DEF TypeOK
<1>2. x % Tick = 0 => x % defaultTick = 0
  BY <1>1, GridFiner
<1> QED
  BY <1>1, <1>2, NearestBounds, NearestTwice, NearestFixed DEF Rendered

LEMMA RenderedKeepsAhead ==
  ASSUME TypeOK, NEW x \in Int, NEW y \in Int, order.side * (x - y) >= 0
  PROVE  order.side * (Rendered(x) - Rendered(y)) >= 0
<1>1. defaultTick \in Nat \ {0} /\ order.side \in {Buy, Sell}
  BY Constants DEF TypeOK
<1> QED
  BY <1>1, NearestKeepsAhead DEF Rendered

\* What a move of the stop does, and the two prices the rules ask for.
LEMMA RuleStops ==
  ASSUME TypeOK
  PROVE  BreakevenStop \in Int /\ (phase = "trail" => TrailingStop \in Int)
BY Constants DEF TypeOK, BreakevenStop, TrailingStop, Buy, Sell

LEMMA TypeStep == TypeOK /\ [Next]_vars => TypeOK'
<1> SUFFICES ASSUME TypeOK, [Next]_vars PROVE TypeOK'
  OBVIOUS
<1>m. ASSUME NEW initial \in Nat
      PROVE  Managed(initial) \in [initial : Nat, current : Nat, atBreakeven : BOOLEAN]
  BY DEF Managed
<1>s. ASSUME NEW new \in Int, NEW then \in {"trail", "managed"}, SetStop(new, then)
      PROVE  TypeOK'
  <2>1. CASE /\ new > 0 /\ Accepts(Rendered(new)) /\ stop' = Rendered(new)
             /\ mem' = [mem EXCEPT !.current = new, !.atBreakeven = TRUE]
             /\ phase' = then /\ UNCHANGED behind
    <3>1. stop' \in Nat /\ new \in Nat
      BY <2>1, RenderedBehaves DEF Accepts
    <3>2. mem' \in [initial : Nat, current : Nat, atBreakeven : BOOLEAN]
      BY <2>1, <3>1 DEF TypeOK
    <3>3. price' \in Nat /\ UNCHANGED <<defaultTick, order, sent, fill, report, repaired, unread>>
      BY <1>s DEF SetStop, TypeOK, NoPrice
    <3> QED
      BY <2>1, <3>1, <3>2, <3>3 DEF TypeOK
  <2>2. CASE /\ new > 0 /\ Accepts(Rendered(new)) /\ stop' = Rendered(new)
             /\ phase' = "managed" /\ behind' = TRUE /\ UNCHANGED mem
    BY <1>s, <2>2, RenderedBehaves DEF SetStop, Accepts, TypeOK, NoPrice
  <2>3. CASE phase' = "managed" /\ UNCHANGED <<stop, mem, behind>>
    BY <1>s, <2>3 DEF SetStop, TypeOK, NoPrice
  <2> QED
    BY <1>s, <2>1, <2>2, <2>3 DEF SetStop
<1>l. ASSUME NEW then \in {"trail", "managed"}, NEW at \in BOOLEAN, LeaveStop(then, at)
      PROVE  TypeOK'
  BY <1>l DEF LeaveStop, TypeOK, NoPrice
<1>1. CASE Submit
  BY <1>1, SubmitMeans DEF Submit, TypeOK
<1>2. CASE Fills
  BY <1>2 DEF Fills, TypeOK, Prices, NoPrice, NotSent
<1>3. CASE Over
  BY <1>3 DEF Over, TypeOK, NoPrice, NoOrder, NotSent, Unmanaged
<1>4. CASE Confirm
  <2>1. order.sl \in Nat /\ stop \in Nat
    BY DEF TypeOK
  <2>2. stop' \in Nat
    BY <1>4, <2>1, RenderedBehaves DEF Confirm, Accepts
  <2>3. /\ mem' \in [initial : Nat, current : Nat, atBreakeven : BOOLEAN]
        /\ report' \in {"none", "stop", "unsafe"}
        /\ phase' \in {"none", "sent", "filled", "managed", "breakeven", "trail"}
    BY <1>4, <2>1, <1>m DEF Confirm, Registered, TypeOK
  <2>4. repaired' \in BOOLEAN /\ unread' \in BOOLEAN /\ behind' \in BOOLEAN
    BY <1>4, Zenon DEF Confirm, TypeOK, Registered
  <2> QED
    BY <1>4, <2>2, <2>3, <2>4 DEF Confirm, TypeOK
<1>5. CASE Restart
  <2>1. mem' \in [initial : Nat, current : Nat, atBreakeven : BOOLEAN]
    BY <1>5, <1>m DEF Restart, Adopted, TypeOK
  <2> QED
    BY <1>5, <2>1 DEF Restart, Adopted, TypeOK, NoPrice
<1>6. CASE Ticks
  BY <1>6 DEF Ticks, TypeOK, Prices
<1>7. CASE Breakeven
  <2>1. mem.atBreakeven \in BOOLEAN
    BY DEF TypeOK
  <2> QED
    BY <1>7, <1>s, <1>l, <2>1, RuleStops DEF Breakeven
<1>8. CASE Trailing
  <2>1. mem.atBreakeven \in BOOLEAN
    BY DEF TypeOK
  <2> QED
    BY <1>8, <1>s, <1>l, <2>1, RuleStops DEF Trailing
<1>9. CASE UNCHANGED vars
  BY <1>9 DEF vars, TypeOK
<1> QED
  BY <1>1, <1>2, <1>3, <1>4, <1>5, <1>6, <1>7, <1>8, <1>9 DEF Next

LEMMA TypeInit == Init => TypeOK
<1> SUFFICES ASSUME Init PROVE TypeOK
  OBVIOUS
<1>1. repaired \in BOOLEAN /\ unread \in BOOLEAN /\ behind \in BOOLEAN
  BY Zenon DEF Init
<1>2. mem \in [initial : Nat, current : Nat, atBreakeven : BOOLEAN]
  BY DEF Init, NoPrice, Unmanaged
<1> QED
  BY <1>1, <1>2 DEF Init, TypeOK, NoPrice, NoOrder, NotSent

\* The order, the prices on the wire, the broker's stop and the engine's record stay in
\* their domains: in particular no price below zero is ever built, sent or recorded.
THEOREM TypeCorrect == Spec => []TypeOK
BY TypeInit, TypeStep, PTL DEF Spec

-----------------------------------------------------------------------------
\* Ahead is an order of prices, and is_tighter its strict part.
LEMMA AheadOrder ==
  ASSUME TypeOK, NEW x \in Int, NEW y \in Int, NEW z \in Int
  PROVE  /\ Ahead(x, y) \in Int /\ Ahead(x, x) = 0
         /\ Ahead(x, y) >= 0 /\ Ahead(y, z) >= 0 => Ahead(x, z) >= 0
         /\ IF Tighter(x, y) THEN Ahead(x, y) >= 0 ELSE Ahead(y, x) >= 0
<1>1. order.side \in {Buy, Sell}
  BY DEF TypeOK
<1>2. CASE order.side = Buy
  BY <1>2 DEF Ahead, Tighter, Buy
<1>3. CASE order.side = Sell
  BY <1>3 DEF Ahead, Tighter, Buy, Sell
<1> QED
  BY <1>1, <1>2, <1>3

LEMMA RenderedAhead ==
  ASSUME TypeOK, NEW x \in Int, NEW y \in Int, Ahead(x, y) >= 0
  PROVE  Ahead(Rendered(x), Rendered(y)) >= 0
BY RenderedKeepsAhead DEF Ahead

-----------------------------------------------------------------------------
Open == phase \notin {"none", "sent"}

\* The record, or the breakeven stop that is still to come, is not behind the broker.
Abreast ==
  \/ Ahead(Rendered(mem.current), stop) >= 0
  \/ ~mem.atBreakeven /\ Ahead(Rendered(BreakevenStop), stop) >= 0

Anchored ==
  /\ Rendered(stop) = stop
  /\ Open => Ahead(Rendered(BreakevenStop), order.sl) >= 0
  /\ Open /\ mem.atBreakeven => Ahead(Rendered(mem.current), order.sl) >= 0
  /\ phase \in {"none", "sent", "filled"} => ~mem.atBreakeven
  /\ phase = "filled" /\ stop # NoPrice => Ahead(Rendered(BreakevenStop), stop) >= 0

StopInvariant ==
  /\ TypeOK /\ ProtectedAsApproved
  /\ ~Open => stop = NoPrice /\ report = "none"
  /\ report = "stop" => stop # NoPrice \/ unread
  /\ Anchored
  /\ Open /\ phase # "filled" /\ stop # NoPrice /\ ~behind => Abreast

LEMMA StopInit == Init => StopInvariant
<1> SUFFICES ASSUME Init PROVE StopInvariant
  OBVIOUS
<1>1. TypeOK
  BY TypeInit
<1>2. 0 % Tick = 0 /\ NoPrice = 0
  BY Constants DEF NoPrice
<1>3. Rendered(stop) = stop
  BY <1>1, <1>2, RenderedBehaves DEF Init
<1> QED
  BY <1>1, <1>3 DEF Init, StopInvariant, ProtectedAsApproved, Anchored, Open, NoOrder, Unmanaged

\* Every step but a submission and a close leaves the approved stop, the fill and the
\* grid alone, and with them the measures.
Still == /\ UNCHANGED <<defaultTick, fill>> /\ order'.side = order.side /\ order'.sl = order.sl

\* What is left to show of a step between the fill and the close.
LEMMA StillSuffices ==
  ASSUME StopInvariant, Open, Still, TypeOK', phase' \notin {"none", "sent"},
         phase' = "filled" => phase = "filled",
         report' = "stop" => stop' # NoPrice \/ unread',
         Rendered(stop') = stop',
         stop' # NoPrice => 2 * Ahead(stop', order.sl) >= IF repaired' THEN -defaultTick ELSE 0,
         mem'.atBreakeven => Ahead(Rendered(mem'.current), order.sl) >= 0,
         phase' = "filled" =>
           ~mem'.atBreakeven /\ (stop' # NoPrice => Ahead(Rendered(BreakevenStop), stop') >= 0),
         phase' # "filled" /\ stop' # NoPrice /\ ~behind' =>
           \/ Ahead(Rendered(mem'.current), stop') >= 0
           \/ ~mem'.atBreakeven /\ Ahead(Rendered(BreakevenStop), stop') >= 0
  PROVE  StopInvariant'
<1>1. /\ Ahead(stop, order.sl)' = Ahead(stop', order.sl)
      /\ Rendered(stop)' = Rendered(stop')
      /\ Ahead(Rendered(mem.current), order.sl)' = Ahead(Rendered(mem'.current), order.sl)
      /\ Ahead(Rendered(BreakevenStop), order.sl)' = Ahead(Rendered(BreakevenStop), order.sl)
      /\ Ahead(Rendered(BreakevenStop), stop)' = Ahead(Rendered(BreakevenStop), stop')
      /\ Ahead(Rendered(mem.current), stop)' = Ahead(Rendered(mem'.current), stop')
  BY DEF Still, Ahead, Rendered, BreakevenStop
<1>2. Ahead(Rendered(BreakevenStop), order.sl) >= 0
  BY DEF StopInvariant, Anchored
<1>3. ProtectedAsApproved'
  BY <1>1 DEF ProtectedAsApproved, Still
<1>4. Anchored'
  BY <1>1, <1>2 DEF Anchored, Open
<1>5. Open' /\ (Open' /\ phase' # "filled" /\ stop' # NoPrice /\ ~behind' => Abreast')
  BY <1>1 DEF Open, Abreast
<1> QED
  BY <1>3, <1>4, <1>5 DEF StopInvariant, Open, NoPrice

-----------------------------------------------------------------------------
\* Where a move of the stop starts from: the new price is rounded no further from the
\* market than the record, or it is the breakeven stop itself.
Asked(new) ==
  /\ new \in Int
  /\ Tighter(new, mem.current)
  /\ mem.atBreakeven \/ new = BreakevenStop

LEMMA AskedAhead ==
  ASSUME StopInvariant, Open, NEW new, Asked(new)
  PROVE  /\ Ahead(Rendered(new), order.sl) >= 0
         /\ phase # "filled" /\ stop # NoPrice /\ ~behind => Ahead(Rendered(new), stop) >= 0
<1>1. TypeOK /\ new \in Int /\ mem.current \in Int /\ order.sl \in Int /\ stop \in Int
      /\ BreakevenStop \in Int
  BY RuleStops DEF StopInvariant, Asked, TypeOK
<1>2. Ahead(new, mem.current) >= 0
  BY <1>1, AheadOrder DEF Asked
<1>3. Ahead(Rendered(new), Rendered(mem.current)) >= 0
  BY <1>1, <1>2, RenderedAhead
<1>4. Rendered(new) \in Int /\ Rendered(mem.current) \in Int
  BY <1>1, RenderedBehaves
<1>5. ASSUME NEW z \in Int, Ahead(Rendered(mem.current), z) >= 0
      PROVE  Ahead(Rendered(new), z) >= 0
  BY <1>1, <1>3, <1>4, <1>5, AheadOrder
<1>6. Ahead(Rendered(BreakevenStop), order.sl) >= 0
      /\ (mem.atBreakeven => Ahead(Rendered(mem.current), order.sl) >= 0)
  BY DEF StopInvariant, Anchored
<1>7. Ahead(Rendered(new), order.sl) >= 0
  BY <1>1, <1>5, <1>6 DEF Asked
<1>8. ASSUME phase # "filled", stop # NoPrice, ~behind
      PROVE  Ahead(Rendered(new), stop) >= 0
  <2>1. Abreast
    BY <1>8 DEF StopInvariant
  <2> QED
    BY <1>1, <1>5, <2>1 DEF Abreast, Asked
<1> QED
  BY <1>7, <1>8

LEMMA MoveStep ==
  ASSUME StopInvariant, TypeOK', phase \in {"breakeven", "trail"},
         NEW new, NEW then \in {"trail", "managed"}, Asked(new), SetStop(new, then)
  PROVE  StopInvariant'
<1>1. TypeOK /\ new \in Int /\ order.sl \in Int /\ stop \in Int /\ defaultTick \in Nat
      /\ mem \in [initial : Nat, current : Nat, atBreakeven : BOOLEAN]
  BY Constants DEF StopInvariant, TypeOK, Asked
<1>2. Open /\ Still /\ phase' \in {"managed", "trail"} /\ UNCHANGED <<report, repaired, unread>>
  BY DEF Open, SetStop, Still
<1>3. Ahead(Rendered(new), order.sl) >= 0
  BY <1>2, AskedAhead
<1>4. Rendered(new) \in Int /\ Rendered(Rendered(new)) = Rendered(new)
  BY <1>1, RenderedBehaves
<1>5. Ahead(Rendered(new), Rendered(new)) = 0 /\ Ahead(Rendered(new), order.sl) \in Int
  BY <1>1, <1>4, AheadOrder
<1>6. CASE /\ new > 0 /\ Accepts(Rendered(new)) /\ stop' = Rendered(new)
           /\ mem' = [mem EXCEPT !.current = new, !.atBreakeven = TRUE]
           /\ phase' = then /\ UNCHANGED behind
  <2>1. mem'.current = new
    BY <1>1, <1>6
  <2>2. stop' # NoPrice
    BY <1>4, <1>6 DEF Accepts, NoPrice
  <2>3. 2 * Ahead(stop', order.sl) >= IF repaired' THEN -defaultTick ELSE 0
    BY <1>1, <1>3, <1>5, <1>6
  <2> QED
    BY <1>2, <1>3, <1>4, <1>5, <1>6, <2>1, <2>2, <2>3, StillSuffices
<1>7. CASE /\ new > 0 /\ Accepts(Rendered(new)) /\ stop' = Rendered(new)
           /\ phase' = "managed" /\ behind' = TRUE /\ UNCHANGED mem
  <2>1. stop' # NoPrice
    BY <1>4, <1>7 DEF Accepts, NoPrice
  <2>2. 2 * Ahead(stop', order.sl) >= IF repaired' THEN -defaultTick ELSE 0
    BY <1>1, <1>3, <1>5, <1>7
  <2>3. mem'.atBreakeven => Ahead(Rendered(mem'.current), order.sl) >= 0
    BY <1>2, <1>7 DEF StopInvariant, Anchored
  <2> QED
    BY <1>2, <1>4, <1>7, <2>1, <2>2, <2>3, StillSuffices
<1>8. CASE phase' = "managed" /\ UNCHANGED <<stop, mem, behind>>
  <2>1. stop' # NoPrice => 2 * Ahead(stop', order.sl) >= IF repaired' THEN -defaultTick ELSE 0
    BY <1>2, <1>8 DEF StopInvariant, ProtectedAsApproved
  <2>2. mem'.atBreakeven => Ahead(Rendered(mem'.current), order.sl) >= 0
    BY <1>2, <1>8 DEF StopInvariant, Anchored
  <2>3. Rendered(stop') = stop' /\ (report' = "stop" => stop' # NoPrice \/ unread')
    BY <1>2, <1>8 DEF StopInvariant, Anchored
  <2>4. stop' # NoPrice /\ ~behind' =>
           \/ Ahead(Rendered(mem'.current), stop') >= 0
           \/ ~mem'.atBreakeven /\ Ahead(Rendered(BreakevenStop), stop') >= 0
    BY <1>2, <1>8 DEF StopInvariant, Abreast
  <2> QED
    BY <1>2, <1>8, <2>1, <2>2, <2>3, <2>4, StillSuffices
<1> QED
  BY <1>6, <1>7, <1>8 DEF SetStop

\* A rule that asks for no move: the record stays, and at_breakeven may be set because
\* the stop is past breakeven already.
LEMMA LeaveStep ==
  ASSUME StopInvariant, TypeOK', phase \in {"breakeven", "trail"},
         NEW then \in {"trail", "managed"}, NEW at \in BOOLEAN, LeaveStop(then, at),
         at => mem.atBreakeven \/ Ahead(mem.current, BreakevenStop) >= 0,
         mem.atBreakeven => at
  PROVE  StopInvariant'
<1>1. TypeOK /\ mem.current \in Int /\ order.sl \in Int /\ stop \in Int
      /\ BreakevenStop \in Int /\ mem \in [initial : Nat, current : Nat, atBreakeven : BOOLEAN]
  BY RuleStops DEF StopInvariant, TypeOK
<1>2. /\ Open /\ Still /\ phase' \in {"managed", "trail"}
      /\ UNCHANGED <<stop, report, repaired, unread, behind>>
      /\ mem'.current = mem.current /\ mem'.atBreakeven = at
  BY <1>1 DEF Open, LeaveStop, Still
<1>3. Rendered(BreakevenStop) \in Int /\ Rendered(mem.current) \in Int
  BY <1>1, RenderedBehaves
<1>4. ASSUME at, ~mem.atBreakeven, NEW z \in Int, Ahead(Rendered(BreakevenStop), z) >= 0
      PROVE  Ahead(Rendered(mem.current), z) >= 0
  <2>1. Ahead(Rendered(mem.current), Rendered(BreakevenStop)) >= 0
    BY <1>1, <1>4, RenderedAhead
  <2> QED
    BY <1>1, <1>3, <1>4, <2>1, AheadOrder
<1>5. mem'.atBreakeven => Ahead(Rendered(mem'.current), order.sl) >= 0
  BY <1>1, <1>2, <1>4 DEF StopInvariant, Anchored
<1>6. stop' # NoPrice /\ ~behind' =>
           \/ Ahead(Rendered(mem'.current), stop') >= 0
           \/ ~mem'.atBreakeven /\ Ahead(Rendered(BreakevenStop), stop') >= 0
  <2>1. stop # NoPrice /\ ~behind => Abreast
    BY <1>2 DEF StopInvariant
  <2> QED
    BY <1>1, <1>2, <1>4, <2>1 DEF Abreast
<1>7. stop' # NoPrice => 2 * Ahead(stop', order.sl) >= IF repaired' THEN -defaultTick ELSE 0
  BY <1>2 DEF StopInvariant, ProtectedAsApproved, Open
<1>8. Rendered(stop') = stop' /\ (report' = "stop" => stop' # NoPrice \/ unread')
  BY <1>2 DEF StopInvariant, Anchored
<1> QED
  BY <1>2, <1>5, <1>6, <1>7, <1>8, StillSuffices

-----------------------------------------------------------------------------
LEMMA FillsStep == StopInvariant /\ TypeOK' /\ Fills => StopInvariant'
<1> SUFFICES ASSUME StopInvariant, TypeOK', Fills PROVE StopInvariant'
  OBVIOUS
<1>1. /\ TypeOK /\ sent.sl \in Int /\ order.sl \in Int /\ order.side \in {Buy, Sell}
      /\ defaultTick \in Nat \ {0} /\ Tick \in Nat \ {0} /\ Tick % defaultTick = 0
      /\ Buffer \in Nat
  BY Constants DEF StopInvariant, TypeOK
<1>2. PICK p \in Prices : order.side * (p - sent.sl) > 0 /\ fill' = p
  BY DEF Fills
<1>3. p \in Int /\ p + order.side * Buffer \in Int
  BY <1>1, Constants DEF Prices, Buy, Sell
<1>4. sent.sl % defaultTick = 0 /\ sent.sl > 0
  BY <1>1, GridFiner DEF Fills, Accepts
<1>5. Nearest(sent.sl, defaultTick) = sent.sl
  BY <1>1, <1>4, NearestFixed
<1>6. order.side * ((p + order.side * Buffer) - sent.sl) >= 0
  <2>1. CASE order.side = Buy
    BY <1>1, <1>2, <1>3, <2>1 DEF Buy
  <2>2. CASE order.side = Sell
    BY <1>1, <1>2, <1>3, <2>2 DEF Sell
  <2> QED
    BY <1>1, <2>1, <2>2
<1> DEFINE be == Nearest(p + order.side * Buffer, defaultTick)
<1>7. order.side * (be - sent.sl) >= 0 /\ be \in Int
  BY <1>1, <1>3, <1>5, <1>6, NearestKeepsAhead, NearestBounds
<1>8. /\ Ahead(sent.sl, order.sl) >= 0 /\ Ahead(sent.sl, order.sl) \in Int
      /\ ~mem.atBreakeven /\ report = "none"
  BY <1>1, AheadOrder DEF Fills, StopInvariant, ProtectedAsApproved, Anchored, Open
<1>9. /\ order'.side = order.side /\ order'.sl = order.sl /\ UNCHANGED <<defaultTick, mem, report, repaired>>
      /\ stop' \in {sent.sl, NoPrice} /\ phase' = "filled"
  BY <1>1 DEF Fills, StopInvariant, TypeOK
<1>10. /\ Rendered(BreakevenStop)' = be
       /\ Ahead(stop, order.sl)' = Ahead(stop', order.sl)
       /\ Ahead(Rendered(BreakevenStop), order.sl)' = Ahead(be, order.sl)
       /\ Ahead(Rendered(BreakevenStop), stop)' = Ahead(be, stop')
       /\ Rendered(stop)' = Nearest(stop', defaultTick)
  BY <1>2, <1>9 DEF Rendered, BreakevenStop, Ahead
<1>11. Ahead(be, sent.sl) >= 0
  BY <1>7 DEF Ahead
<1>12. Ahead(be, order.sl) >= 0
  BY <1>1, <1>7, <1>8, <1>11, AheadOrder
<1>13. Nearest(stop', defaultTick) = stop'
  <2>1. 0 % defaultTick = 0
    BY <1>1
  <2> QED
    BY <1>1, <1>5, <1>9, <2>1, NearestFixed DEF NoPrice
<1> HIDE DEF be
<1>14. stop' # NoPrice => Ahead(stop', order.sl) >= 0 /\ Ahead(be, stop') >= 0
                          /\ Ahead(stop', order.sl) \in Int
  BY <1>8, <1>9, <1>11
<1>15. ProtectedAsApproved'
  BY <1>1, <1>9, <1>10, <1>14 DEF ProtectedAsApproved
<1>16. Anchored' /\ Open'
  BY <1>8, <1>9, <1>10, <1>12, <1>13, <1>14 DEF Anchored, Open
<1> QED
  BY <1>8, <1>9, <1>15, <1>16 DEF StopInvariant

LEMMA SubmitStep == StopInvariant /\ TypeOK' /\ Submit => StopInvariant'
<1> SUFFICES ASSUME StopInvariant, TypeOK', Submit PROVE StopInvariant'
  OBVIOUS
<1>1. TypeOK /\ stop = NoPrice /\ ~mem.atBreakeven /\ report = "none" /\ Rendered(stop) = stop
  BY DEF StopInvariant, Anchored, Open, Submit
<1>2. UNCHANGED <<defaultTick, stop, mem, report>> /\ phase' = "sent"
  BY DEF Submit
<1>3. Rendered(stop)' = stop'
  BY <1>1, <1>2 DEF Rendered
<1>4. /\ sent'.sl > 0 /\ sent'.tp > 0
      /\ order'.side * (sent'.sl - order'.entry) < 0
      /\ order'.side * (sent'.tp - order'.entry) > 0
      /\ order'.side * (sent'.sl - order'.sl) >= 0
  BY <1>1, SubmitMeans
<1>5. ProtectedAsApproved'
  BY <1>2, <1>4 DEF ProtectedAsApproved, Ahead
<1> QED
  BY <1>1, <1>2, <1>3, <1>5 DEF StopInvariant, Anchored, Open

LEMMA OverStep == StopInvariant /\ TypeOK' /\ Over => StopInvariant'
<1> SUFFICES ASSUME StopInvariant, TypeOK', Over PROVE StopInvariant'
  OBVIOUS
<1>1. phase' = "none" /\ stop' = NoPrice /\ report' = "none" /\ ~mem'.atBreakeven
      /\ UNCHANGED defaultTick
  BY DEF Over, Unmanaged
<1>2. defaultTick \in Nat \ {0} /\ 0 % defaultTick = 0
  BY Constants DEF StopInvariant, TypeOK
<1>3. Rendered(stop)' = stop'
  BY <1>1, <1>2, NearestFixed DEF Rendered, NoPrice
<1> QED
  BY <1>1, <1>3 DEF StopInvariant, ProtectedAsApproved, Anchored, Open

LEMMA RestartStep == StopInvariant /\ TypeOK' /\ Restart => StopInvariant'
<1> SUFFICES ASSUME StopInvariant, TypeOK', Restart PROVE StopInvariant'
  OBVIOUS
<1>1. TypeOK /\ stop \in Int /\ order.sl \in Int
  BY DEF StopInvariant, TypeOK
<1>2. /\ Open /\ Still /\ phase' = "managed" /\ UNCHANGED <<stop, report, repaired, unread>>
      /\ mem'.current = stop /\ ~mem'.atBreakeven
  BY DEF Restart, Adopted, Managed, Open, Still
<1>3. Rendered(stop) = stop /\ (report = "stop" => stop # NoPrice \/ unread)
  BY DEF StopInvariant, Anchored
<1>4. Ahead(Rendered(mem'.current), stop') >= 0
  BY <1>1, <1>2, <1>3, AheadOrder
<1>5. stop' # NoPrice => 2 * Ahead(stop', order.sl) >= IF repaired' THEN -defaultTick ELSE 0
  BY <1>2 DEF StopInvariant, ProtectedAsApproved, Open
<1> QED
  BY <1>2, <1>3, <1>4, <1>5, StillSuffices

LEMMA TicksStep == StopInvariant /\ TypeOK' /\ Ticks => StopInvariant'
<1> SUFFICES ASSUME StopInvariant, TypeOK', Ticks PROVE StopInvariant'
  OBVIOUS
<1>1. /\ Open /\ Still /\ phase = "managed" /\ phase' = "breakeven"
      /\ UNCHANGED <<stop, mem, report, repaired, unread, behind>>
  BY DEF Ticks, Open, Still
<1>2. Rendered(stop') = stop' /\ (report' = "stop" => stop' # NoPrice \/ unread')
      /\ (mem'.atBreakeven => Ahead(Rendered(mem'.current), order.sl) >= 0)
  BY <1>1 DEF StopInvariant, Anchored
<1>3. stop' # NoPrice => 2 * Ahead(stop', order.sl) >= IF repaired' THEN -defaultTick ELSE 0
  BY <1>1 DEF StopInvariant, ProtectedAsApproved
<1>4. stop' # NoPrice /\ ~behind' =>
           \/ Ahead(Rendered(mem'.current), stop') >= 0
           \/ ~mem'.atBreakeven /\ Ahead(Rendered(BreakevenStop), stop') >= 0
  BY <1>1 DEF StopInvariant, Abreast
<1> QED
  BY <1>1, <1>2, <1>3, <1>4, StillSuffices

\* The repair rounds the approved stop to the nearest price, half a step at most.
LEMMA RepairedStop ==
  ASSUME StopInvariant, Open
  PROVE  /\ Rendered(order.sl) \in Int /\ Rendered(Rendered(order.sl)) = Rendered(order.sl)
         /\ 2 * Ahead(Rendered(order.sl), order.sl) >= -defaultTick
         /\ Ahead(Rendered(order.sl), Rendered(order.sl)) >= 0
         /\ Ahead(Rendered(BreakevenStop), Rendered(order.sl)) >= 0
         /\ mem.atBreakeven => Ahead(Rendered(mem.current), Rendered(order.sl)) >= 0
<1>1. /\ TypeOK /\ order.sl \in Int /\ mem.current \in Int /\ BreakevenStop \in Int
      /\ order.side \in {Buy, Sell} /\ defaultTick \in Int
  BY RuleStops, Constants DEF StopInvariant, TypeOK
<1>2. /\ Rendered(order.sl) \in Int /\ Rendered(Rendered(order.sl)) = Rendered(order.sl)
      /\ 2 * Rendered(order.sl) <= 2 * order.sl + defaultTick
      /\ 2 * order.sl - defaultTick <= 2 * Rendered(order.sl)
  BY <1>1, RenderedBehaves
<1>3. 2 * Ahead(Rendered(order.sl), order.sl) >= -defaultTick
  <2>1. /\ order.side = Buy => Ahead(Rendered(order.sl), order.sl) = Rendered(order.sl) - order.sl
        /\ order.side = Sell => Ahead(Rendered(order.sl), order.sl) = order.sl - Rendered(order.sl)
    BY <1>1, <1>2, Sides DEF Ahead
  <2> QED
    BY <1>1, <1>2, <2>1
<1>4. ASSUME NEW x \in Int, Ahead(Rendered(x), order.sl) >= 0
      PROVE  Ahead(Rendered(x), Rendered(order.sl)) >= 0
  <2>1. Rendered(x) \in Int /\ Rendered(Rendered(x)) = Rendered(x)
    BY <1>1, RenderedBehaves
  <2> QED
    BY <1>1, <1>4, <2>1, RenderedAhead
<1>5. Ahead(Rendered(order.sl), Rendered(order.sl)) = 0
  BY <1>1, <1>2, AheadOrder
<1>6. Ahead(Rendered(BreakevenStop), order.sl) >= 0
      /\ (mem.atBreakeven => Ahead(Rendered(mem.current), order.sl) >= 0)
  BY DEF StopInvariant, Anchored
<1> QED
  BY <1>1, <1>2, <1>3, <1>4, <1>5, <1>6

LEMMA ConfirmStep == StopInvariant /\ TypeOK' /\ Confirm => StopInvariant'
<1> SUFFICES ASSUME StopInvariant, TypeOK', Confirm PROVE StopInvariant'
  OBVIOUS
<1>1. TypeOK /\ stop \in Int /\ order.sl \in Int /\ defaultTick \in Nat
      /\ BreakevenStop \in Int
  BY RuleStops, Constants DEF StopInvariant, TypeOK
<1>2. Open /\ Still /\ phase \in {"filled", "managed"} /\ phase' \in {phase, "managed"}
  BY DEF Confirm, Unconfirmed, Open, Still, Registered
<1>3. /\ Rendered(stop) = stop /\ (phase = "filled" => ~mem.atBreakeven)
      /\ phase = "filled" /\ stop # NoPrice => Ahead(Rendered(BreakevenStop), stop) >= 0
      /\ mem.atBreakeven => Ahead(Rendered(mem.current), order.sl) >= 0
  BY <1>2 DEF StopInvariant, Anchored
<1>4. /\ ~Managed(order.sl).atBreakeven /\ Managed(order.sl).current = order.sl
      /\ ~Managed(stop).atBreakeven /\ Managed(stop).current = stop
  BY DEF Managed
<1>5. stop # NoPrice => 2 * Ahead(stop, order.sl) >= IF repaired THEN -defaultTick ELSE 0
  BY <1>2 DEF StopInvariant, ProtectedAsApproved
<1>6. CASE /\ Registered("stop", order.sl) /\ UNCHANGED <<stop, repaired>>
           /\ unread' = TRUE /\ behind' = (behind \/ Unconfirmed)
  <2>1. phase # "filled" => behind'
    BY <1>6 DEF Confirm
  <2> QED
    BY <1>2, <1>3, <1>4, <1>5, <1>6, <2>1, StillSuffices DEF Registered
<1>7. CASE stop # NoPrice /\ Registered("stop", stop) /\ UNCHANGED <<stop, repaired>>
  <2>1. Ahead(Rendered(stop), stop) >= 0
    BY <1>1, <1>3, AheadOrder
  <2> QED
    BY <1>2, <1>3, <1>4, <1>5, <1>7, <2>1, StillSuffices DEF Registered
<1>8. CASE /\ stop = NoPrice /\ Accepts(Rendered(order.sl))
           /\ stop' = Rendered(order.sl) /\ repaired' = TRUE
           /\ \/ Registered("stop", order.sl) \/ Registered("unsafe", order.sl)
              \/ UNCHANGED <<report, mem, phase>>
  <2>1. /\ Rendered(order.sl) \in Int /\ Rendered(stop') = stop'
        /\ 2 * Ahead(stop', order.sl) >= IF repaired' THEN -defaultTick ELSE 0
        /\ Ahead(Rendered(order.sl), stop') >= 0
        /\ Ahead(Rendered(BreakevenStop), stop') >= 0
        /\ mem.atBreakeven => Ahead(Rendered(mem.current), stop') >= 0
    BY <1>2, <1>8, RepairedStop
  <2>2. stop' # NoPrice
    BY <1>8, <2>1 DEF Accepts, NoPrice
  <2>3. CASE Registered("stop", order.sl) \/ Registered("unsafe", order.sl)
    BY <1>2, <1>4, <2>1, <2>2, <2>3, StillSuffices DEF Registered
  <2>4. CASE UNCHANGED <<report, mem, phase>>
    BY <1>2, <1>3, <2>1, <2>2, <2>4, StillSuffices
  <2> QED
    BY <1>8, <2>3, <2>4
<1>9. CASE stop = NoPrice /\ Registered("unsafe", order.sl) /\ UNCHANGED <<stop, repaired>>
  BY <1>2, <1>3, <1>4, <1>5, <1>9, StillSuffices DEF Registered
<1> QED
  BY <1>6, <1>7, <1>8, <1>9 DEF Confirm

LEMMA BreakevenStep == StopInvariant /\ TypeOK' /\ Breakeven => StopInvariant'
<1> SUFFICES ASSUME StopInvariant, TypeOK', Breakeven PROVE StopInvariant'
  OBVIOUS
<1>1. /\ TypeOK /\ phase = "breakeven" /\ mem.atBreakeven \in BOOLEAN
      /\ BreakevenStop \in Int /\ mem.current \in Int
  BY RuleStops DEF StopInvariant, Breakeven, TypeOK
<1>2. CASE ~mem.atBreakeven /\ AtOneR /\ Tighter(BreakevenStop, mem.current)
  BY <1>1, <1>2, MoveStep DEF Breakeven, Asked
<1>3. CASE ~mem.atBreakeven /\ AtOneR /\ ~Tighter(BreakevenStop, mem.current)
  <2>1. Ahead(mem.current, BreakevenStop) >= 0
    BY <1>1, <1>3, AheadOrder
  <2> QED
    BY <1>1, <1>3, <2>1, LeaveStep DEF Breakeven
<1>4. CASE ~(~mem.atBreakeven /\ AtOneR)
  BY <1>1, <1>4, LeaveStep DEF Breakeven
<1> QED
  BY <1>2, <1>3, <1>4

LEMMA TrailingStep == StopInvariant /\ TypeOK' /\ Trailing => StopInvariant'
<1> SUFFICES ASSUME StopInvariant, TypeOK', Trailing PROVE StopInvariant'
  OBVIOUS
<1>1. TypeOK /\ phase = "trail" /\ mem.atBreakeven \in BOOLEAN /\ TrailingStop \in Int
  BY RuleStops DEF StopInvariant, Trailing, TypeOK
<1>2. CASE mem.atBreakeven /\ Trail > 0 /\ Tighter(TrailingStop, mem.current)
  BY <1>1, <1>2, MoveStep DEF Trailing, Asked
<1>3. CASE ~(mem.atBreakeven /\ Trail > 0 /\ Tighter(TrailingStop, mem.current))
  BY <1>1, <1>3, LeaveStep DEF Trailing
<1> QED
  BY <1>2, <1>3

LEMMA StopStep == StopInvariant /\ [Next]_vars => StopInvariant'
<1> SUFFICES ASSUME StopInvariant, [Next]_vars PROVE StopInvariant'
  OBVIOUS
<1>1. TypeOK'
  BY TypeStep DEF StopInvariant
<1>2. CASE UNCHANGED vars
  BY <1>2 DEF vars, StopInvariant, TypeOK, ProtectedAsApproved, Anchored, Abreast, Open,
              Ahead, Rendered, BreakevenStop
<1> QED
  BY <1>1, <1>2, SubmitStep, FillsStep, OverStep, ConfirmStep, RestartStep, TicksStep,
     BreakevenStep, TrailingStep DEF Next

LEMMA StopInvariantHolds == Spec => []StopInvariant
BY StopInit, StopStep, PTL DEF Spec

-----------------------------------------------------------------------------
\* The broker never holds a stop further out than the approved one, but for half a step
\* after a repair, and no stop is reported that is not there, unless the trade could not be read
\* (quantize_price, _confirm_stops, _set_stop).
THEOREM Protected == Spec => []ProtectedAsApproved
<1>1. StopInvariant => ProtectedAsApproved
  BY DEF StopInvariant
<1> QED
  BY <1>1, StopInvariantHolds, PTL

\* The rules never loosen a stop, whatever is rounded, lost or restarted, unless the
\* record was left behind the broker (is_tighter, _set_stop, startup_reconcile).
THEOREM NeverLoosened == Spec => StopOnlyTightens
<1> DEFINE Tightens == stop # NoPrice /\ phase' # "none" => Ahead(stop', stop) >= 0 \/ behind
<1>1. StopInvariant /\ [Next]_vars => [Tightens]_vars
  <2> SUFFICES ASSUME StopInvariant, Next, stop # NoPrice, phase' # "none", ~behind
               PROVE  Ahead(stop', stop) >= 0
    OBVIOUS
  <2>1. TypeOK /\ stop \in Int /\ Open
    BY DEF StopInvariant, TypeOK
  <2>2. CASE UNCHANGED stop
    BY <2>1, <2>2, AheadOrder
  <2>3. ASSUME NEW new, NEW then, phase \in {"breakeven", "trail"}, Asked(new), SetStop(new, then)
        PROVE  Ahead(stop', stop) >= 0
    <3>1. Ahead(Rendered(new), stop) >= 0
      BY <2>1, <2>3, AskedAhead
    <3> QED
      BY <2>2, <2>3, <3>1 DEF SetStop
  <2>4. CASE Breakeven
    <3>1. BreakevenStop \in Int
      BY <2>1, RuleStops
    <3> QED
      BY <2>2, <2>3, <2>4, <3>1 DEF Breakeven, LeaveStop, Asked
  <2>5. CASE Trailing
    <3>1. TrailingStop \in Int
      BY <2>1, <2>5, RuleStops DEF Trailing
    <3> QED
      BY <2>2, <2>3, <2>5, <3>1 DEF Trailing, LeaveStop, Asked
  <2>6. CASE Submit \/ Fills \/ Over
    BY <2>1, <2>6 DEF Submit, Fills, Over, Open
  <2>7. CASE Confirm \/ Restart \/ Ticks
    BY <2>2, <2>7 DEF Confirm, Restart, Ticks
  <2> QED
    BY <2>4, <2>5, <2>6, <2>7 DEF Next
<1> QED
  BY <1>1, StopInvariantHolds, PTL DEF Spec, StopOnlyTightens
=============================================================================
