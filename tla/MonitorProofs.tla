--------------------------- MODULE MonitorProofs ----------------------------
(***************************************************************************)
(* What holds of the monitor's look at the positions for every             *)
(* configuration, every size and every price.                              *)
(***************************************************************************)
EXTENDS Monitor, SumLemmas

-----------------------------------------------------------------------------
(* Rounding.                                                               *)

(* A quotient rounded down lies between its number and the one before.     *)
LEMMA DivBounds ==
  ASSUME NEW n \in Int, NEW d \in Nat \ {0}
  PROVE  /\ n \div d \in Int
         /\ (n \div d) * d <= n /\ n < (n \div d) * d + d
<1>1. n \div d \in Int /\ n % d \in 0 .. d - 1 /\ n = d * (n \div d) + (n % d)
  BY SMT
<1> QED BY <1>1, SMT

(* math.Round misses by half a unit at most.                               *)
LEMMA NearestIsNear ==
  ASSUME NEW v \in Int, NEW unit \in Nat \ {0}
  PROVE  /\ Nearest(v, unit) \in Int
         /\ 2 * Nearest(v, unit) <= 2 * v + unit
         /\ 2 * v - unit < 2 * Nearest(v, unit)
<1> DEFINE n == 2 * v + unit
           d == 2 * unit
           q == n \div d
<1>1. n \in Int /\ d \in Nat \ {0} /\ d = 2 * unit /\ n = 2 * v + unit
  BY SMT
<1>2. Nearest(v, unit) = q * unit
  BY DEF Nearest
<1>3. q \in Int /\ q * d <= n /\ n < q * d + d
  <2> HIDE DEF n, d
  <2> QED BY <1>1, DivBounds
<1> HIDE DEF q, n, d
<1>4. q * unit \in Int /\ q * d = 2 * (q * unit)
  BY <1>1, <1>3, SMT
<1>5. 2 * (q * unit) <= 2 * v + unit /\ 2 * v + unit < 2 * (q * unit) + 2 * unit
  BY <1>1, <1>3, <1>4
<1> QED BY <1>2, <1>4, <1>5, SMT

(* Nothing is rounded below zero.                                          *)
LEMMA NearestOfNat ==
  ASSUME NEW v \in Nat, NEW unit \in Nat \ {0}
  PROVE  Nearest(v, unit) \in Nat
<1> DEFINE n == 2 * v + unit
           d == 2 * unit
           q == n \div d
<1>1. n \in Nat /\ d \in Nat \ {0}
  BY SMT
<1>2. Nearest(v, unit) = q * unit
  BY DEF Nearest
<1> HIDE DEF n, d
<1>3. q \in Nat
  BY <1>1, SMT
<1> HIDE DEF q
<1> QED BY <1>2, <1>3, SMT

(* A rounded number is a multiple of the unit.                             *)
LEMMA NearestIsMultiple ==
  ASSUME NEW v \in Int, NEW unit \in Nat \ {0}
  PROVE  Nearest(v, unit) % unit = 0
<1> DEFINE q == (2 * v + unit) \div (2 * unit)
<1>1. q \in Int /\ Nearest(v, unit) = q * unit
  BY SMT DEF Nearest
<1> HIDE DEF q
<1> QED BY <1>1, SMT

(* A multiple of the unit stays what it is.                                *)
LEMMA NearestOfMultiple ==
  ASSUME NEW k \in Int, NEW unit \in Nat \ {0}
  PROVE  Nearest(k * unit, unit) = k * unit
<1> DEFINE q == (2 * (k * unit) + unit) \div (2 * unit)
<1>1. q \in Int /\ k * unit \in Int /\ Nearest(k * unit, unit) = q * unit
  BY SMT DEF Nearest
<1>2. /\ 2 * (q * unit) <= 2 * (k * unit) + unit
      /\ 2 * (k * unit) - unit < 2 * (q * unit)
  BY <1>1, NearestIsNear
<1> HIDE DEF q
<1>3. q < k + 1 /\ k - 1 < q
  BY <1>1, <1>2, SMT
<1> QED BY <1>1, <1>3, SMT

(* Numbers some units apart are rounded to numbers as far apart.           *)
LEMMA NearestKeepsDistance ==
  ASSUME NEW v \in Int, NEW w \in Int, NEW unit \in Nat \ {0}, NEW k \in Int,
         v + k * unit <= w
  PROVE  Nearest(v, unit) + k * unit <= Nearest(w, unit)
<1> DEFINE p == (2 * v + unit) \div (2 * unit)
           q == (2 * w + unit) \div (2 * unit)
<1>1. /\ p \in Int /\ Nearest(v, unit) = p * unit
      /\ q \in Int /\ Nearest(w, unit) = q * unit
  BY SMT DEF Nearest
<1>2. /\ 2 * (p * unit) <= 2 * v + unit
      /\ 2 * w - unit < 2 * (q * unit)
  BY <1>1, NearestIsNear
<1> HIDE DEF p, q
<1>3. (p + k) * unit = p * unit + k * unit /\ p * unit \in Int /\ q * unit \in Int
  BY <1>1, SMT
<1>4. p + k < q + 1
  <2> SUFFICES ASSUME q + 1 <= p + k PROVE FALSE
    BY <1>1, SMT
  <2>1. q * unit + unit <= (p + k) * unit
    BY <1>1, SMT
  <2> QED BY <2>1, <1>2, <1>3, SMT
<1>5. (p + k) * unit <= q * unit
  BY <1>1, <1>4, SMT
<1> QED BY <1>1, <1>3, <1>5, SMT

-----------------------------------------------------------------------------
(* Prices.                                                                 *)

(* A tick is a number of the smallest prices.                              *)
LEMMA UnitsOfPrice ==
  ASSUME NEW c \in Config, c.gridNum > 0, NEW y \in Symbols, y.tick > 0
  PROVE  /\ y.priceUnit * c.gridNum \in Nat \ {0}
         /\ y.tick * c.gridNum \in Nat \ {0}
         /\ \E m \in Nat : y.tick * c.gridNum = m * (y.priceUnit * c.gridNum)
<1> DEFINE m == y.tick \div y.priceUnit
<1>1. c.gridNum \in Nat \ {0} /\ y.tick \in Nat \ {0} /\ y.priceUnit \in Nat \ {0}
  BY ConfigAssumption DEF Config, SymbolRule
<1>2. y.tick % y.priceUnit = 0
  BY TickAssumption
<1>3. m \in Nat /\ y.tick = y.priceUnit * m
  BY <1>1, <1>2, SMT
<1> HIDE DEF m
<1>4. y.tick * c.gridNum = m * (y.priceUnit * c.gridNum)
  BY <1>1, <1>3, SMT
<1>5. y.priceUnit * c.gridNum \in Nat \ {0} /\ y.tick * c.gridNum \in Nat \ {0}
  BY <1>1, SMT
<1> QED BY <1>3, <1>4, <1>5

(* An order's price is a multiple of the tick, and rounding it again, as   *)
(* after a restart, does not change it.                                    *)
LEMMA OrderPriceOnTick ==
  ASSUME NEW c \in Config, c.gridNum > 0, NEW y \in Symbols, y.tick > 0, NEW v \in Int
  PROVE  /\ OrderPrice(c, y, v) \in Int
         /\ OrderPrice(c, y, v) % (y.tick * c.gridNum) = 0
         /\ OrderPrice(c, y, OrderPrice(c, y, v)) = OrderPrice(c, y, v)
<1> DEFINE u == y.priceUnit * c.gridNum
           t == y.tick * c.gridNum
           r == Nearest(v, u)
           q == (2 * r + t) \div (2 * t)
<1>1. u \in Nat \ {0} /\ t \in Nat \ {0}
  BY UnitsOfPrice
<1>2. PICK m \in Nat : t = m * u
  BY UnitsOfPrice
<1> HIDE DEF u, t
<1>3. r \in Int
  BY <1>1, NearestIsNear
<1> HIDE DEF r
<1>4. q \in Int /\ Nearest(r, t) = q * t
  BY <1>1, <1>3, SMT DEF Nearest
<1> HIDE DEF q
<1>5. Nearest(r, t) \in Int /\ Nearest(r, t) % t = 0
  BY <1>1, <1>3, NearestIsNear, NearestIsMultiple
<1>6. OrderPrice(c, y, v) = Nearest(r, t)
  BY ConfigAssumption DEF OrderPrice, RoundToPrecision, AdjustPriceToTickSize, SymbolRule, u, t, r
<1>7. q * t = (q * m) * u /\ q * m \in Int
  BY <1>1, <1>2, <1>4, SMT
<1>8. Nearest(q * t, u) = q * t
  BY <1>1, <1>7, NearestOfMultiple
<1>9. Nearest(q * t, t) = q * t
  BY <1>1, <1>4, NearestOfMultiple
<1>10. OrderPrice(c, y, q * t) = q * t
  BY <1>8, <1>9 DEF OrderPrice, RoundToPrecision, AdjustPriceToTickSize, u, t
<1> QED BY <1>4, <1>5, <1>6, <1>10 DEF t

(* Prices a tick apart are sent a tick apart.                              *)
LEMMA OrderPriceKeepsDistance ==
  ASSUME NEW c \in Config, c.gridNum > 0, NEW y \in Symbols, y.tick > 0,
         NEW v \in Int, NEW w \in Int, v + y.tick * c.gridNum <= w
  PROVE  OrderPrice(c, y, v) + y.tick * c.gridNum <= OrderPrice(c, y, w)
<1> DEFINE u == y.priceUnit * c.gridNum
           t == y.tick * c.gridNum
<1>1. u \in Nat \ {0} /\ t \in Nat \ {0} /\ v + t <= w
  BY UnitsOfPrice
<1>2. PICK m \in Nat : t = m * u
  BY UnitsOfPrice
<1>3. /\ OrderPrice(c, y, v) = Nearest(Nearest(v, u), t)
      /\ OrderPrice(c, y, w) = Nearest(Nearest(w, u), t)
  BY ConfigAssumption DEF OrderPrice, RoundToPrecision, AdjustPriceToTickSize, SymbolRule
<1> HIDE DEF u, t
<1>4. Nearest(v, u) \in Int /\ Nearest(w, u) \in Int
  BY <1>1, NearestIsNear
<1>5. Nearest(v, u) + m * u <= Nearest(w, u)
  BY <1>1, <1>2, NearestKeepsDistance
<1>6. Nearest(v, u) + 1 * t <= Nearest(w, u) /\ 1 * t = t
  BY <1>1, <1>2, <1>5, SMT
<1>7. Nearest(Nearest(v, u), t) + 1 * t <= Nearest(Nearest(w, u), t)
  BY <1>1, <1>4, <1>6, NearestKeepsDistance
<1> QED BY <1>3, <1>6, <1>7 DEF t

-----------------------------------------------------------------------------
(* The configuration.                                                      *)

(* A loaded configuration is one, and loading it again changes nothing.    *)
LEMMA LoadedType ==
  ASSUME NEW c \in Config
  PROVE  /\ Loaded(c) \in Config
         /\ Loaded(Loaded(c)) = Loaded(c)
         /\ Loaded(c).lower = c.lower /\ Loaded(c).upper = c.upper
         /\ Loaded(c).gridNum = c.gridNum
<1> DEFINE t == LoadedTotal(c.total)
<1>1. t \in Int /\ LoadedTotal(t) = t
  BY SMT DEF LoadedTotal, Config
<1> HIDE DEF t
<1>2. Loaded(c) = [c EXCEPT !.total = t]
  BY DEF Loaded, t
<1> DEFINE d == [c EXCEPT !.total = t]
<1>3. d \in Config /\ d.total = t
  BY <1>1 DEF Config
<1>4. d.lower = c.lower /\ d.upper = c.upper /\ d.gridNum = c.gridNum
  BY DEF Config
<1>5. [d EXCEPT !.total = t] = d
  BY <1>1 DEF Config
<1> HIDE DEF d
<1>6. Loaded(d) = [d EXCEPT !.total = LoadedTotal(d.total)]
  BY DEF Loaded
<1>7. Loaded(d) = d
  BY <1>1, <1>3, <1>5, <1>6
<1> QED BY <1>2, <1>3, <1>4, <1>7 DEF d

(* Whatever the bot runs with has been loaded, or will be.                 *)
LEMMA LoadedTwice ==
  ASSUME NEW c \in RawConfigs \cup LoadedConfigs
  PROVE  c \in Config /\ Loaded(c) \in LoadedConfigs
BY ConfigAssumption, LoadedType DEF LoadedConfigs

(* Every price of a valid grid is positive.                                *)
LEMMA PricesArePositive ==
  ASSUME NEW c \in Config, Valid(c), NEW i \in Nat
  PROVE  GridLevel(c, i) \in Nat \ {0}
<1>1. /\ c.gridNum \in Nat \ {0} /\ c.lower \in Nat \ {0} /\ Step(c) \in Nat
  BY DEF Config, Valid, Step
<1>2. c.gridNum * c.lower \in Nat \ {0} /\ Step(c) * i \in Nat
  BY <1>1, SMT
<1> QED BY <1>2, SMT DEF GridLevel

(* The total price of a unit at every level is the sum of the prices.      *)
LEMMA TotalIsSum ==
  ASSUME NEW c \in Config, Valid(c)
  PROVE  LET S == 0 .. c.gridNum - 1
             g == [i \in S |-> GridLevel(c, i)]
         IN  TotalPricePerUnit(c) = SumOf(g, S) /\ Summable(g, S)
<1>. DEFINE S == 0 .. c.gridNum - 1
            g == [i \in S |-> GridLevel(c, i)]
            total == CHOOSE f : f = [s \in SUBSET S |->
                       IF s = {} THEN 0
                       ELSE LET x == CHOOSE x \in s : TRUE IN GridLevel(c, x) + f[s \ {x}]]
<1>1. S \subseteq Nat /\ IsFiniteSet(S)
  BY FS_Interval DEF Config
<1>2. Summable(g, S)
  BY <1>1, PricesArePositive DEF Summable
<1>3. PICK f : Sums(f, g, S)
  BY <1>2, SumsExist
<1>4. f = [s \in SUBSET S |->
             IF s = {} THEN 0
             ELSE LET x == CHOOSE x \in s : TRUE IN GridLevel(c, x) + f[s \ {x}]]
  <2>1. \A s \in SUBSET S : s # {} => Pick(s) \in S
    BY Picked
  <2>. QED
    BY <1>3, <2>1 DEF Sums, Pick
<1>5. total = [s \in SUBSET S |->
                 IF s = {} THEN 0
                 ELSE LET x == CHOOSE x \in s : TRUE IN GridLevel(c, x) + total[s \ {x}]]
  <2>. HIDE DEF S
  <2>. QED
    BY <1>4
<1>6. TotalPricePerUnit(c) = total[S]
  BY DEF TotalPricePerUnit, MapThenSumSet, MapThenFoldSet
<1>. HIDE DEF total
<1>7. Sums(total, g, S)
  <2>1. \A s \in SUBSET S : s # {} => Pick(s) \in S
    BY Picked
  <2>. QED
    BY <1>5, <2>1 DEF Sums, Pick
<1>. HIDE DEF g, S
<1>. QED
  BY <1>2, <1>6, <1>7, SumIs DEF S, g

(* The price of a valid grid is a positive number.                         *)
LEMMA TotalIsPositive ==
  ASSUME NEW c \in Config, Valid(c)
  PROVE  TotalPricePerUnit(c) \in Nat \ {0}
<1>. DEFINE S == 0 .. c.gridNum - 1
            g == [i \in S |-> GridLevel(c, i)]
<1>1. IsFiniteSet(S) /\ S # {} /\ \A i \in S : g[i] \in Nat \ {0}
  <2>1. S \subseteq Nat /\ IsFiniteSet(S) /\ 0 \in S
    <3>1. c.gridNum \in Nat /\ c.gridNum > 0
      BY DEF Config, Valid
    <3>. HIDE DEF g
    <3>2. S \subseteq Nat /\ 0 \in S
      BY <3>1
    <3>3. c.gridNum - 1 \in Int
      BY <3>1
    <3>4. IsFiniteSet(0 .. c.gridNum - 1)
      BY <3>3, FS_Interval
    <3>. QED
      BY <3>2, <3>4
  <2>. QED
    BY <2>1, PricesArePositive
<1>2. TotalPricePerUnit(c) = SumOf(g, S)
  BY TotalIsSum
<1>. HIDE DEF S, g
<1>. QED
  BY <1>1, <1>2, SumPositive

(* The quantity of a valid configuration is a number.                      *)
LEMMA QuantityType ==
  ASSUME NEW c \in LoadedConfigs, Valid(c), NEW y \in Symbols
  PROVE  GridQty(c, y) \in Int
<1> DEFINE money == c.total * Whole * c.gridNum
           units == money \div TotalPricePerUnit(c)
<1>1. c \in Config /\ TotalPricePerUnit(c) \in Nat \ {0} /\ y.qtyUnit \in Nat \ {0}
  BY LoadedTwice, TotalIsPositive, ConfigAssumption DEF SymbolRule
<1>2. money \in Int
  BY <1>1, WholeAssumption DEF Config
<1> HIDE DEF money
<1>3. units \in Int
  BY <1>1, <1>2, DivBounds
<1> HIDE DEF units
<1>4. Floored(units, y.qtyUnit) \in Int
  BY <1>1, <1>3, SMT DEF Floored
<1>5. SafeQty(c, y) \in Int
  BY <1>4 DEF SafeQty, units, money
<1> QED BY <1>1, <1>5 DEF GridQty, Config

(* Of two powers of ten the larger is a multiple of the smaller.           *)
LEMMA DecimalsDivide ==
  ASSUME NEW a \in Decimals, NEW b \in Decimals, a <= b
  PROVE  a \in Nat \ {0} /\ \E k \in Nat : b = k * a
<1>1. PICK p \in PowersOfTen : Whole % p = 0 /\ a = Whole \div p
  BY DEF Decimals
<1>2. PICK q \in PowersOfTen : Whole % q = 0 /\ b = Whole \div q
  BY DEF Decimals
<1>3. p \in Nat \ {0} /\ q \in Nat \ {0}
  BY DEF PowersOfTen
<1>4. /\ a \in Int /\ Whole = p * a
      /\ b \in Int /\ Whole = q * b
  BY <1>1, <1>2, <1>3, WholeAssumption
<1>5. a \in Nat \ {0} /\ b \in Nat \ {0}
  BY <1>3, <1>4, WholeAssumption
<1>6. q <= p
  <2>. SUFFICES ASSUME p < q PROVE FALSE
    BY <1>3
  <2>1. p * a < q * a /\ q * a <= q * b
    BY <1>3, <1>5
  <2>. QED
    BY <1>3, <1>4, <1>5, <2>1
<1>7. PICK m \in {1, 10, 100, 1000, 10000} : p = q * m
  BY <1>6 DEF PowersOfTen
<1>8. q * (m * a) = q * b /\ m * a \in Nat
  BY <1>3, <1>4, <1>5, <1>7
<1>9. m * a = b
  BY <1>3, <1>5, <1>8
<1>. QED
  BY <1>5, <1>7, <1>9

(* So is the unit of an order's quantity, and the quantity.                *)
LEMMA LotUnitType ==
  ASSUME NEW y \in Symbols PROVE LotUnit(y) \in Nat \ {0}
<1>. DEFINE unit == LotUnit(y)
<1>1. unit \in Decimals
  BY LotAssumption
<1>2. unit \in Nat
  BY <1>1, WholeAssumption DEF Decimals, PowersOfTen
<1>. HIDE DEF unit
<1>3. unit <= unit
  BY <1>2
<1>. QED
  BY <1>1, <1>3, DecimalsDivide DEF unit

LEMMA PlacedQtyType ==
  ASSUME TypeOK PROVE PlacedQty \in Nat
<1>1. rules \in Symbols /\ gridQty \in Nat
  BY DEF TypeOK
<1>. QED
  BY <1>1, LotUnitType, NearestOfNat DEF PlacedQty, OrderQty

-----------------------------------------------------------------------------
(* The bot runs only with a valid configuration.                           *)
Configured ==
  /\ cfg \in RawConfigs \cup LoadedConfigs
  /\ Sized => Valid(cfg)
  /\ pc # "down" => Sized
  /\ mark \in Marks

(* Of the main position the check never sees less than it was worth.       *)
MainSeen ==
  pc = "readHedgeNotional" /\ check.answered =>
    check.worth <= check.main /\ (check.exact => check.main = check.worth)

MInv == TypeOK /\ Configured /\ MainSeen /\ OverLimitNoticed /\ PauseHasCause

(* What GetPositionInfo answers: the position itself, or when that is zero *)
(* perhaps the other one.                                                  *)
LEMMA ReadingType ==
  ASSUME TypeOK, NEW side \in Sides \cup {"long", "short"}, NEW r \in Readings(side)
  PROVE  /\ r \in [side : Sides, amt : Int]
         /\ r.side = Upper(side) => r = Info(Upper(side))
         /\ r.side # Upper(side) => pos[Upper(side)] = 0
<1>1. Upper(side) \in Sides
  BY DEF Upper, Sides
<1>2. \A s \in Sides : pos[s] \in Nat /\ Info(s) \in [side : Sides, amt : Int] /\ Info(s).side = s
  BY DEF TypeOK, Info, Sides
<1>3. PICK listed \in Listings : r \in PositionInfo(listed, side)
  BY DEF Readings
<1>4. listed \subseteq Sides /\ \A s \in Sides : s \notin listed => pos[s] = 0
  BY <1>2, <1>3 DEF Listings
<1>5. CASE Upper(side) \in listed \/ Fallbacks(listed) = {}
  BY <1>1, <1>2, <1>3, <1>5 DEF PositionInfo
<1>6. CASE ~(Upper(side) \in listed \/ Fallbacks(listed) = {})
  BY <1>1, <1>2, <1>3, <1>4, <1>6 DEF PositionInfo, Fallbacks
<1> QED BY <1>5, <1>6

(* Its notional value is at least that of the position asked for.          *)
LEMMA NotionalCovers ==
  ASSUME TypeOK, mark \in Nat, NEW side \in Sides, NEW r \in Readings(side)
  PROVE  /\ Notional(r) \in Nat /\ Worth(side) \in Nat /\ Worth(side) <= Notional(r)
         /\ r.side = side => Notional(r) = Worth(side)
<1>1. Upper(side) = side
  BY DEF Upper, Sides
<1>2. /\ r \in [side : Sides, amt : Int] /\ pos[side] \in Nat
      /\ r.side = side => r = Info(side)
      /\ r.side # side => pos[side] = 0
  BY <1>1, ReadingType DEF TypeOK
<1>3. Worth(side) \in Nat /\ r.amt * mark \in Int
  BY <1>2, SMT DEF Worth
<1>4. Notional(r) \in Nat
  BY <1>3, SMT DEF Notional, Magnitude
<1>5. CASE r.side = side
  <2>1. r.amt = pos[side] \/ r.amt = -pos[side]
    BY <1>2, <1>5 DEF Info
  <2>2. r.amt * mark = Worth(side) \/ r.amt * mark = -Worth(side)
    BY <1>2, <2>1, SMT DEF Worth
  <2>3. Notional(r) = Worth(side)
    BY <1>3, <2>2, SMT DEF Notional, Magnitude
  <2> QED BY <1>3, <1>4, <2>3, SMT
<1>6. CASE r.side # side
  <2>1. Worth(side) = 0
    BY <1>2, <1>6, SMT DEF Worth
  <2> QED BY <1>4, <1>6, <2>1, SMT
<1> QED BY <1>5, <1>6

-----------------------------------------------------------------------------
(* The steps.                                                              *)

(* What start-up puts into the records has their types.                    *)
LEMMA BlankTypes ==
  /\ NoCheck \in [main : Nat, answered : BOOLEAN, worth : Nat, exact : BOOLEAN]
  /\ NoReading \in [side : Sides, amt : Int]
  /\ NoRequest \in [side : {"BUY", "SELL"}, posSide : Sides \cup {"long", "short"},
                    qty : Nat, reduceOnly : BOOLEAN]
BY DEF NoCheck, NoReading, NoRequest, Sides

(* The bot starts from the invariant.                                      *)
LEMMA MonitorInit == Init => MInv
<1> SUFFICES ASSUME Init PROVE MInv
  OBVIOUS
<1>1. cfg \in Config /\ rules \in Symbols
  BY ConfigAssumption DEF Init
<1>2. GridLevel(cfg, 0) \in Int /\ GridLevel(cfg, cfg.gridNum) \in Int
  BY <1>1, SMT DEF GridLevel, Step, Config
<1>3. mark \in Int
  BY <1>2 DEF Init, Marks
<1>4. pos \in [Sides -> Nat]
  BY DEF Init
<1>5. TypeOK
  BY <1>1, <1>3, <1>4, BlankTypes DEF Init, TypeOK
<1>6. Configured
  BY DEF Init, Configured, Sized
<1> QED BY <1>5, <1>6 DEF Init, MInv, MainSeen, OverLimitNoticed, PauseHasCause, CheckDone, NoCheck

(* What a running check and the configuration rest on stays as it is.      *)
LEMMA CheckUntouched ==
  ASSUME MInv, UNCHANGED <<setup, mark, investment>>,
         \/ pc' = pc
         \/ pc' \notin {"risk", "readHedgeNotional"} /\ (pc' = "down" \/ pc # "down")
  PROVE  Configured' /\ MainSeen' /\ OverLimitNoticed' /\ PauseHasCause'
<1>1. Configured'
  BY DEF MInv, Configured, Sized, setup, Marks
<1>2. MainSeen'
  BY DEF MInv, MainSeen, investment
<1>3. OverLimitNoticed' /\ PauseHasCause'
  BY DEF MInv, OverLimitNoticed, PauseHasCause, CheckDone, InvestmentLimit, setup, investment
<1> QED BY <1>1, <1>2, <1>3

(* Starting the bot keeps the invariant.                                   *)
LEMMA BootKeeps ==
  ASSUME MInv, Boot PROVE MInv'
<1> DEFINE c == Loaded(cfg)
<1>1. /\ c \in Config /\ c \in LoadedConfigs /\ Valid(c)
      /\ c.lower = cfg.lower /\ c.upper = cfg.upper /\ c.gridNum = cfg.gridNum
  BY LoadedTwice, LoadedType DEF Boot, MInv, Configured
<1> HIDE DEF c
<1>2. GridQty(c, rules) \in Int /\ GridQty(c, rules) > 0
  BY <1>1, QuantityType DEF Boot, SizedQty, MInv, TypeOK, c
<1>3. cfg' = c /\ gridQty' = GridQty(c, rules) /\ mark' = mark
  BY DEF Boot, SizedQty, market, c
<1>4. mark' \in Marks'
  BY <1>1, <1>3 DEF MInv, Configured, Marks, GridLevel, Step
<1>5. TypeOK'
  <2>1. cfg' \in Config /\ gridQty' \in Nat
    BY <1>1, <1>2, <1>3
  <2>2. UNCHANGED <<rules, pos, mark, failed, traded>>
    BY DEF Boot, market
  <2>3. /\ pc' = "idle" /\ exceeded' = FALSE /\ check' = NoCheck
        /\ info' = NoReading /\ sent' = NoRequest
    BY DEF Boot
  <2>4. TypeOK
    BY DEF MInv
  <2> QED BY <2>1, <2>2, <2>3, <2>4, BlankTypes DEF TypeOK
<1>6. Configured'
  BY <1>1, <1>2, <1>3, <1>4 DEF Configured, Sized
<1> QED BY <1>5, <1>6 DEF Boot, MInv, MainSeen, OverLimitNoticed, PauseHasCause, CheckDone

(* So does the investment manager's check.                                 *)
LEMMA CheckKeeps ==
  ASSUME MInv, CheckAndUpdate, UNCHANGED liquidation PROVE MInv'
<1>1. TypeOK /\ Configured
  BY DEF MInv
<1>2. pc \in {"idle", "readHedgeNotional"} /\ UNCHANGED <<setup, market, liquidation>>
  BY DEF CheckAndUpdate, SkipCheck, ReadMainNotional, ReadHedgeNotional
<1>3. mark \in Nat
  <2>1. cfg \in Config /\ Valid(cfg) /\ mark \in Marks
    BY <1>1, <1>2 DEF TypeOK, Configured
  <2>2. cfg.gridNum \in Nat
    BY <2>1 DEF Config, Valid
  <2> QED BY <2>1, <2>2, PricesArePositive DEF Marks
<1>4. InvestmentLimit \in Int
  BY <1>1, WholeAssumption DEF InvestmentLimit, TypeOK, Config
<1>5. /\ InvestmentLimit' = InvestmentLimit
      /\ pc' \in {"readHedgeNotional", "risk"} => Configured'
  BY <1>1, <1>2 DEF InvestmentLimit, setup, market, Configured, Sized, Marks
<1>6. GridSide \in Sides /\ RiskSide \in Sides /\ HedgePosSide = RiskSide
  BY DirectionAssumption DEF GridSide, RiskSide, HedgePosSide, Upper, Sides
<1>7. CASE SkipCheck
  BY <1>1, <1>2, <1>5, <1>7 DEF SkipCheck, MInv, TypeOK, MainSeen, OverLimitNoticed, PauseHasCause,
     CheckDone, NoCheck, setup, market, liquidation
<1>8. CASE ReadMainNotional
  <2>1. pc' = "readHedgeNotional" /\ UNCHANGED exceeded
    BY <1>8 DEF ReadMainNotional
  <2>2. /\ check' \in [main : Nat, answered : BOOLEAN, worth : Nat, exact : BOOLEAN]
        /\ check'.answered => /\ check'.worth <= check'.main
                              /\ check'.exact => check'.main = check'.worth
    <3>1. CASE check' = NoCheck
      BY <3>1 DEF NoCheck
    <3>2. CASE check' # NoCheck
      <4>1. PICK r \in Readings(GridSide) :
              check' = [main |-> Notional(r), answered |-> TRUE,
                        worth |-> Worth(GridSide), exact |-> r.side = GridSide]
        BY <1>8, <3>2 DEF ReadMainNotional
      <4>2. /\ Notional(r) \in Nat /\ Worth(GridSide) \in Nat /\ Worth(GridSide) <= Notional(r)
            /\ r.side = GridSide => Notional(r) = Worth(GridSide)
        BY <1>1, <1>3, <1>6, NotionalCovers
      <4> QED BY <4>1, <4>2
    <3> QED BY <3>1, <3>2
  <2>3. TypeOK'
    BY <1>1, <1>2, <2>1, <2>2 DEF TypeOK, setup, market, liquidation
  <2> QED BY <1>5, <2>1, <2>2, <2>3 DEF MInv, MainSeen, OverLimitNoticed, PauseHasCause, CheckDone
<1>9. CASE ReadHedgeNotional
  <2>1. pc = "readHedgeNotional" /\ pc' = "risk"
    BY <1>9 DEF ReadHedgeNotional
  <2>2. check \in [main : Nat, answered : BOOLEAN, worth : Nat, exact : BOOLEAN] /\ exceeded \in BOOLEAN
    BY <1>1 DEF TypeOK
  <2>3. CASE check' = [check EXCEPT !.answered = FALSE] /\ exceeded' = exceeded
    <3>1. TypeOK'
      BY <1>1, <1>2, <2>1, <2>2, <2>3 DEF TypeOK, setup, market, liquidation
    <3>2. ~check'.answered
      BY <2>2, <2>3
    <3> QED BY <1>5, <2>1, <3>1, <3>2 DEF MInv, MainSeen, OverLimitNoticed, PauseHasCause, CheckDone
  <2>4. CASE ~(check' = [check EXCEPT !.answered = FALSE] /\ exceeded' = exceeded)
    <3>1. PICK r \in Readings(RiskSide) :
            /\ check' = [check EXCEPT !.worth = @ + Worth(RiskSide),
                                      !.exact = @ /\ r.side = RiskSide]
            /\ exceeded' = IF check.answered THEN Verdict(check.main + Notional(r)) ELSE exceeded
      BY <1>6, <1>9, <2>4 DEF ReadHedgeNotional
    <3> DEFINE worth == Worth(RiskSide)
               notional == Notional(r)
               sum == check.worth + worth
               both == check.exact /\ r.side = RiskSide
    <3>2. /\ notional \in Nat /\ worth \in Nat /\ worth <= notional
          /\ r.side = RiskSide => notional = worth
      BY <1>1, <1>3, <1>6, NotionalCovers
    <3>3. check' = [check EXCEPT !.worth = sum, !.exact = both]
      BY <3>1, Zenon
    <3>4. sum \in Nat /\ both \in BOOLEAN
      BY <2>2, <3>2
    <3>5. exceeded' = IF check.answered THEN check.main + notional >= InvestmentLimit ELSE exceeded
      BY <3>1, Zenon DEF Verdict
    <3> HIDE DEF worth, notional, sum, both
    <3>10. /\ check' \in [main : Nat, answered : BOOLEAN, worth : Nat, exact : BOOLEAN]
           /\ check'.answered = check.answered /\ check'.main = check.main
           /\ check'.worth = sum /\ check'.exact = both
      BY <2>2, <3>3, <3>4
    <3>11. check.answered \in BOOLEAN /\ exceeded' \in BOOLEAN
      <4>1. (check.main + notional >= InvestmentLimit) \in BOOLEAN
        OBVIOUS
      <4> QED BY <2>2, <3>5, <4>1, Zenon
    <3>6. TypeOK'
      BY <1>1, <1>2, <2>1, <3>10, <3>11 DEF TypeOK, setup, market, liquidation
    <3>7. check.answered => /\ check.worth <= check.main
                            /\ check.exact => check.main = check.worth
      BY <2>1 DEF MInv, MainSeen
    <3>8. OverLimitNoticed'
      <4> SUFFICES ASSUME check.answered, ~exceeded' PROVE sum < InvestmentLimit
        BY <1>5, <3>10 DEF OverLimitNoticed, CheckDone
      <4>1. ~(check.main + notional >= InvestmentLimit)
        BY <3>5, Zenon
      <4> QED BY <1>4, <2>2, <3>2, <3>7, <4>1, SMT DEF sum
    <3>9. PauseHasCause'
      <4> SUFFICES ASSUME check.answered, both, exceeded' PROVE sum >= InvestmentLimit
        BY <1>5, <3>10 DEF PauseHasCause, CheckDone
      <4>1. check.main + notional >= InvestmentLimit
        BY <3>5, Zenon
      <4>2. check.exact /\ r.side = RiskSide
        BY DEF both
      <4> QED BY <1>4, <2>2, <3>2, <3>7, <4>1, <4>2, SMT DEF sum
    <3> QED BY <1>5, <2>1, <3>6, <3>8, <3>9 DEF MInv, MainSeen
  <2> QED BY <2>3, <2>4
<1> QED BY <1>7, <1>8, <1>9 DEF CheckAndUpdate

(* What is traded leaves a position behind.                                *)
LEMMA TradedType ==
  ASSUME TypeOK, NEW s \in Sides, NEW n \in Int, Traded(s, n)
  PROVE  pos' \in [Sides -> Nat]
<1>1. pos \in [Sides -> Nat] /\ pos[s] + n \in Sizes
  BY DEF TypeOK, Traded
<1>2. pos[s] + n \in Nat
  BY <1>1, SMT DEF Sizes
<1>3. pos' = [pos EXCEPT ![s] = pos[s] + n]
  BY DEF Traded
<1> QED BY <1>1, <1>2, <1>3

(* So do the orders of the grid and of the risk manager.                   *)
LEMMA TradeKeeps ==
  ASSUME MInv, HedgeTrade \/ GridTrade PROVE MInv'
<1>1. GridSide \in Sides /\ RiskSide \in Sides
  BY DirectionAssumption DEF GridSide, RiskSide, Upper, Sides
<1>2. TypeOK /\ PlacedQty \in Int
  BY PlacedQtyType DEF MInv
<1>3. pos' \in [Sides -> Nat]
  <2>1. PICK s \in Sides, n \in {PlacedQty, -PlacedQty} : Traded(s, n)
    BY <1>1 DEF HedgeTrade, GridTrade
  <2>2. n \in Int
    BY <1>2
  <2> QED BY <1>2, <2>1, <2>2, TradedType
<1>4. UNCHANGED <<setup, mark, pc, investment, info, sent, failed>> /\ traded' \in BOOLEAN
  BY <1>2 DEF HedgeTrade, GridTrade, liquidation, TypeOK
<1>5. TypeOK'
  BY <1>2, <1>3, <1>4 DEF TypeOK, setup, investment
<1> QED BY <1>4, <1>5, CheckUntouched DEF MInv

(* So does the price.                                                      *)
LEMMA PriceKeeps ==
  ASSUME MInv, PriceMoves PROVE MInv'
<1>1. TypeOK /\ Configured
  BY DEF MInv
<1>2. mark' \in Marks /\ UNCHANGED <<setup, pos, pc, investment, liquidation>>
  BY DEF PriceMoves
<1>3. cfg \in Config
  BY <1>1 DEF TypeOK
<1>4. GridLevel(cfg, 0) \in Int /\ GridLevel(cfg, cfg.gridNum) \in Int
  BY <1>3, SMT DEF GridLevel, Step, Config
<1>5. TypeOK'
  BY <1>1, <1>2, <1>4 DEF TypeOK, setup, investment, liquidation, Marks
<1>6. Configured'
  BY <1>1, <1>2 DEF Configured, Sized, setup, Marks
<1> QED BY <1>2, <1>5, <1>6 DEF MInv, MainSeen, OverLimitNoticed, PauseHasCause, CheckDone,
        InvestmentLimit, setup, investment

-----------------------------------------------------------------------------
(* The liquidation.                                                        *)

(* The sides a liquidation asks for are sides of positions.                *)
LEMMA LiquidationSides ==
  MainSide \in Sides \cup {"long", "short"} /\ HedgeSide \in Sides \cup {"long", "short"}
BY DirectionAssumption DEF MainSide, HedgeSide, Sides

(* A request of it carries reduceOnly, and is refused, or it closes, and   *)
(* the position does not grow.                                             *)
LEMMA RequestReduces ==
  ASSUME TypeOK, NEW side \in Sides \cup {"long", "short"}, NEW amt \in Int
  PROVE  /\ Request(side, amt) \in [side : {"BUY", "SELL"}, posSide : Sides \cup {"long", "short"},
                                    qty : Nat, reduceOnly : BOOLEAN]
         /\ \/ Request(side, amt).reduceOnly
            \/ /\ Executed(Request(side, amt)) \in [Sides -> Nat]
               /\ \A s \in Sides : Executed(Request(side, amt))[s] <= pos[s]
<1> DEFINE r == Request(side, amt)
           u == Upper(side)
<1>1. pos \in [Sides -> Nat] /\ u \in Sides
  BY DEF TypeOK, Upper, Sides
<1>2. /\ r.side \in {"BUY", "SELL"} /\ r.posSide = side
      /\ r.qty \in Nat /\ r.reduceOnly = ~IsUnambiguousClose(r.side, side)
      /\ r \in [side : {"BUY", "SELL"}, posSide : Sides \cup {"long", "short"},
                qty : Nat, reduceOnly : BOOLEAN]
  <2>1. CloseSide(amt) \in {"BUY", "SELL"}
    BY DEF CloseSide
  <2>2. Quantity(amt) \in Nat
    BY SMT DEF Quantity, Magnitude
  <2>3. SendsReduceOnly(CloseSide(amt), side) = ~IsUnambiguousClose(CloseSide(amt), side)
        /\ SendsReduceOnly(CloseSide(amt), side) \in BOOLEAN
    BY DEF SendsReduceOnly, IsUnambiguousClose
  <2> QED BY <2>1, <2>2, <2>3 DEF Request
<1> HIDE DEF r
<1>3. Closing(r) \/ r.reduceOnly
  <2>1. CASE side \in Sides
    <3>1. Upper(side) = side
      BY <2>1 DEF Upper, Sides
    <3> QED BY <1>2, <3>1 DEF Closing
  <2>2. CASE side \in {"long", "short"}
    BY <1>2, <2>2 DEF IsUnambiguousClose
  <2> QED BY <2>1, <2>2
<1>4. CASE Closing(r)
  <2> DEFINE left == pos[u] - r.qty
             rest == IF left < 0 THEN 0 ELSE left
  <2>1. Executed(r) = [pos EXCEPT ![u] = rest]
    BY <1>2, <1>4 DEF Executed
  <2>2. rest \in Nat /\ rest <= pos[u]
    BY <1>1, <1>2, SMT
  <2> HIDE DEF rest, u
  <2> QED BY <1>1, <1>2, <2>1, <2>2 DEF r
<1>5. CASE ~Closing(r)
  BY <1>2, <1>3, <1>5 DEF r
<1> QED BY <1>4, <1>5

(* Of the liquidation's requests none makes a position bigger.             *)
LEMMA CloseReduces ==
  ASSUME TypeOK, NEW side \in Sides \cup {"long", "short"},
         NEW from, NEW part \in {"main", "hedge"}, NEW next, Close(from, part, side, next)
  PROVE  /\ pos' \in [Sides -> Nat]
         /\ \A s \in Sides : pos'[s] <= pos[s]
         /\ sent' \in [side : {"BUY", "SELL"}, posSide : Sides \cup {"long", "short"},
                       qty : Nat, reduceOnly : BOOLEAN]
         /\ failed' \subseteq {"main", "hedge"}
<1>1. info.amt \in Int /\ failed \subseteq {"main", "hedge"} /\ pos \in [Sides -> Nat]
  BY DEF TypeOK
<1>2. sent' = Request(side, info.amt) /\ failed' \subseteq {"main", "hedge"}
  BY <1>1 DEF Close
<1>3. (pos' = Executed(sent') /\ ~sent'.reduceOnly) \/ pos' = pos
  BY DEF Close, Taken, Refused
<1>4. /\ sent' \in [side : {"BUY", "SELL"}, posSide : Sides \cup {"long", "short"},
                    qty : Nat, reduceOnly : BOOLEAN]
      /\ \/ sent'.reduceOnly
         \/ /\ Executed(sent') \in [Sides -> Nat]
            /\ \A s \in Sides : Executed(sent')[s] <= pos[s]
  BY <1>1, <1>2, RequestReduces
<1>5. CASE pos' = pos
  <2>1. \A s \in Sides : pos'[s] <= pos[s]
    BY <1>1, <1>5
  <2> QED BY <1>1, <1>2, <1>4, <1>5, <2>1
<1>6. CASE pos' = Executed(sent') /\ ~sent'.reduceOnly
  BY <1>2, <1>4, <1>6
<1> QED BY <1>3, <1>5, <1>6

(* The liquidation keeps the invariant.                                    *)
LEMMA LiquidationKeeps ==
  ASSUME MInv, LiquidateAndStop, UNCHANGED investment PROVE MInv'
<1>1. TypeOK
  BY DEF MInv
<1>2. UNCHANGED <<setup, mark, investment>>
  BY DEF LiquidateAndStop, Trip, ReadMain, CloseMain, ReadHedge, CloseHedge, Read, Close, Panic, market
<1>3. /\ pc # "down"
      /\ pc' \in {"readMain", "closeMain", "readHedge", "closeHedge", "panic", "down"}
  BY DEF LiquidateAndStop, Trip, ReadMain, CloseMain, ReadHedge, CloseHedge, Read, Close, Panic
<1>4. /\ pos' \in [Sides -> Nat] /\ info' \in [side : Sides, amt : Int]
      /\ sent' \in [side : {"BUY", "SELL"}, posSide : Sides \cup {"long", "short"},
                    qty : Nat, reduceOnly : BOOLEAN]
      /\ failed' \subseteq {"main", "hedge"} /\ traded' \in BOOLEAN
  <2>1. CASE Trip \/ Panic
    BY <1>1, <2>1 DEF Trip, Panic, market, liquidation, TypeOK
  <2>2. CASE ReadMain \/ ReadHedge
    <3>1. PICK side \in Sides \cup {"long", "short"} :
            info' \in Readings(side) \/ info' = info
      BY <2>2, LiquidationSides DEF ReadMain, ReadHedge, Read
    <3>2. info' \in [side : Sides, amt : Int]
      BY <1>1, <3>1, ReadingType DEF TypeOK
    <3>3. UNCHANGED <<pos, sent, traded>> /\ failed' \subseteq {"main", "hedge"}
      BY <1>1, <2>2 DEF ReadMain, ReadHedge, Read, market, TypeOK
    <3> QED BY <1>1, <3>2, <3>3 DEF TypeOK
  <2>3. CASE CloseMain \/ CloseHedge
    <3>1. PICK side \in Sides \cup {"long", "short"}, part \in {"main", "hedge"} :
            \E from, next : Close(from, part, side, next)
      BY <2>3, LiquidationSides DEF CloseMain, CloseHedge
    <3>2. PICK from, next : Close(from, part, side, next)
      BY <3>1
    <3>3. UNCHANGED <<info, traded>>
      BY <3>2 DEF Close
    <3>4. /\ pos' \in [Sides -> Nat] /\ failed' \subseteq {"main", "hedge"}
          /\ sent' \in [side : {"BUY", "SELL"}, posSide : Sides \cup {"long", "short"},
                        qty : Nat, reduceOnly : BOOLEAN]
      BY <1>1, <3>2, CloseReduces
    <3>5. info \in [side : Sides, amt : Int] /\ traded \in BOOLEAN
      BY <1>1 DEF TypeOK
    <3> QED BY <3>3, <3>4, <3>5
  <2> QED BY <2>1, <2>2, <2>3 DEF LiquidateAndStop
<1>5. TypeOK'
  BY <1>1, <1>2, <1>3, <1>4 DEF TypeOK, setup, investment
<1> QED BY <1>2, <1>3, <1>5, CheckUntouched DEF MInv

-----------------------------------------------------------------------------
(* The theorems.                                                           *)

(* The invariant is inductive.                                             *)
LEMMA MonitorNext == MInv /\ [Next]_vars => MInv'
<1> SUFFICES ASSUME MInv, [Next]_vars PROVE MInv'
  OBVIOUS
<1>1. CASE Boot
  BY <1>1, BootKeeps
<1>2. CASE CheckAndUpdate /\ UNCHANGED liquidation
  BY <1>2, CheckKeeps
<1>3. CASE HedgeTrade \/ GridTrade
  BY <1>3, TradeKeeps
<1>4. CASE LiquidateAndStop /\ UNCHANGED investment
  BY <1>4, LiquidationKeeps
<1>5. CASE PriceMoves
  BY <1>5, PriceKeeps
<1>6. CASE EndTick \/ UNCHANGED vars
  <2>1. /\ UNCHANGED <<setup, market, investment, liquidation>>
        /\ pc' = pc \/ (pc = "risk" /\ pc' = "idle")
    BY <1>6 DEF EndTick, vars
  <2>2. TypeOK'
    BY <2>1 DEF MInv, TypeOK, setup, market, investment, liquidation
  <2> QED BY <2>1, <2>2, CheckUntouched DEF MInv, market
<1> QED BY <1>1, <1>2, <1>3, <1>4, <1>5, <1>6 DEF Next, MonitorStep

(* The bot never leaves the invariant.                                     *)
LEMMA MonitorInvariant == Spec => []MInv
BY MonitorInit, MonitorNext, PTL DEF Spec

(* The monitor's variables keep their types, whatever the configuration.   *)
THEOREM MonitorTypes == Spec => []TypeOK
<1>1. MInv => TypeOK
  BY DEF MInv
<1> QED BY <1>1, MonitorInvariant, PTL

(* No check that was answered overlooks that the limit was reached.        *)
THEOREM OverLimitAlwaysNoticed == Spec => []OverLimitNoticed
<1>1. MInv => OverLimitNoticed
  BY DEF MInv
<1> QED BY <1>1, MonitorInvariant, PTL

(* And with both positions listed none pauses the grid without cause.      *)
THEOREM PauseAlwaysCaused == Spec => []PauseHasCause
<1>1. MInv => PauseHasCause
  BY DEF MInv
<1> QED BY <1>1, MonitorInvariant, PTL

(* The liquidation opens nothing, whichever position GetPositionInfo gave. *)
THEOREM LiquidationReduces == Spec => LiquidationOnlyReduces
<1>1. TypeOK /\ [Next]_vars => [pc # pc' => \A s \in Sides : pos'[s] <= pos[s]]_vars
  <2> SUFFICES ASSUME TypeOK, Next, pc # pc', NEW s \in Sides PROVE pos'[s] <= pos[s]
    OBVIOUS
  <2>1. pos \in [Sides -> Nat]
    BY DEF TypeOK
  <2>2. CASE CloseMain \/ CloseHedge
    <3>1. PICK side \in Sides \cup {"long", "short"}, part \in {"main", "hedge"} :
            \E from, next : Close(from, part, side, next)
      BY <2>2, LiquidationSides DEF CloseMain, CloseHedge
    <3>2. PICK from, next : Close(from, part, side, next)
      BY <3>1
    <3> QED BY <3>2, CloseReduces
  <2>3. CASE ~(CloseMain \/ CloseHedge)
    <3>1. pos' = pos
      BY <2>3 DEF Next, MonitorStep, Boot, CheckAndUpdate, SkipCheck, ReadMainNotional,
         ReadHedgeNotional, HedgeTrade, EndTick, LiquidateAndStop, Trip, ReadMain, ReadHedge,
         Read, Panic, GridTrade, PriceMoves, market
    <3> QED BY <2>1, <3>1
  <2> QED BY <2>2, <2>3
<1> QED BY <1>1, MonitorTypes, PTL DEF Spec, LiquidationOnlyReduces

-----------------------------------------------------------------------------
(* What the liquidation leaves behind.                                     *)

(* A look at a side finds it empty, or leads on to its close with its      *)
(* position in hand; the fallback of GetPositionInfo is only ever handed   *)
(* out for an empty side.                                                  *)
LEMMA ReadFinds ==
  ASSUME TypeOK, NEW side \in Sides \cup {"long", "short"},
         NEW from, NEW part, NEW to, NEW next, Read(from, part, side, to, next), part \notin failed'
  PROVE  /\ UNCHANGED pos
         /\ \/ pc' = to /\ (info' = Info(Upper(side)) \/ pos[Upper(side)] = 0)
            \/ pc' = next /\ pos[Upper(side)] = 0
<1> DEFINE s == Upper(side)
<1>1. s \in Sides /\ pos[s] \in Nat
  BY DEF Upper, Sides, TypeOK
<1>2. /\ info' \in Readings(side)
      /\ pc' = IF info'.amt # 0 THEN to ELSE next
      /\ UNCHANGED pos
  BY DEF Read, market
<1>3. PICK r \in Readings(side) : info' = r
  BY <1>2
<1>4. r.side = s => r = Info(s)
  BY <1>3, ReadingType
<1>5. r.side # s => pos[s] = 0
  BY <1>3, ReadingType
<1>6. Info(s).amt = 0 => pos[s] = 0
  BY <1>1, SMT DEF Info
<1> QED BY <1>2, <1>3, <1>4, <1>5, <1>6

(* Closing the position that was read leaves nothing of it, when the side  *)
(* is written in capital letters, so that reduceOnly is not carried.       *)
LEMMA CloseEmpties ==
  ASSUME TypeOK, NEW s \in Sides, NEW from, NEW part \in {"main", "hedge"}, NEW next,
         Close(from, part, s, next), part \notin failed',
         info = Info(s) \/ pos[s] = 0
  PROVE  pos'[s] = 0
<1> DEFINE r == Request(s, info.amt)
<1>1. pos \in [Sides -> Nat] /\ pos[s] \in Nat /\ Upper(s) = s
  BY DEF Upper, Sides, TypeOK
<1>2. CASE pos[s] = 0
  <2>1. pos' \in [Sides -> Nat] /\ pos'[s] <= pos[s]
    BY <1>1, CloseReduces
  <2>2. pos'[s] \in Nat /\ pos'[s] <= 0
    BY <1>1, <1>2, <2>1
  <2> QED BY <2>2
<1>3. CASE pos[s] > 0 /\ info = Info(s)
  <2>1. /\ Closing(r) /\ r.qty = pos[s] /\ r.posSide = s /\ ~r.reduceOnly
    <3>1. CASE s = "LONG"
      <4>1. info.amt = pos[s]
        BY <1>3, <3>1 DEF Info
      <4>2. CloseSide(info.amt) = "SELL" /\ Quantity(info.amt) = pos[s]
        BY <1>1, <1>3, <4>1, SMT DEF CloseSide, Quantity, Magnitude
      <4> QED BY <1>1, <3>1, <4>2 DEF Request, Closing, IsUnambiguousClose, SendsReduceOnly
    <3>2. CASE s = "SHORT"
      <4>1. info.amt = -pos[s]
        BY <1>3, <3>2 DEF Info
      <4>2. CloseSide(info.amt) = "BUY" /\ Quantity(info.amt) = pos[s]
        BY <1>1, <1>3, <4>1, SMT DEF CloseSide, Quantity, Magnitude
      <4> QED BY <1>1, <3>2, <4>2 DEF Request, Closing, IsUnambiguousClose, SendsReduceOnly
    <3> QED BY <1>1, <3>1, <3>2 DEF Sides
  <2> HIDE DEF r
  <2>2. ~Refused(r)
    BY <1>1, <2>1 DEF Refused, TooMuch
  <2>3. Executed(r) = [pos EXCEPT ![s] = 0]
    <3> DEFINE left == pos[s] - r.qty
    <3>1. left = 0
      BY <1>1, <2>1
    <3>2. Executed(r) = [pos EXCEPT ![s] = IF left < 0 THEN 0 ELSE left]
      BY <1>1, <2>1 DEF Executed
    <3> QED BY <3>1, <3>2
  <2>4. sent' = r /\ (Taken(sent') \/ Refused(sent'))
    BY DEF Close, r
  <2>5. pos' = Executed(r)
    <3>1. Refused(sent') => Refused(r)
      BY <2>4 DEF Refused, TooMuch, Closing
    <3> QED BY <2>2, <2>4, <3>1 DEF Taken, Executed, Closing
  <2> QED BY <1>1, <2>3, <2>5
<1> QED BY <1>1, <1>2, <1>3

(* The hedge position on the way to the panic.                             *)
HedgeEmptied ==
  "hedge" \notin failed =>
    /\ pc = "closeHedge" => info = Info(RiskSide) \/ pos[RiskSide] = 0
    /\ pc = "panic" => pos[RiskSide] = 0

(* Whatever else happens while the liquidation goes on, only the grid      *)
(* trades, and on the main side.                                           *)
LEMMA OthersLeaveEmpty ==
  ASSUME TypeOK, [Next]_vars, ~LiquidateAndStop
  PROVE  \/ pc' \in {"idle", "risk", "readHedgeNotional"}
         \/ /\ pc' = pc /\ failed' = failed /\ info' = info
            /\ pos'[RiskSide] = pos[RiskSide]
<1>1. CASE Boot \/ (CheckAndUpdate /\ UNCHANGED liquidation) \/ HedgeTrade \/ EndTick
  BY <1>1 DEF Boot, CheckAndUpdate, SkipCheck, ReadMainNotional, ReadHedgeNotional, HedgeTrade, EndTick
<1>2. CASE GridTrade
  <2>1. pos \in [Sides -> Nat] /\ GridSide # RiskSide
    BY DirectionAssumption DEF TypeOK, GridSide, RiskSide, Upper
  <2>2. UNCHANGED <<pc, failed, info>>
    BY <1>2 DEF GridTrade
  <2>3. PICK k : pos' = [pos EXCEPT ![GridSide] = k]
    BY <1>2 DEF GridTrade, Traded
  <2>4. pos'[RiskSide] = pos[RiskSide]
    BY <2>1, <2>3 DEF RiskSide, Sides
  <2> QED BY <2>2, <2>4
<1>3. CASE PriceMoves \/ UNCHANGED vars
  BY <1>3 DEF PriceMoves, vars, liquidation, market
<1> QED BY <1>1, <1>2, <1>3 DEF Next, MonitorStep

(* The hedge position is emptied, by its close or because there was none,  *)
(* when the grid is long: for a short grid the code looks at the main side *)
(* a second time instead.                                                  *)
LEMMA HedgeEmptiedStep ==
  ASSUME Direction = "long"
  PROVE  TypeOK /\ HedgeEmptied /\ [Next]_vars => HedgeEmptied'
<1> SUFFICES ASSUME TypeOK, HedgeEmptied, [Next]_vars, "hedge" \notin failed'
             PROVE  /\ pc' = "closeHedge" => info' = Info(RiskSide)' \/ pos'[RiskSide] = 0
                    /\ pc' = "panic" => pos'[RiskSide] = 0
  BY DEF HedgeEmptied, RiskSide, GridSide, Upper
<1> USE LiquidationSides
<1>1. /\ RiskSide \in Sides /\ HedgeSide = RiskSide /\ Upper(HedgeSide) = RiskSide
      /\ pos \in [Sides -> Nat]
  BY DEF TypeOK, GridSide, RiskSide, HedgeSide, Upper, Sides
<1>2. CASE Trip \/ ReadMain \/ CloseMain \/ Panic
  BY <1>2 DEF Trip, ReadMain, CloseMain, Read, Close, Panic
<1>3. CASE ReadHedge
  <2>1. /\ UNCHANGED pos
        /\ \/ pc' = "closeHedge" /\ (info' = Info(RiskSide) \/ pos[RiskSide] = 0)
           \/ pc' = "panic" /\ pos[RiskSide] = 0
    BY <1>1, <1>3, ReadFinds DEF ReadHedge
  <2>2. Info(RiskSide)' = Info(RiskSide)
    BY <2>1 DEF Info, RiskSide, GridSide
  <2> QED BY <2>1, <2>2
<1>4. CASE CloseHedge
  <2>1. "hedge" \notin failed /\ pc = "closeHedge" /\ pc' = "panic"
    BY <1>4 DEF CloseHedge, Close, TypeOK
  <2>2. info = Info(RiskSide) \/ pos[RiskSide] = 0
    BY <2>1 DEF HedgeEmptied
  <2>3. pos'[RiskSide] = 0
    BY <1>1, <1>4, <2>2, CloseEmpties DEF CloseHedge
  <2> QED BY <2>1, <2>3
<1>5. CASE ~LiquidateAndStop
  <2>1. \/ pc' \in {"idle", "risk", "readHedgeNotional"}
        \/ /\ pc' = pc /\ failed' = failed /\ info' = info
           /\ pos'[RiskSide] = pos[RiskSide]
    BY <1>5, OthersLeaveEmpty
  <2>2. pos'[RiskSide] = pos[RiskSide] => Info(RiskSide)' = Info(RiskSide)
    BY DEF Info, RiskSide, GridSide
  <2> QED BY <2>1, <2>2 DEF HedgeEmptied
<1> QED BY <1>2, <1>3, <1>4, <1>5 DEF LiquidateAndStop

(* A close order whose side is written in small letters carries reduceOnly *)
(* and is refused.                                                         *)
LEMMA SmallLettersRefused ==
  ASSUME NEW from, NEW part, NEW next, Close(from, part, "long", next)
  PROVE  pos' = pos
<1>1. sent'.reduceOnly
  BY DEF Close, Request, SendsReduceOnly, IsUnambiguousClose
<1> QED BY <1>1 DEF Close, Taken, Refused

(* The breaker of a long grid never touches the main position (strat.      *)
(* Direction has small letters, as the position side of its close order):  *)
(* what is left of it when the process panics is all there was.            *)
THEOREM MainNeverClosed ==
  ASSUME Direction = "long"
  PROVE  Spec => [][pc # pc' => pos'[GridSide] = pos[GridSide]]_vars
<1>1. TypeOK /\ [Next]_vars => [pc # pc' => pos'[GridSide] = pos[GridSide]]_vars
  <2> SUFFICES ASSUME TypeOK, Next, pc # pc' PROVE pos'[GridSide] = pos[GridSide]
    OBVIOUS
  <2>1. GridSide = "LONG" /\ HedgeSide = "SHORT" /\ pos \in [Sides -> Nat]
    BY DEF TypeOK, GridSide, HedgeSide, Upper
  <2>2. CASE CloseMain
    BY <2>2, SmallLettersRefused DEF CloseMain, MainSide
  <2>3. CASE CloseHedge
    <3>1. Close("closeHedge", "hedge", "SHORT", "panic")
      BY <2>1, <2>3 DEF CloseHedge
    <3>2. pos' = pos \/ pos' = Executed(sent')
      BY <3>1 DEF Close, Taken, Refused
    <3>3. Upper(sent'.posSide) = "SHORT"
      BY <3>1 DEF Close, Request, Upper
    <3> QED BY <2>1, <3>2, <3>3 DEF Executed, Sides
  <2>4. CASE ~(CloseMain \/ CloseHedge)
    BY <2>4 DEF Next, MonitorStep, Boot, CheckAndUpdate, SkipCheck, ReadMainNotional,
       ReadHedgeNotional, HedgeTrade, EndTick, LiquidateAndStop, Trip, ReadMain, ReadHedge,
       Read, Panic, GridTrade, PriceMoves, market
  <2> QED BY <2>2, <2>3, <2>4
<1> QED BY <1>1, MonitorTypes, PTL DEF Spec

(* It leaves no hedge position, if the requests for that were answered,    *)
(* whatever became of the others (HedgeSide compares with "SHORT", which a *)
(* configuration never holds, so that the hedge of a short grid stays).    *)
THEOREM HedgeFlattenedIfLong ==
  ASSUME Direction = "long"
  PROVE  Spec => []HedgeFlattened
<1>1. Init => HedgeEmptied
  BY DEF Init, HedgeEmptied
<1>2. TypeOK /\ HedgeEmptied /\ [Next]_vars => HedgeEmptied'
  BY HedgeEmptiedStep
<1>3. HedgeEmptied => HedgeFlattened
  BY DEF HedgeEmptied, HedgeFlattened
<1> QED BY <1>1, <1>2, <1>3, MonitorTypes, PTL DEF Spec

-----------------------------------------------------------------------------
(* The grid's profit.                                                      *)

(* A close order lies a tick from the open order, on the profitable side.  *)
LEMMA CloseIsApart ==
  ASSUME NEW c \in Config, c.gridNum > 0, NEW y \in Symbols, y.tick > 0,
         NEW v \in Int, Step(c) >= y.tick * c.gridNum, NEW side \in {"long", "short"},
         NEW known \in {v, OrderPrice(c, y, v)}
  PROVE  IF side = "long"
           THEN ClosePrice(c, y, known, side) - OrderPrice(c, y, v) >= y.tick * c.gridNum
           ELSE OrderPrice(c, y, v) - ClosePrice(c, y, known, side) >= y.tick * c.gridNum
<1> DEFINE t == y.tick * c.gridNum
           p(x) == OrderPrice(c, y, x)
<1>1. t \in Nat /\ Step(c) \in Int /\ v \in Int /\ known \in Int
  BY UnitsOfPrice, OrderPriceOnTick DEF Step, Config
<1>2. p(known) = p(v)
  BY OrderPriceOnTick
<1>3. known + t <= known + Step(c) /\ (known - Step(c)) + t <= known
  BY <1>1
<1>4. p(known) + t <= p(known + Step(c))
  BY <1>1, <1>3, OrderPriceKeepsDistance
<1>5. p(known - Step(c)) + t <= p(known)
  BY <1>1, <1>3, OrderPriceKeepsDistance
<1>6. p(known) \in Int /\ p(known + Step(c)) \in Int /\ p(known - Step(c)) \in Int
  BY <1>1, OrderPriceOnTick
<1>7. CASE side = "long"
  <2>1. ClosePrice(c, y, known, side) = p(known + Step(c))
    BY <1>7 DEF ClosePrice
  <2> HIDE DEF t, p
  <2>2. p(known + Step(c)) - p(v) >= t
    BY <1>1, <1>2, <1>4, <1>6
  <2> QED BY <1>7, <2>1, <2>2 DEF t, p
<1>8. CASE side = "short"
  <2>1. ClosePrice(c, y, known, side) = p(known - Step(c))
    BY <1>8 DEF ClosePrice
  <2> HIDE DEF t, p
  <2>2. p(v) - p(known - Step(c)) >= t
    BY <1>1, <1>2, <1>5, <1>6
  <2> QED BY <1>8, <2>1, <2>2 DEF t, p
<1> QED BY <1>7, <1>8

(* Rounding never eats up the profit of a level, before a restart or after.*)
THEOREM SpreadAlwaysKept == Spec => []SpreadKept
<1>1. TypeOK /\ Configured => SpreadKept
  <2> SUFFICES ASSUME TypeOK, Configured, Sized, rules.tick > 0,
                      NEW i \in 0 .. cfg.gridNum - 1, NEW known \in OpenPrices(i)
               PROVE  ClosesWell(OpenPrice(cfg, rules, i), ClosePrice(cfg, rules, known, Direction))
    BY DEF SpreadKept
  <2> DEFINE v == GridLevel(cfg, i)
  <2>1. cfg \in Config /\ rules \in Symbols /\ cfg.gridNum > 0
    BY DEF TypeOK, Configured, Valid
  <2>2. i \in Int /\ v \in Int /\ Step(cfg) \in Int
    BY <2>1, SMT DEF GridLevel, Step, Config
  <2>3. known \in {v, OrderPrice(cfg, rules, v)} /\ known \in Int
    BY <2>1, <2>2, OrderPriceOnTick DEF OpenPrices, OpenPrice
  <2>4. known + Step(cfg) \in Int /\ known - Step(cfg) \in Int
    BY <2>2, <2>3
  <2>5. ClosePrice(cfg, rules, known, Direction) % (rules.tick * cfg.gridNum) = 0
    BY <2>1, <2>4, OrderPriceOnTick DEF ClosePrice
  <2>6. ASSUME Step(cfg) >= Tick
        PROVE  Profit(OpenPrice(cfg, rules, i), ClosePrice(cfg, rules, known, Direction)) >= Tick
    <3> HIDE DEF v
    <3> QED BY <2>1, <2>2, <2>3, <2>6, CloseIsApart, DirectionAssumption DEF Profit, Tick, OpenPrice, v
  <2> QED BY <2>5, <2>6 DEF ClosesWell, Tick
<1>2. MInv => TypeOK /\ Configured
  BY DEF MInv
<1> QED BY <1>1, <1>2, MonitorInvariant, PTL

-----------------------------------------------------------------------------
(* What the grid costs.                                                    *)

(* The quantity is the one computed from the loaded configuration.         *)
SizedAsComputed == Sized => gridQty = GridQty(cfg, rules)

(* It is computed by the step that starts the bot, and nothing it depends  *)
(* on changes afterwards.                                                  *)
LEMMA SizedStep == MInv /\ SizedAsComputed /\ [Next]_vars => SizedAsComputed'
<1>. SUFFICES ASSUME MInv, SizedAsComputed, [Next]_vars PROVE SizedAsComputed'
  OBVIOUS
<1>1. CASE Boot
  BY <1>1 DEF Boot, SizedQty, SizedAsComputed
<1>2. CASE ~Boot
  <2>1. UNCHANGED setup
    <3>1. CASE CheckAndUpdate
      BY <3>1 DEF CheckAndUpdate, SkipCheck, ReadMainNotional, ReadHedgeNotional
    <3>2. CASE LiquidateAndStop
      BY <3>2 DEF LiquidateAndStop, Trip, ReadMain, CloseMain, ReadHedge,
         CloseHedge, Read, Close, Panic
    <3>3. CASE HedgeTrade \/ EndTick \/ GridTrade \/ PriceMoves
      BY <3>3 DEF HedgeTrade, EndTick, GridTrade, PriceMoves
    <3>. QED
      BY <1>2, <3>1, <3>2, <3>3 DEF Next, MonitorStep, vars
  <2>. QED
    BY <2>1 DEF SizedAsComputed, Sized, setup
<1>. QED
  BY <1>1, <1>2

(* An order's price is at most half of each unit it is rounded to above    *)
(* the price computed.                                                     *)
LEMMA OrderPriceIsNear ==
  ASSUME NEW c \in Config, c.gridNum > 0, NEW y \in Symbols, NEW v \in Int
  PROVE  /\ OrderPrice(c, y, v) \in Int
         /\ 2 * OrderPrice(c, y, v) <= 2 * v + (y.priceUnit + y.tick) * c.gridNum
<1>. DEFINE u == y.priceUnit * c.gridNum
            t == y.tick * c.gridNum
            r == Nearest(v, u)
<1>1. c.gridNum \in Nat \ {0} /\ y.tick \in Nat /\ y.priceUnit \in Nat \ {0}
  BY ConfigAssumption DEF Config, SymbolRule
<1>2. u \in Nat \ {0} /\ t \in Nat /\ (y.priceUnit + y.tick) * c.gridNum = u + t
  BY <1>1
<1>3. r \in Int /\ 2 * r <= 2 * v + u
  BY <1>2, NearestIsNear
<1>4. CASE y.tick = 0
  <2>1. OrderPrice(c, y, v) = r
    BY <1>4 DEF OrderPrice, RoundToPrecision, AdjustPriceToTickSize
  <2>. HIDE DEF r, u, t
  <2>. QED
    BY <1>2, <1>3, <2>1
<1>5. CASE y.tick # 0
  <2>1. OrderPrice(c, y, v) = Nearest(r, t)
    BY <1>5 DEF OrderPrice, RoundToPrecision, AdjustPriceToTickSize
  <2>2. t \in Nat \ {0}
    BY <1>1, <1>5
  <2>. HIDE DEF r, u, t
  <2>3. Nearest(r, t) \in Int /\ 2 * Nearest(r, t) <= 2 * r + t
    BY <1>3, <2>2, NearestIsNear
  <2>. QED
    BY <1>2, <1>3, <2>1, <2>3
<1>. QED
  BY <1>4, <1>5

(* The total price of a unit at every level, as it is sent, is the sum of  *)
(* the prices sent.                                                        *)
LEMMA WholeGridIsSum ==
  ASSUME \A i \in 0 .. cfg.gridNum - 1 : OpenPrice(cfg, rules, i) \in Int,
         IsFiniteSet(0 .. cfg.gridNum - 1)
  PROVE  LET S == 0 .. cfg.gridNum - 1
             g == [i \in S |-> OpenPrice(cfg, rules, i)]
         IN  WholeGrid = SumOf(g, S) /\ Summable(g, S)
<1>. DEFINE S == 0 .. cfg.gridNum - 1
            g == [i \in S |-> OpenPrice(cfg, rules, i)]
            total == CHOOSE f : f = [s \in SUBSET S |->
                       IF s = {} THEN 0
                       ELSE LET x == CHOOSE x \in s : TRUE IN OpenPrice(cfg, rules, x) + f[s \ {x}]]
<1>1. Summable(g, S)
  BY DEF Summable
<1>2. \A s \in SUBSET S : s # {} => Pick(s) \in S
  BY Picked
<1>3. PICK f : Sums(f, g, S)
  BY <1>1, SumsExist
<1>4. f = [s \in SUBSET S |->
             IF s = {} THEN 0
             ELSE LET x == CHOOSE x \in s : TRUE IN OpenPrice(cfg, rules, x) + f[s \ {x}]]
  BY <1>2, <1>3 DEF Sums, Pick
<1>5. total = [s \in SUBSET S |->
                 IF s = {} THEN 0
                 ELSE LET x == CHOOSE x \in s : TRUE IN OpenPrice(cfg, rules, x) + total[s \ {x}]]
  <2>. HIDE DEF S
  <2>. QED
    BY <1>4
<1>6. WholeGrid = total[S]
  BY DEF WholeGrid, MapThenSumSet, MapThenFoldSet
<1>. HIDE DEF total
<1>7. Sums(total, g, S)
  BY <1>2, <1>5 DEF Sums, Pick
<1>. HIDE DEF g, S
<1>. QED
  BY <1>1, <1>6, <1>7, SumIs DEF S, g

(* A quantity that the computation floored is sent as it is, where orders  *)
(* are rounded to a unit no coarser, and at most half a unit more else.    *)
LEMMA SafeQtyIsSent ==
  ASSUME NEW c \in Config, Valid(c), c.total > 0, NEW y \in Symbols
  PROVE  /\ SafeQty(c, y) \in Int /\ OrderQty(y, SafeQty(c, y)) \in Int
         /\ 2 * OrderQty(y, SafeQty(c, y)) <=
              2 * SafeQty(c, y) + (IF LotUnit(y) > y.qtyUnit THEN LotUnit(y) ELSE 0)
         /\ SafeQty(c, y) * TotalPricePerUnit(c) <= c.total * Whole * c.gridNum
<1>. DEFINE money == c.total * Whole * c.gridNum
            price == TotalPricePerUnit(c)
            units == money \div price
            unit == y.qtyUnit
            lots == units \div unit
<1>1. money \in Int
  BY WholeAssumption DEF Config, Valid
<1>2. price \in Nat \ {0}
  BY TotalIsPositive
<1>3. unit \in Nat \ {0}
  BY ConfigAssumption DEF SymbolRule
<1>4. LotUnit(y) \in Nat \ {0} /\ (LotUnit(y) <= unit => \E k \in Nat : unit = k * LotUnit(y))
  BY LotUnitType, LotAssumption, DecimalsDivide
<1>5. SafeQty(c, y) = lots * unit
  BY DEF SafeQty, Floored
<1>. HIDE DEF money, price, unit
<1>6. units \in Int /\ units * price <= money
  BY <1>1, <1>2, DivBounds
<1>. HIDE DEF units
<1>7. lots \in Int /\ lots * unit <= units
  BY <1>3, <1>6, DivBounds
<1>. HIDE DEF lots
<1>8. lots * unit \in Int
  BY <1>3, <1>7
<1>9. (lots * unit) * price <= units * price
  BY <1>2, <1>6, <1>7, <1>8
<1>. DEFINE ordered == OrderQty(y, lots * unit)
            coarser == IF LotUnit(y) > unit THEN LotUnit(y) ELSE 0
<1>10. ordered \in Int /\ 2 * ordered <= 2 * (lots * unit) + coarser
  <2>1. CASE LotUnit(y) > unit
    BY <1>4, <1>8, <2>1, NearestIsNear DEF OrderQty
  <2>2. CASE LotUnit(y) <= unit
    <3>1. PICK k \in Nat : unit = k * LotUnit(y)
      BY <1>4, <2>2
    <3>2. lots * unit = (lots * k) * LotUnit(y) /\ lots * k \in Int
      BY <1>4, <1>7, <3>1
    <3>3. Nearest((lots * k) * LotUnit(y), LotUnit(y)) = (lots * k) * LotUnit(y)
      BY <1>4, <3>2, NearestOfMultiple
    <3>4. ordered = lots * unit
      BY <3>2, <3>3 DEF OrderQty
    <3>. HIDE DEF ordered
    <3>. QED
      BY <1>3, <1>4, <1>8, <2>2, <3>4
  <2>. QED
    BY <1>3, <1>4, <2>1, <2>2
<1>11. (lots * unit) * price \in Int /\ units * price \in Int
  BY <1>2, <1>6, <1>8
<1>12. (lots * unit) * price <= money
  BY <1>1, <1>6, <1>9, <1>11
<1>. QED
  BY <1>5, <1>8, <1>10, <1>12 DEF money, price, unit

(* The grid that is placed costs what the investment allows and, per order *)
(* at most, half of each unit a price is rounded to and half a coarser lot.*)
LEMMA Affordable ==
  ASSUME MInv, SizedAsComputed PROVE GridAffordable
<1>. SUFFICES ASSUME Sized, cfg.total > 0
              PROVE  2 * PlacedQty * WholeGrid
                       <= 2 * InvestmentLimit + PlacedQty * RoundingUp
                            + CoarserLot * TotalPricePerUnit(cfg)
  BY DEF GridAffordable
<1>. DEFINE S == 0 .. cfg.gridNum - 1
            level == [i \in S |-> GridLevel(cfg, i)]
            open == [i \in S |-> OpenPrice(cfg, rules, i)]
            half == (rules.priceUnit + rules.tick) * cfg.gridNum
            total == TotalPricePerUnit(cfg)
            qty == SafeQty(cfg, rules)
<1>1. cfg \in Config /\ Valid(cfg) /\ rules \in Symbols
  BY DEF MInv, TypeOK, Configured
<1>2. /\ cfg.gridNum \in Nat \ {0} /\ rules.priceUnit \in Nat /\ rules.tick \in Nat
      /\ cfg.total \in Int
  BY <1>1, ConfigAssumption DEF Config, Valid, SymbolRule
<1>3. /\ PlacedQty \in Nat /\ qty \in Int /\ qty * total <= InvestmentLimit
      /\ 2 * PlacedQty <= 2 * qty + CoarserLot
  <2>1. gridQty = qty /\ gridQty > 0
    BY DEF SizedAsComputed, Sized, GridQty
  <2>2. PlacedQty \in Nat
    BY PlacedQtyType DEF MInv
  <2>. QED
    BY <1>1, <2>1, <2>2, SafeQtyIsSent DEF PlacedQty, InvestmentLimit, CoarserLot
<1>4. S \subseteq Nat /\ IsFiniteSet(S) /\ Cardinality(S) = cfg.gridNum
  <2>1. /\ 0 \in Int /\ cfg.gridNum - 1 \in Int /\ 0 <= cfg.gridNum - 1
        /\ (cfg.gridNum - 1) - 0 + 1 = cfg.gridNum
    BY <1>2
  <2>2. IsFiniteSet(S) /\ Cardinality(S) = cfg.gridNum
    BY <2>1, FS_Interval
  <2>3. S \subseteq Nat
    BY <1>2
  <2>. QED
    BY <2>2, <2>3
<1>5. \A i \in S : /\ OpenPrice(cfg, rules, i) \in Int
                   /\ 2 * OpenPrice(cfg, rules, i) <= 2 * GridLevel(cfg, i) + half
  <2>. SUFFICES ASSUME NEW i \in S
                PROVE  /\ OpenPrice(cfg, rules, i) \in Int
                       /\ 2 * OpenPrice(cfg, rules, i) <= 2 * GridLevel(cfg, i) + half
    OBVIOUS
  <2>1. GridLevel(cfg, i) \in Int
    BY <1>1, <1>4, PricesArePositive
  <2>. QED
    BY <1>1, <1>2, <2>1, OrderPriceIsNear DEF OpenPrice
<1>6. total = SumOf(level, S) /\ Summable(level, S)
  BY <1>1, TotalIsSum
<1>7. WholeGrid = SumOf(open, S) /\ Summable(open, S)
  BY <1>4, <1>5, WholeGridIsSum
<1>8. half \in Int /\ RoundingUp = half * cfg.gridNum
  BY <1>2 DEF RoundingUp
<1>9. \A i \in S : 2 * open[i] <= 2 * level[i] + half
  BY <1>5
<1>. HIDE DEF S, level, open, half, qty, total
<1>10. 2 * WholeGrid <= 2 * total + RoundingUp
  BY <1>4, <1>6, <1>7, <1>8, <1>9, SumBound
<1>11. WholeGrid \in Int /\ total \in Int /\ RoundingUp \in Int /\ InvestmentLimit \in Int
  BY <1>2, <1>6, <1>7, <1>8, SumType, WholeAssumption DEF InvestmentLimit
<1>12. CoarserLot \in Int /\ total >= 0
  BY <1>1, LotUnitType, TotalIsPositive DEF CoarserLot, total
<1>13. PlacedQty * (2 * WholeGrid) <= PlacedQty * (2 * total + RoundingUp)
  BY <1>3, <1>10, <1>11
<1>14. (2 * PlacedQty) * total <= (2 * qty + CoarserLot) * total
  BY <1>3, <1>11, <1>12
<1>15. /\ PlacedQty * (2 * WholeGrid) = 2 * PlacedQty * WholeGrid
       /\ PlacedQty * (2 * total + RoundingUp) = (2 * PlacedQty) * total + PlacedQty * RoundingUp
       /\ (2 * qty + CoarserLot) * total = 2 * (qty * total) + CoarserLot * total
       /\ qty * total \in Int /\ PlacedQty * RoundingUp \in Int /\ CoarserLot * total \in Int
       /\ PlacedQty * WholeGrid \in Int /\ PlacedQty * total \in Int
  BY <1>3, <1>11, <1>12
<1>. QED
  BY <1>3, <1>11, <1>13, <1>14, <1>15 DEF total

(* "Absolute safety": at whatever total, prices and filters the bot        *)
(* starts, its grid can be bought for the total (NewOrchestrator,          *)
(* placeOrder and utils/math.go).                                          *)
THEOREM GridAlwaysAffordable == Spec => []GridAffordable
<1>1. Init => SizedAsComputed
  BY DEF Init, SizedAsComputed, Sized
<1>2. MInv /\ SizedAsComputed => GridAffordable
  BY Affordable
<1>. QED
  BY <1>1, <1>2, SizedStep, MonitorInvariant, PTL DEF Spec
=============================================================================
