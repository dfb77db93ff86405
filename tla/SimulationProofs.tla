-------------------------- MODULE SimulationProofs --------------------------
(***************************************************************************)
(* What holds of the bot on the simulated exchange for every grid, every   *)
(* number of orders, every range of prices and every number of hedges.     *)
(***************************************************************************)
EXTENDS Simulation, SumLemmas, SequenceTheorems

(* A set of numbers up to n has a greatest one.                            *)
LEMMA Greater ==
  ASSUME NEW n \in Nat, NEW S \in SUBSET (1 .. n), S # {}
  PROVE  \E x \in S : \A y \in S : x >= y
<1>. DEFINE T == {k \in Nat : \A s \in SUBSET (1 .. k) : s # {} => \E x \in s : \A y \in s : x >= y}
<1>1. 0 \in T
  <2>1. 1 .. 0 = {}
    OBVIOUS
  <2>. QED
    BY <2>1
<1>2. \A k \in T : k + 1 \in T
  <2>. SUFFICES ASSUME NEW k \in T, NEW s \in SUBSET (1 .. k + 1), s # {}
                PROVE  \E x \in s : \A y \in s : x >= y
    OBVIOUS
  <2>1. CASE k + 1 \in s
    BY <2>1
  <2>2. CASE k + 1 \notin s
    <3>1. s \in SUBSET (1 .. k)
      BY <2>2
    <3>. QED
      BY <3>1
  <2>. QED
    BY <2>1, <2>2
<1>3. T = Nat
  <2>. HIDE DEF T
  <2>1. T \subseteq Nat
    BY DEF T
  <2>. QED
    BY <1>1, <1>2, <2>1, Induction
<1>. QED
  BY <1>3

(* Max picks it.                                                           *)
LEMMA MaxPicked ==
  ASSUME NEW n \in Nat, NEW S \in SUBSET (1 .. n), S # {}
  PROVE  Max(S) \in S
<1>1. \E x \in S : \A y \in S : x >= y
  BY Greater
<1>. QED
  BY <1>1 DEF Max

(* Settling an order takes a position to a position.                       *)
LEMMA SettleType ==
  ASSUME NEW p \in [Sides -> Int], NEW o \in MockOrder
  PROVE  Settle(p, o) \in [Sides -> Int]
BY DEF Settle, SideOf, Signed, MockOrder, Sides, MainSide

(* The positions after a tick, one order settled after the other.          *)
LEMMA TickFold ==
  ASSUME pos \in [Sides -> Int], \A i \in DOMAIN book : book[i] \in MockOrder,
         NEW n \in Nat, NEW done \in [1 .. n -> DOMAIN book]
  PROVE  \E f \in [SUBSET (1 .. n) -> [Sides -> Int]] :
           /\ FoldLeft(LAMBDA positions, i : Settle(positions, book[i]), pos, done) = f[1 .. n]
           /\ \A s \in SUBSET (1 .. n) :
                /\ s # {} => Max(s) \in s
                /\ f[s] = IF s = {} THEN pos
                          ELSE Settle(f[s \ {Max(s)}], book[done[Max(s)]])
<1>. DEFINE S == 1 .. n
            V == [Sides -> Int]
            pick == [s \in SUBSET S |-> Max(s)]
            step == [xv \in S \X V |-> Settle(xv[2], book[done[xv[1]]])]
            fold == CHOOSE f : f = [s \in SUBSET S |->
                       IF s = {} THEN pos
                       ELSE LET x == Max(s) IN Settle(f[s \ {x}], book[done[x]])]
<1>1. \A s \in SUBSET S : s # {} => Max(s) \in s
  BY MaxPicked
<1>2. IsFiniteSet(S)
  BY FS_Interval
<1>3. \A x \in S : \A v \in V : Settle(v, book[done[x]]) \in V
  BY SettleType
<1>4. Chooses(pick, S) /\ StaysIn(step, S, V)
  BY <1>1, <1>3 DEF Chooses, StaysIn
<1>5. PICK f \in [SUBSET S -> V] : IsFold(f, pos, pick, step, S)
  <2>. HIDE DEF pick, step, S, V
  <2>1. pos \in V
    BY DEF V
  <2>. QED
    BY ONLY <1>2, <1>4, <2>1, FoldExists
<1>6. f = [s \in SUBSET S |->
             IF s = {} THEN pos ELSE LET x == Max(s) IN Settle(f[s \ {x}], book[done[x]])]
  <2>. SUFFICES ASSUME NEW s \in SUBSET S
                PROVE  f[s] = IF s = {} THEN pos
                              ELSE Settle(f[s \ {Max(s)}], book[done[Max(s)]])
    OBVIOUS
  <2>1. f[s] = IF s = {} THEN pos ELSE step[<<pick[s], f[s \ {pick[s]}]>>]
    BY <1>5 DEF IsFold
  <2>2. ASSUME s # {}
        PROVE  step[<<pick[s], f[s \ {pick[s]}]>>] = Settle(f[s \ {Max(s)}], book[done[Max(s)]])
    <3>1. Max(s) \in S /\ pick[s] = Max(s) /\ f[s \ {Max(s)}] \in V
      BY <1>1, <2>2
    <3>. QED
      BY <3>1
  <2>. QED
    BY <2>1, <2>2
<1>7. fold = [s \in SUBSET S |->
                IF s = {} THEN pos ELSE LET x == Max(s) IN Settle(fold[s \ {x}], book[done[x]])]
  <2>. HIDE DEF S
  <2>. QED
    BY <1>6
<1>. HIDE DEF fold
<1>8. fold[S] = f[S]
  <2>1. SameSteps(fold, f, pick, S)
    <3>. SUFFICES ASSUME NEW s \in SUBSET S, s # {} => fold[s \ {Max(s)}] = f[s \ {Max(s)}]
                  PROVE  fold[s] = f[s]
      BY DEF SameSteps
    <3>1. /\ fold[s] = IF s = {} THEN pos ELSE Settle(fold[s \ {Max(s)}], book[done[Max(s)]])
          /\ f[s] = IF s = {} THEN pos ELSE Settle(f[s \ {Max(s)}], book[done[Max(s)]])
      BY <1>6, <1>7
    <3>. QED
      BY <3>1
  <2>2. \A s \in SUBSET S : fold[s] = f[s]
    <3>. HIDE DEF S, pick
    <3>. QED
      BY ONLY <1>2, <1>4, <2>1, FoldsAgree
  <2>. QED
    BY <2>2
<1>9. FoldLeft(LAMBDA positions, i : Settle(positions, book[i]), pos, done) = fold[S]
  BY DEF FoldLeft, MapThenFoldSet, fold
<1>. QED
  BY <1>1, <1>6, <1>8, <1>9
-----------------------------------------------------------------------------
(* The simulated exchange by itself.                                       *)

(* What Append does.                                                       *)
LEMMA Appended ==
  ASSUME NEW S, NEW seq \in Seq(S), NEW e \in S
  PROVE  LET longer == Append(seq, e) IN
         /\ longer \in Seq(S) /\ Len(longer) = Len(seq) + 1
         /\ DOMAIN longer = DOMAIN seq \cup {Len(seq) + 1} /\ Len(seq) + 1 \notin DOMAIN seq
         /\ \A i \in DOMAIN seq : longer[i] = seq[i]
         /\ longer[Len(seq) + 1] = e
         /\ ToSet(longer) = ToSet(seq) \cup {e}
<1>. DEFINE longer == Append(seq, e)
            n == Len(seq)
<1>1. /\ longer \in Seq(S) /\ Len(longer) = n + 1
      /\ \A i \in 1 .. n : longer[i] = seq[i]
      /\ longer[n + 1] = e
  BY AppendProperties
<1>2. n \in Nat /\ DOMAIN seq = 1 .. n /\ DOMAIN longer = 1 .. n + 1
  BY <1>1, LenProperties
<1>. HIDE DEF longer, n
<1>3. DOMAIN longer = DOMAIN seq \cup {n + 1} /\ n + 1 \notin DOMAIN seq
  BY <1>2
<1>4. ToSet(longer) = ToSet(seq) \cup {e}
  BY <1>1, <1>2, <1>3 DEF ToSet
<1>. QED
  BY <1>1, <1>2, <1>3, <1>4 DEF longer, n

(* While the simulator gives c.mu back, nothing is in its hands; a tick    *)
(* has every order once, and all of them are open.                         *)
Ticking ==
  /\ LockFree => sim = Waiting
  /\ ~LockFree => {sim.cur} \cup sim.todo \cup ToSet(sim.done) \subseteq resting
  /\ sim.cur \notin sim.todo \cup ToSet(sim.done)
  /\ sim.todo \cap ToSet(sim.done) = {}
  /\ \A j \in DOMAIN sim.done, k \in DOMAIN sim.done : sim.done[j] = sim.done[k] => j = k

(* An order is new as long as it is open, or written already by a tick     *)
(* that has not ended.                                                     *)
Statuses ==
  \A i \in DOMAIN book :
    /\ book[i].status = "NEW" <=> i \in resting \ ToSet(sim.done)
    /\ i \in ToSet(sim.done) => book[i].status = "FILLED"
    /\ book[i].status = "FILLED" => book[i].exec = book[i].qty

MockInv == MockTypeOK /\ Ticking /\ Statuses

(* What the bot orders, and all that it and the simulator do to the        *)
(* exchange.  The grid's orders are limit orders, and nothing else is on   *)
(* its side.                                                               *)
OfTheGrid(o) == o.type = "LIMIT" /\ o.posSide = MainSide /\ o.qty = 1
NotOfTheGrid(o) == o.type = "MARKET" /\ o.posSide # MainSide
NewOrder == {o \in MockOrder : o.status = "NEW" /\ (OfTheGrid(o) \/ NotOfTheGrid(o))}
MockStep ==
  \/ UNCHANGED mock
  \/ \E o \in NewOrder : PlaceOrder(o)
  \/ \E i \in OrderId : CancelOrder(i)
  \/ Liquidate
  \/ BeginTick
  \/ WriteOrder

(* What the fields of an order of the book are.                            *)
LEMMA OrderFields ==
  ASSUME NEW r \in MockOrder
  PROVE  r.side \in {"BUY", "SELL"} /\ r.avg \in Int /\ r.exec \in Nat
<1>1. Prices \cup {0} \subseteq Int
  BY DEF Prices
<1>. QED
  BY <1>1 DEF MockOrder

(* The book as a function.                                                 *)
LEMMA BookType ==
  ASSUME MockTypeOK
  PROVE  /\ Len(book) \in Nat /\ DOMAIN book = 1 .. Len(book) /\ DOMAIN book \subseteq OrderId
         /\ book \in [DOMAIN book -> MockOrder]
         /\ Len(sim.done) \in Nat /\ DOMAIN sim.done = 1 .. Len(sim.done)
         /\ sim.done \in [DOMAIN sim.done -> DOMAIN book] /\ ToSet(sim.done) \subseteq DOMAIN book
         /\ sim.done \in Seq(DOMAIN book)
<1>1. book \in Seq(MockOrder) /\ Len(book) <= MaxOrders /\ sim.done \in Seq(DOMAIN book)
  BY DEF MockTypeOK
<1>2. Len(book) \in Nat /\ DOMAIN book = 1 .. Len(book) /\ book \in [1 .. Len(book) -> MockOrder]
  BY <1>1, LenProperties
<1>3. /\ Len(sim.done) \in Nat /\ DOMAIN sim.done = 1 .. Len(sim.done)
      /\ sim.done \in [1 .. Len(sim.done) -> DOMAIN book]
  BY <1>1, LenProperties
<1>4. DOMAIN book \subseteq OrderId
  BY <1>1, <1>2, MockAssumption DEF OrderId
<1>5. ToSet(sim.done) \subseteq DOMAIN book
  BY <1>3 DEF ToSet
<1>. QED
  BY <1>1, <1>2, <1>3, <1>4, <1>5

(* Placing an order.                                                       *)
LEMMA PlaceOrderMock ==
  ASSUME MockInv, NEW o \in NewOrder, PlaceOrder(o)
  PROVE  /\ MockInv'
         /\ LockFree /\ sim = Waiting /\ NextId \in OrderId
         /\ NextId \notin DOMAIN book /\ DOMAIN book' = DOMAIN book \cup {NextId}
         /\ book'[NextId] = o /\ \A i \in DOMAIN book : book'[i] = book[i]
<1>. USE DEF MockInv
<1>1. /\ LockFree /\ sim = Waiting /\ NextId \in OrderId /\ o \in MockOrder /\ o.status = "NEW"
      /\ book' = Append(book, o) /\ resting' = resting \cup {NextId}
      /\ UNCHANGED <<price, pos, mode, attacking, sim>>
  BY DEF PlaceOrder, CanPlace, Ticking, NewOrder
<1>2. /\ book' \in Seq(MockOrder) /\ Len(book') = NextId
      /\ NextId \notin DOMAIN book /\ DOMAIN book' = DOMAIN book \cup {NextId}
      /\ book'[NextId] = o /\ \A i \in DOMAIN book : book'[i] = book[i]
  BY <1>1, Appended DEF MockTypeOK, NextId
<1>3. sim.done = <<>> /\ sim.todo = {} /\ sim.cur = 0 /\ ToSet(sim.done) = {}
  BY <1>1 DEF Waiting, ToSet
<1>4. MockTypeOK'
  <2>1. Len(book') <= MaxOrders
    BY <1>1, <1>2, MockAssumption DEF OrderId
  <2>2. resting' \subseteq DOMAIN book'
    BY <1>1, <1>2 DEF MockTypeOK
  <2>3. sim' \in [cur : 0 .. MaxOrders, todo : SUBSET DOMAIN book', done : Seq(DOMAIN book')]
    <3>1. sim = [cur |-> 0, todo |-> {}, done |-> <<>>]
      BY <1>1 DEF Waiting
    <3>2. <<>> \in Seq(DOMAIN book') /\ 0 \in 0 .. MaxOrders
      BY EmptySeq, MockAssumption
    <3>. QED
      BY <1>1, <3>1, <3>2
  <2>. QED
    BY <1>1, <1>2, <2>1, <2>2, <2>3 DEF MockTypeOK
<1>5. Ticking'
  BY <1>1 DEF Ticking, LockFree, Waiting
<1>6. Statuses'
  BY <1>1, <1>2, <1>3 DEF Statuses, MockTypeOK
<1>. QED
  BY <1>1, <1>2, <1>4, <1>5, <1>6

(* Cancelling one.                                                         *)
LEMMA CancelOrderMock ==
  ASSUME MockInv, NEW i \in OrderId, CancelOrder(i)
  PROVE  /\ MockInv'
         /\ LockFree /\ sim = Waiting /\ i \in resting
         /\ DOMAIN book' = DOMAIN book /\ book'[i] = [book[i] EXCEPT !.status = "CANCELED"]
         /\ \A j \in DOMAIN book : j # i => book'[j] = book[j]
<1>. USE DEF MockInv
<1>1. /\ LockFree /\ sim = Waiting /\ i \in resting
      /\ book' = [book EXCEPT ![i].status = "CANCELED"] /\ resting' = resting \ {i}
      /\ UNCHANGED <<price, pos, mode, attacking, sim>>
  BY DEF CancelOrder, Ticking
<1>2. sim.done = <<>> /\ sim.todo = {} /\ sim.cur = 0 /\ ToSet(sim.done) = {}
  BY <1>1 DEF Waiting, ToSet
<1>3. i \in 1 .. Len(book) /\ book[i] \in MockOrder /\ book \in Seq(MockOrder)
  BY <1>1, BookType DEF MockTypeOK
<1>. DEFINE o == [book[i] EXCEPT !.status = "CANCELED"]
<1>4. o \in MockOrder /\ o.status = "CANCELED"
  BY <1>3 DEF MockOrder, MockStatus
<1>5. book' = [book EXCEPT ![i] = o]
  BY <1>1
<1>. HIDE DEF o
<1>6. /\ book' \in Seq(MockOrder) /\ Len(book') = Len(book)
      /\ \A j \in 1 .. Len(book) : book'[j] = IF j = i THEN o ELSE book[j]
  BY <1>3, <1>4, <1>5, ExceptSeq
<1>7. DOMAIN book' = DOMAIN book /\ DOMAIN book = 1 .. Len(book)
  BY <1>5, BookType
<1>8. MockTypeOK'
  BY <1>1, <1>6, <1>7 DEF MockTypeOK
<1>9. Ticking'
  BY <1>1 DEF Ticking, LockFree, Waiting
<1>10. Statuses'
  BY <1>1, <1>2, <1>4, <1>6, <1>7 DEF Statuses, MockTypeOK
<1>. QED
  BY <1>1, <1>3, <1>6, <1>7, <1>8, <1>9, <1>10 DEF o

(* Zeroing the positions.                                                  *)
LEMMA LiquidateMock ==
  ASSUME MockInv, Liquidate
  PROVE  /\ MockInv' /\ LockFree /\ sim = Waiting
         /\ DOMAIN book' = DOMAIN book
         /\ \A i \in DOMAIN book :
              book'[i] = IF i \in ForceSettled THEN Filled(book[i], price) ELSE book[i]
<1>. USE DEF MockInv
<1>1. /\ LockFree /\ sim = Waiting
      /\ book' = [i \in DOMAIN book |->
                    IF i \in ForceSettled THEN Filled(book[i], price) ELSE book[i]]
      /\ resting' = resting \ ForceSettled /\ pos' = [s \in Sides |-> 0]
      /\ UNCHANGED <<price, mode, attacking, sim>>
  BY DEF Liquidate, Ticking, LeftOpen
<1>2. sim.done = <<>> /\ sim.todo = {} /\ sim.cur = 0 /\ ToSet(sim.done) = {}
  BY <1>1 DEF Waiting, ToSet
<1>3. /\ \A i \in DOMAIN book : book[i] \in MockOrder
      /\ DOMAIN book = 1 .. Len(book) /\ Len(book) \in Nat /\ price \in Prices \cup {0}
  BY BookType DEF MockTypeOK
<1>4. \A i \in DOMAIN book :
        /\ Filled(book[i], price) \in MockOrder
        /\ Filled(book[i], price).status = "FILLED"
        /\ Filled(book[i], price).exec = Filled(book[i], price).qty
  BY <1>3 DEF MockOrder, MockStatus, Filled
<1>5. DOMAIN book' = DOMAIN book
  BY <1>1
<1>6. book' \in Seq(MockOrder) /\ Len(book') = Len(book)
  <2>1. book' \in [1 .. Len(book) -> MockOrder]
    BY <1>1, <1>3, <1>4
  <2>2. book' \in Seq(MockOrder)
    BY <1>3, <2>1, SeqDef
  <2>3. Len(book') \in Nat /\ DOMAIN book' = 1 .. Len(book')
    BY <2>2, LenProperties
  <2>. QED
    BY <1>3, <1>5, <2>2, <2>3
<1>7. MockTypeOK'
  BY <1>1, <1>5, <1>6 DEF MockTypeOK
<1>8. Ticking'
  BY <1>1 DEF Ticking, LockFree, Waiting
<1>9. Statuses'
  BY <1>1, <1>2, <1>4, <1>5 DEF Statuses, ForceSettled
<1>. QED
  BY <1>1, <1>5, <1>7, <1>8, <1>9

(* The price moves, and what it matches is taken up.                       *)
LEMMA BeginTickMock ==
  ASSUME MockInv, BeginTick
  PROVE  MockInv' /\ LockFree /\ sim = Waiting /\ ToSet(sim'.done) = {}
<1>. USE DEF MockInv
<1>1. /\ LockFree /\ sim = Waiting /\ UNCHANGED <<book, resting, pos, mode, attacking>>
      /\ price' \in Prices \cup {0}
  BY MockAssumption DEF BeginTick, Ticking, NextPrices, StressPrice, Between, MockTypeOK, Prices
<1>2. PICK matched \in SUBSET resting :
        sim' \in IF matched = {} THEN {Waiting} ELSE Fill(matched, <<>>)
  BY DEF BeginTick
<1>3. /\ sim'.cur \in 0 .. MaxOrders /\ sim'.todo \subseteq resting /\ sim'.done = <<>>
      /\ sim' = [cur |-> sim'.cur, todo |-> sim'.todo, done |-> <<>>]
      /\ sim'.cur = 0 => sim' = Waiting
      /\ sim'.cur # 0 => sim'.cur \in resting
      /\ sim'.cur \notin sim'.todo
  <2>1. resting \subseteq OrderId /\ 0 \notin OrderId /\ OrderId \subseteq 0 .. MaxOrders
    BY BookType, MockAssumption DEF MockTypeOK, OrderId
  <2>2. CASE matched = {}
    BY <1>2, <2>2, MockAssumption DEF Waiting
  <2>3. CASE matched # {}
    BY <1>2, <2>1, <2>3 DEF Fill
  <2>. QED
    BY <2>2, <2>3
<1>4. <<>> \in Seq(DOMAIN book) /\ ToSet(sim'.done) = {} /\ ToSet(sim.done) = {}
  BY <1>1, <1>3, EmptySeq DEF ToSet, Waiting
<1>5. MockTypeOK'
  BY <1>1, <1>3, <1>4 DEF MockTypeOK
<1>6. Ticking'
  BY <1>1, <1>3, <1>4 DEF Ticking, LockFree
<1>7. Statuses'
  BY <1>1, <1>4 DEF Statuses
<1>. QED
  BY <1>1, <1>4, <1>5, <1>6, <1>7

(* How much every order moves the position of a side.                      *)
Moved(s) == [i \in DOMAIN book |-> IF book[i].posSide = s THEN Signed(book[i].side, book[i].qty) ELSE 0]

(* Every order moves it by a number.                                       *)
LEMMA MovedType ==
  ASSUME MockTypeOK, NEW s \in Sides
  PROVE  Summable(Moved(s), DOMAIN book) /\ \A T \in SUBSET DOMAIN book : Summable(Moved(s), T)
<1>1. IsFiniteSet(DOMAIN book)
  <2>1. Len(book) \in Int /\ DOMAIN book = 1 .. Len(book)
    BY BookType
  <2>. QED
    BY <2>1, FS_Interval
<1>2. \A i \in DOMAIN book : book[i].side \in {"BUY", "SELL"} /\ book[i].qty \in Nat
  BY BookType DEF MockOrder
<1>3. \A i \in DOMAIN book : Moved(s)[i] \in Int
  BY <1>2 DEF Moved, Signed
<1>. QED
  BY <1>1, <1>3, FS_Subset DEF Summable

(* A tick moves a position by all of its orders, in whichever order they   *)
(* are settled.                                                            *)
LEMMA TickSettles ==
  ASSUME MockInv, ~LockFree, NEW s \in Sides,
         NEW done, done = Append(sim.done, sim.cur),
         \A i \in ToSet(done) : book[i].posSide # "long"
  PROVE  FoldLeft(LAMBDA positions, i : Settle(positions, book[i]), pos, done)[s]
           = pos[s] + SumOf(Moved(s), ToSet(done))
<1>. USE DEF MockInv
<1>1. sim.cur \in DOMAIN book /\ sim.cur \notin ToSet(sim.done)
  BY DEF Ticking, MockTypeOK
<1>2. /\ done \in Seq(DOMAIN book) /\ ToSet(done) = ToSet(sim.done) \cup {sim.cur}
      /\ DOMAIN done = DOMAIN sim.done \cup {Len(sim.done) + 1}
      /\ Len(sim.done) + 1 \notin DOMAIN sim.done
      /\ \A j \in DOMAIN sim.done : done[j] = sim.done[j]
      /\ done[Len(sim.done) + 1] = sim.cur
  <2>1. sim.done \in Seq(DOMAIN book)
    BY BookType
  <2>. QED
    BY <1>1, <2>1, Appended
<1>3. \A j \in DOMAIN done, k \in DOMAIN done : done[j] = done[k] => j = k
  <2>1. \A j \in DOMAIN sim.done : sim.done[j] \in ToSet(sim.done)
    BY DEF ToSet
  <2>. QED
    BY <1>1, <1>2, <2>1 DEF Ticking
<1>. DEFINE n == Len(done)
            S == 1 .. n
<1>4. n \in Nat /\ DOMAIN done = S /\ done \in [S -> DOMAIN book]
  BY <1>2, LenProperties
<1>5. /\ pos \in [Sides -> Int] /\ \A i \in DOMAIN book : book[i] \in MockOrder
  BY BookType DEF MockTypeOK
<1>6. PICK f \in [SUBSET S -> [Sides -> Int]] :
        /\ FoldLeft(LAMBDA positions, i : Settle(positions, book[i]), pos, done) = f[S]
        /\ \A I \in SUBSET S :
             /\ I # {} => Max(I) \in I
             /\ f[I] = IF I = {} THEN pos ELSE Settle(f[I \ {Max(I)}], book[done[Max(I)]])
  BY <1>4, <1>5, TickFold
<1>. DEFINE At(I) == {done[j] : j \in I}
            Good == {I \in SUBSET S : f[I][s] = pos[s] + SumOf(Moved(s), At(I))}
<1>7. \A I \in SUBSET S : /\ At(I) \in SUBSET DOMAIN book /\ Summable(Moved(s), At(I))
                          /\ SumOf(Moved(s), At(I)) \in Int
  <2>1. \A I \in SUBSET S : At(I) \in SUBSET DOMAIN book
    <3>. SUFFICES ASSUME NEW I \in SUBSET S PROVE \A j \in I : done[j] \in DOMAIN book
      OBVIOUS
    <3>. HIDE DEF S
    <3>. QED
      BY <1>4
  <2>. HIDE DEF At
  <2>. QED
    BY <2>1, MovedType, SumType
<1>8. ASSUME NEW I \in SUBSET S, \A x \in I : I \ {x} \in Good
      PROVE  I \in Good
  <2>1. CASE I = {}
    <3>1. At(I) = {} /\ f[I] = pos
      BY <1>6, <2>1
    <3>2. SumOf(Moved(s), At(I)) = 0
      <4>. HIDE DEF At
      <4>. QED
        BY <3>1, SumEmpty
    <3>3. pos[s] \in Int /\ pos[s] + 0 = pos[s]
      BY <1>5
    <3>. HIDE DEF At
    <3>. QED
      BY <3>1, <3>2, <3>3
  <2>2. CASE I # {}
    <3>. DEFINE m == Max(I)
                d == done[m]
    <3>1. m \in I /\ m \in S /\ f[I] = Settle(f[I \ {m}], book[d])
      BY <1>6, <2>2
    <3>. HIDE DEF m
    <3>2. d \in DOMAIN book /\ book[d] \in MockOrder /\ d \in ToSet(done)
      BY <1>4, <1>5, <3>1 DEF ToSet
    <3>3. d \in At(I) /\ At(I \ {m}) = At(I) \ {d}
      BY <1>3, <1>4, <3>1
    <3>4. f[I \ {m}][s] = pos[s] + SumOf(Moved(s), At(I \ {m}))
      BY <1>8, <3>1
    <3>5. SumOf(Moved(s), At(I)) = SumOf(Moved(s), At(I) \ {d}) + Moved(s)[d]
      <4>. HIDE DEF d, At
      <4>. QED
        BY <1>7, <3>3, SumAdd
    <3>6. f[I][s] = f[I \ {m}][s] + Moved(s)[d]
      <4>1. f[I \ {m}] \in [Sides -> Int]
        BY <1>6
      <4>2. book[d].posSide # "long" /\ SideOf(book[d]) = book[d].posSide
        BY <3>2 DEF SideOf
      <4>3. Settle(f[I \ {m}], book[d])
              = [f[I \ {m}] EXCEPT ![book[d].posSide] = @ + Signed(book[d].side, book[d].qty)]
        BY <4>2 DEF Settle
      <4>4. f[I \ {m}][s] \in Int
        BY <4>1
      <4>5. Moved(s)[d] = IF book[d].posSide = s THEN Signed(book[d].side, book[d].qty) ELSE 0
        BY <3>2 DEF Moved
      <4>. HIDE DEF d
      <4>. QED
        BY <3>1, <4>1, <4>3, <4>4, <4>5
    <3>7. Moved(s)[d] \in Int
      BY <3>2, MovedType DEF Summable
    <3>8. pos[s] \in Int /\ SumOf(Moved(s), At(I \ {m})) \in Int
      <4>. HIDE DEF At
      <4>. QED
        BY <1>5, <1>7
    <3>. HIDE DEF At, d, S
    <3>9. SumOf(Moved(s), At(I \ {m})) = SumOf(Moved(s), At(I) \ {d})
      BY <3>3
    <3>10. f[I][s] = pos[s] + SumOf(Moved(s), At(I))
      BY ONLY <3>4, <3>5, <3>6, <3>7, <3>8, <3>9
    <3>. QED
      BY <3>10
  <2>. QED
    BY <2>1, <2>2
<1>9. Inherited(Good, S) /\ IsFiniteSet(S)
  <2>1. IsFiniteSet(S)
    BY <1>4, FS_Interval
  <2>2. Inherited(Good, S)
    <3>. HIDE DEF Good, S
    <3>. QED
      BY <1>8 DEF Inherited
  <2>. QED
    BY <2>1, <2>2
<1>10. SUBSET S \subseteq Good
  <2>. HIDE DEF Good, S
  <2>. QED
    BY ONLY <1>9, SmallSets
<1>11. At(S) = ToSet(done) /\ S \in SUBSET S
  BY <1>4 DEF ToSet
<1>12. f[S][s] = pos[s] + SumOf(Moved(s), At(S))
  <2>. HIDE DEF At, S
  <2>. QED
    BY <1>10, <1>11
<1>. QED
  BY <1>6, <1>11, <1>12

(* The simulator writes an order, and with the last one ends the tick.     *)
LEMMA WriteOrderMock ==
  ASSUME MockInv, WriteOrder
  PROVE  /\ MockInv' /\ ~LockFree
         /\ sim.cur \in resting /\ sim.cur \in DOMAIN book /\ DOMAIN book' = DOMAIN book
         /\ book'[sim.cur] = Filled(book[sim.cur], price)
         /\ \A i \in DOMAIN book : i # sim.cur => book'[i] = book[i]
         /\ sim.todo # {} =>
              /\ ToSet(sim'.done) = ToSet(sim.done) \cup {sim.cur}
              /\ UNCHANGED <<resting, pos>>
         /\ sim.todo = {} =>
              /\ sim' = Waiting
              /\ resting' = resting \ (ToSet(sim.done) \cup {sim.cur})
              /\ pos' = FoldLeft(LAMBDA positions, i : Settle(positions, book[i]), pos,
                                 Append(sim.done, sim.cur))
<1>. USE DEF MockInv
<1>. DEFINE done == Append(sim.done, sim.cur)
            c == sim.cur
            o == Filled(book[c], price)
<1>1. /\ ~LockFree /\ book' = [book EXCEPT ![c] = o] /\ mode' = mode
      /\ c \in resting /\ c \in DOMAIN book /\ c \notin ToSet(sim.done)
  BY DEF WriteOrder, Ticking, MockTypeOK
<1>2. c \in 1 .. Len(book) /\ book \in Seq(MockOrder) /\ book[c] \in MockOrder /\ DOMAIN book = 1 .. Len(book)
  BY <1>1, BookType DEF MockTypeOK
<1>3. o \in MockOrder /\ o.status = "FILLED" /\ o.exec = o.qty
  BY <1>2 DEF Filled, MockOrder, MockTypeOK, MockStatus
<1>4. /\ book' \in Seq(MockOrder) /\ Len(book') = Len(book) /\ DOMAIN book' = DOMAIN book
      /\ book'[c] = o /\ \A i \in DOMAIN book : i # c => book'[i] = book[i]
  <2>. HIDE DEF o
  <2>1. /\ book' \in Seq(MockOrder) /\ Len(book') = Len(book)
        /\ \A i \in 1 .. Len(book) : book'[i] = IF i = c THEN o ELSE book[i]
    BY <1>1, <1>2, <1>3, ExceptSeq
  <2>. QED
    BY <1>1, <1>2, <2>1
<1>5. /\ done \in Seq(DOMAIN book) /\ ToSet(done) = ToSet(sim.done) \cup {c}
      /\ DOMAIN done = DOMAIN sim.done \cup {Len(sim.done) + 1}
      /\ \A j \in DOMAIN sim.done : done[j] = sim.done[j] /\ sim.done[j] \in ToSet(sim.done)
      /\ done[Len(sim.done) + 1] = c
  <2>1. sim.done \in Seq(DOMAIN book)
    BY BookType
  <2>. QED
    BY <1>1, <2>1, Appended DEF ToSet
<1>6. \A j \in DOMAIN done, k \in DOMAIN done : done[j] = done[k] => j = k
  BY <1>1, <1>5 DEF Ticking
<1>7. ToSet(<<>>) = {}
  BY DEF ToSet
<1>8. CASE sim.todo # {}
  <2>1. UNCHANGED <<resting, price, pos, attacking>> /\ sim' \in Fill(sim.todo, done)
    BY <1>8 DEF WriteOrder
  <2>2. PICK i \in sim.todo : sim' = [cur |-> i, todo |-> sim.todo \ {i}, done |-> done]
    BY <2>1 DEF Fill
  <2>3. /\ i \in resting /\ i # c /\ i \notin ToSet(sim.done) /\ i \in DOMAIN book
        /\ i \in 0 .. MaxOrders /\ i # 0
    BY <1>1, BookType DEF Ticking, MockTypeOK, OrderId
  <2>4. MockTypeOK'
    BY <1>1, <1>4, <1>5, <2>1, <2>2, <2>3 DEF MockTypeOK
  <2>5. Ticking'
    <3>. HIDE DEF done, c
    <3>1. sim'.cur = i /\ sim'.todo = sim.todo \ {i} /\ sim'.done = done /\ ~LockFree'
      BY <2>2, <2>3 DEF LockFree
    <3>2. {c} \cup sim.todo \cup ToSet(sim.done) \subseteq resting /\ c \notin sim.todo
          /\ sim.todo \cap ToSet(sim.done) = {}
      BY <1>1 DEF Ticking, c
    <3>. QED
      BY <1>5, <1>6, <2>1, <2>3, <3>1, <3>2 DEF Ticking
  <2>6. Statuses'
    <3>. HIDE DEF done, c, o
    <3>1. sim'.done = done /\ ToSet(done) = ToSet(sim.done) \cup {c} /\ resting' = resting
      BY <1>5, <2>1, <2>2
    <3>2. ASSUME NEW j \in DOMAIN book, j # c
          PROVE  book'[j] = book[j] /\ (j \in ToSet(sim'.done) <=> j \in ToSet(sim.done))
      BY <1>4, <3>1, <3>2
    <3>3. c \in ToSet(sim'.done) /\ book'[c].status = "FILLED" /\ book'[c].exec = book'[c].qty
      BY <1>3, <1>4, <3>1
    <3>. QED
      BY <1>1, <1>4, <3>1, <3>2, <3>3 DEF Statuses
  <2>. QED
    BY <1>1, <1>4, <1>5, <1>8, <2>1, <2>2, <2>4, <2>5, <2>6
<1>9. CASE sim.todo = {}
  <2>1. /\ sim' = Waiting /\ resting' = resting \ ToSet(done)
        /\ pos' = FoldLeft(LAMBDA positions, i : Settle(positions, book[i]), pos, done)
        /\ price' = Between(price) /\ attacking' \in BOOLEAN
    <3>1. EndTick(done)
      BY <1>9 DEF WriteOrder
    <3>. QED
      BY <3>1 DEF EndTick, StillResting, MockTypeOK
  <2>2. pos' \in [Sides -> Int]
    <3>1. Len(done) \in Nat /\ done \in [1 .. Len(done) -> DOMAIN book]
      BY <1>5, LenProperties
    <3>2. pos \in [Sides -> Int] /\ \A i \in DOMAIN book : book[i] \in MockOrder
      BY BookType DEF MockTypeOK
    <3>3. PICK f \in [SUBSET (1 .. Len(done)) -> [Sides -> Int]] :
            FoldLeft(LAMBDA positions, i : Settle(positions, book[i]), pos, done)
              = f[1 .. Len(done)]
      <4>. HIDE DEF done
      <4>. QED
        BY <3>1, <3>2, TickFold
    <3>. QED
      BY <2>1, <3>3
  <2>3. sim'.cur = 0 /\ sim'.todo = {} /\ sim'.done = <<>> /\ LockFree' /\ ToSet(sim'.done) = {}
    BY <2>1, <1>7 DEF Waiting, LockFree
  <2>4. MockTypeOK'
    <3>1. sim' \in [cur : 0 .. MaxOrders, todo : SUBSET DOMAIN book', done : Seq(DOMAIN book')]
      <4>1. <<>> \in Seq(DOMAIN book') /\ 0 \in 0 .. MaxOrders
        BY EmptySeq, MockAssumption
      <4>. QED
        BY <2>1, <4>1 DEF Waiting
    <3>2. resting' \subseteq DOMAIN book' /\ price' \in Prices \cup {0}
      BY <1>4, <2>1 DEF MockTypeOK, Between
    <3>. QED
      BY <1>1, <1>4, <2>1, <2>2, <3>1, <3>2 DEF MockTypeOK
  <2>5. Ticking'
    <3>1. \A j \in DOMAIN sim'.done, k \in DOMAIN sim'.done : sim'.done[j] = sim'.done[k] => j = k
      BY <2>3
    <3>. QED
      BY <2>1, <2>3, <3>1 DEF Ticking
  <2>6. Statuses'
    <3>. SUFFICES ASSUME NEW i \in DOMAIN book
                  PROVE  /\ book'[i].status = "NEW" <=> i \in resting'
                         /\ book'[i].status = "FILLED" => book'[i].exec = book'[i].qty
      BY <1>4, <2>3 DEF Statuses
    <3>. HIDE DEF done, o, c
    <3>1. CASE i = c
      BY <1>3, <1>4, <1>5, <2>1, <3>1
    <3>2. CASE i # c
      BY <1>4, <1>5, <2>1, <3>2 DEF Statuses
    <3>. QED
      BY <3>1, <3>2
  <2>. QED
    BY <1>1, <1>4, <1>5, <1>9, <2>1, <2>4, <2>5, <2>6
<1>. QED
  BY <1>8, <1>9

-----------------------------------------------------------------------------
(* Money.                                                                  *)

(* The greatest common divisor of a fraction.                              *)
Greatest(g, x) ==
  /\ g \in 1 .. x.d /\ CommonDivisor(g, x)
  /\ \A k \in g + 1 .. x.d : ~CommonDivisor(k, x)

(* Every fraction has one, and is brought to lowest terms by it.           *)
LEMMA Reduced ==
  ASSUME NEW x \in Fraction
  PROVE  \E g \in 1 .. x.d : /\ Greatest(g, x)
                             /\ LowestTerms[x] = [n |-> x.n \div g, d |-> x.d \div g]
<1>1. x.n \in Int /\ x.d \in Nat \ {0}
  BY DEF Fraction
<1>. DEFINE S == {h \in 1 .. x.d : CommonDivisor(h, x)}
            gg == CHOOSE h \in 1 .. x.d : /\ CommonDivisor(h, x)
                                          /\ \A k \in h + 1 .. x.d : ~CommonDivisor(k, x)
<1>2. 1 \in S
  <2>1. x.n % 1 = 0 /\ x.d % 1 = 0
    BY <1>1, SMT
  <2>. QED
    BY <1>1, <2>1 DEF CommonDivisor, Divides
<1>3. Max(S) \in S
  BY <1>1, <1>2, MaxPicked
<1>4. \A y \in S : Max(S) >= y
  <2>1. \E z \in S : \A y \in S : z >= y
    BY <1>1, <1>2, Greater
  <2>. QED
    BY <2>1 DEF Max
<1>5. Greatest(Max(S), x)
  <2>1. PICK m \in S : m = Max(S) /\ \A y \in S : m >= y
    BY <1>3, <1>4
  <2>2. \A k \in m + 1 .. x.d : k \in 1 .. x.d /\ ~(m >= k)
    BY <1>1, <2>1
  <2>. QED
    BY <2>1, <2>2 DEF Greatest
<1>6. Greatest(gg, x)
  BY <1>5 DEF Greatest
<1>7. LowestTerms[x] = [n |-> x.n \div gg, d |-> x.d \div gg]
  BY DEF LowestTerms
<1>. HIDE DEF gg
<1>. QED
  BY <1>6, <1>7 DEF Greatest

(* What a common divisor divides out.                                      *)
LEMMA Divided ==
  ASSUME NEW n \in Int, NEW d \in Nat \ {0}, NEW g \in 1 .. d, Divides(g, n), Divides(g, d)
  PROVE  /\ n \div g \in Int /\ n = g * (n \div g)
         /\ d \div g \in Nat \ {0} /\ d = g * (d \div g)
<1>1. n = g * (n \div g) /\ n \div g \in Int /\ d = g * (d \div g) /\ d \div g \in Int
  BY SMT DEF Divides
<1>2. d \div g >= 1
  BY <1>1, SMT
<1>. QED
  BY <1>1, <1>2

(* Amounts of money are amounts of money again when they are computed with.*)
LEMMA RatioType ==
  ASSUME NEW n \in Int, NEW d \in Nat \ {0}
  PROVE  Ratio(n, d) \in Fraction
<1>. DEFINE x == [n |-> n, d |-> d]
<1>1. x \in Fraction /\ x.n = n /\ x.d = d
  BY DEF Fraction
<1>. HIDE DEF x
<1>2. PICK g \in 1 .. x.d : /\ Greatest(g, x)
                            /\ LowestTerms[x] = [n |-> x.n \div g, d |-> x.d \div g]
  BY <1>1, Reduced
<1>3. Divides(g, n) /\ Divides(g, d) /\ g \in 1 .. d
  BY <1>1, <1>2 DEF Greatest, CommonDivisor
<1>4. n \div g \in Int /\ d \div g \in Nat \ {0}
  BY <1>3, Divided
<1>5. Ratio(n, d) = LowestTerms[x]
  BY DEF Ratio, x
<1>. QED
  BY <1>1, <1>2, <1>4, <1>5 DEF Fraction

(* So what is computed from such amounts is one.                           *)
LEMMA MoneyTypes ==
  ASSUME NEW x \in Fraction, NEW y \in Fraction, NEW k \in Int
  PROVE  /\ Whole(k) \in Fraction
         /\ Plus(x, y) \in Fraction /\ Times(x, k) \in Fraction /\ Minus(x, y) \in Fraction
         /\ k # 0 => Over(x, k) \in Fraction
<1>1. \A z \in Fraction : z.n \in Int /\ z.d \in Nat \ {0}
  BY DEF Fraction
<1>2. \A u \in Fraction, v \in Fraction : Plus(u, v) \in Fraction
  <2>. SUFFICES ASSUME NEW u \in Fraction, NEW v \in Fraction PROVE Plus(u, v) \in Fraction
    OBVIOUS
  <2>1. u.n * v.d + v.n * u.d \in Int /\ u.d * v.d \in Nat \ {0}
    <3>1. u.n \in Int /\ v.n \in Int /\ u.d \in Nat \ {0} /\ v.d \in Nat \ {0}
      BY <1>1
    <3>2. u.n * v.d \in Int /\ v.n * u.d \in Int
      BY <3>1, SMT
    <3>3. u.d * v.d \in Nat \ {0}
      BY <3>1, SMT
    <3>. QED
      BY <3>2, <3>3, SMT
  <2>2. Plus(u, v) = Ratio(u.n * v.d + v.n * u.d, u.d * v.d)
    BY DEF Plus, Added
  <2>. QED
    BY <2>1, <2>2, RatioType
<1>3. \A u \in Fraction, j \in Int : Times(u, j) \in Fraction
  <2>. SUFFICES ASSUME NEW u \in Fraction, NEW j \in Int PROVE Times(u, j) \in Fraction
    OBVIOUS
  <2>1. u.n * j \in Int /\ u.d \in Nat \ {0}
    BY <1>1, SMT
  <2>. QED
    BY <2>1, RatioType DEF Times
<1>4. ASSUME k # 0 PROVE Over(x, k) \in Fraction
  <2>1. /\ k < 0 => -x.n \in Int /\ x.d * (-k) \in Nat \ {0}
        /\ k > 0 => x.n \in Int /\ x.d * k \in Nat \ {0}
    BY <1>1, SMT
  <2>2. k < 0 \/ k > 0
    BY <1>4
  <2>. QED
    BY <2>1, <2>2, RatioType DEF Over
<1>5. Minus(x, y) \in Fraction
  BY <1>2, <1>3 DEF Minus
<1>6. Whole(k) \in Fraction
  BY DEF Whole, Fraction
<1>. QED
  BY <1>2, <1>3, <1>4, <1>5, <1>6

(* A trade leaves an accountant.                                           *)
LEMMA RecordTradeType ==
  ASSUME NEW a \in AccountantType, NEW side \in {"BUY", "SELL"}, NEW p \in Int, NEW q \in Nat
  PROVE  RecordTrade(a, side, p, q) \in AccountantType
<1>1. a.qty \in Int /\ a.avg \in Fraction /\ a.realized \in Fraction
  BY DEF AccountantType
<1>2. Signed(side, q) \in Int /\ \A k \in Int : Magnitude(k) \in Nat
  BY DEF Signed, Magnitude
<1>3. a.qty + Signed(side, q) \in Int
  BY <1>1, <1>2
<1>4. Realized(a, side, p, q) \in Fraction
  <2>1. Whole(p) \in Fraction /\ UnitPNL(a, p) \in Fraction
    BY <1>1, MoneyTypes DEF UnitPNL
  <2>2. QtyToClose(a, q) \in Int
    BY <1>1, <1>2 DEF QtyToClose
  <2>3. Times(UnitPNL(a, p), QtyToClose(a, q)) \in Fraction
    BY <2>1, <2>2, MoneyTypes
  <2>. QED
    BY <1>1, <2>3, MoneyTypes DEF Realized
<1>5. AverageCost(a, side, p, q) \in Fraction
  <2>. DEFINE qty == a.qty + Signed(side, q)
              weighted == Plus(Times(a.avg, Magnitude(a.qty)), Whole(p * q))
  <2>1. weighted \in Fraction
    <3>1. p * q \in Int /\ Magnitude(a.qty) \in Int
      BY <1>1, <1>2, SMT
    <3>2. Times(a.avg, Magnitude(a.qty)) \in Fraction /\ Whole(p * q) \in Fraction
      BY <1>1, <3>1, MoneyTypes
    <3>. QED
      BY <3>2, MoneyTypes
  <2>2. qty # 0 => Magnitude(qty) \in Int /\ Magnitude(qty) # 0
    BY <1>3 DEF Magnitude
  <2>. HIDE DEF weighted
  <2>3. qty # 0 => Over(weighted, Magnitude(qty)) \in Fraction
    BY <2>1, <2>2, MoneyTypes
  <2>4. Zero \in Fraction /\ Whole(p) \in Fraction
    BY MoneyTypes, <1>1 DEF Zero
  <2>5. AverageCost(a, side, p, q)
          \in {Zero, Whole(p), a.avg} \cup (IF qty # 0 THEN {Over(weighted, Magnitude(qty))} ELSE {})
    BY DEF AverageCost, weighted
  <2>. QED
    BY <1>1, <2>3, <2>4, <2>5
<1>. QED
  BY <1>3, <1>4, <1>5 DEF RecordTrade, AccountantType

-----------------------------------------------------------------------------
(* The bot.                                                                *)

(* The goroutines that are in OnOrderUpdate.                               *)
InCall == {"fetch", "section", "relist", "place", "record"}

ThreadType ==
  [pc : {"idle", "init", "risk", "halt", "readMain", "sellMain", "readHedge",
         "buyHedge", "stop", "poll", "got"} \cup InCall,
   order : 0 .. MaxOrders, status : MockStatus \cup {"TORN", "NONE"},
   new : 0 .. MaxOrders, amt : Int, todo : SUBSET (OrderId \cup Levels)]

BotTypes ==
  /\ th \in [Thread -> ThreadType]
  /\ gmuHeld \in BOOLEAN /\ halted \in BOOLEAN /\ notify \in BOOLEAN
  /\ orders \subseteq DOMAIN book /\ booked \subseteq DOMAIN book
  /\ info \in [OrderId -> [kind : {"NONE", "OPEN", "CLOSE"}, level : Levels \cup {0},
                           status : MockStatus \cup {"TORN", "NONE"}]]
  /\ acc \in AccountantType
  /\ hedges \in [opened : 0 .. MaxHedges, closed : 0 .. MaxHedges]
  /\ closing \in {"no", "orders", "zeroed"}

(* The order a goroutine is about is in the book.                          *)
Aimed ==
  /\ \A t \in Thread :
       /\ th[t].pc \in {"got", "relist", "place", "record"} => th[t].order \in DOMAIN book
       /\ th[t].pc = "record" => th[t].new \in DOMAIN book
  /\ th[Monitor].pc \in {"poll", "got"} \cup InCall => th[Monitor].todo \subseteq DOMAIN book

BotInv == MockInv /\ BotTypes /\ Aimed

(* The kinds of order the bot places.                                      *)
LEMMA OrderTypes ==
  /\ \A k \in {"NONE", "OPEN", "CLOSE"}, l \in Levels \cup {0} : GridOrder(k, l) \in NewOrder
  /\ \A side \in {"BUY", "SELL"}, s \in {HedgeSide, "long"}, q \in Nat, r \in BOOLEAN :
       Market(side, s, q, r) \in NewOrder
<1>1. \A l \in Levels \cup {0} : l \in Int /\ l + 1 \in Int
  BY SimulationAssumption DEF Prices
<1>2. \A side \in {"BUY", "SELL"}, p \in Int : Limit(side, p) \in NewOrder
  BY DEF Limit, NewOrder, MockOrder, Sides, MainSide, MockStatus, OfTheGrid
<1>3. \A side \in {"BUY", "SELL"}, s \in {HedgeSide, "long"}, q \in Nat, r \in BOOLEAN :
        Market(side, s, q, r) \in NewOrder
  BY DEF Market, NewOrder, MockOrder, MockStatus, NotOfTheGrid, Sides, MainSide, HedgeSide
<1>. QED
  BY <1>1, <1>2, <1>3 DEF GridOrder

(* The exchange in the initial states.                                     *)
LEMMA MockStarts ==
  ASSUME MockInit
  PROVE  MockInv /\ DOMAIN book = {} /\ sim = Waiting /\ \A s \in Sides : pos[s] = 0
<1>1. /\ book = <<>> /\ resting = {} /\ pos = [s \in Sides |-> 0]
      /\ mode \in {"sine", "bhls_stress_test"} /\ price \in Prices \cup {0}
      /\ attacking = TRUE /\ sim = Waiting
  BY MockAssumption DEF MockInit, Between, Prices
<1>2. /\ DOMAIN book = {} /\ book \in Seq(MockOrder) /\ Len(book) = 0
      /\ <<>> \in Seq(DOMAIN book) /\ ToSet(<<>>) = {}
  BY <1>1, EmptySeq DEF ToSet
<1>3. sim.cur = 0 /\ sim.todo = {} /\ sim.done = <<>>
  BY <1>1 DEF Waiting
<1>4. MockTypeOK
  <2>1. sim \in [cur : 0 .. MaxOrders, todo : SUBSET DOMAIN book, done : Seq(DOMAIN book)]
    BY <1>1, <1>2, MockAssumption DEF Waiting
  <2>. QED
    BY <1>1, <1>2, <2>1, MockAssumption DEF MockTypeOK
<1>5. Ticking
  BY <1>1, <1>2, <1>3 DEF Ticking, LockFree
<1>6. Statuses
  BY <1>2 DEF Statuses
<1>. QED
  BY <1>1, <1>2, <1>4, <1>5, <1>6 DEF MockInv

(* The exchange after every step.                                          *)
LEMMA MockSteps ==
  ASSUME MockInv, MockStep
  PROVE  MockInv' /\ DOMAIN book \subseteq DOMAIN book'
<1>1. CASE UNCHANGED mock
  BY <1>1 DEF MockInv, MockTypeOK, Ticking, Statuses, LockFree, mock
<1>2. ASSUME NEW o \in NewOrder, PlaceOrder(o)
      PROVE  MockInv' /\ DOMAIN book \subseteq DOMAIN book'
  BY <1>2, PlaceOrderMock
<1>3. ASSUME NEW i \in OrderId, CancelOrder(i)
      PROVE  MockInv' /\ DOMAIN book \subseteq DOMAIN book'
  BY <1>3, CancelOrderMock
<1>4. CASE Liquidate
  BY <1>4, LiquidateMock
<1>5. CASE BeginTick
  BY <1>5, BeginTickMock DEF BeginTick
<1>6. CASE WriteOrder
  BY <1>6, WriteOrderMock
<1>. QED
  BY <1>1, <1>2, <1>3, <1>4, <1>5, <1>6 DEF MockStep

(* What the bot does to the exchange.                                      *)
LEMMA BotMockStep ==
  ASSUME BotInv, Next
  PROVE  MockStep
<1>. USE DEF BotInv
<1>1. ASSUME NEW t \in Thread, PlaceNext(t) PROVE MockStep
  <2>1. CASE NextId \notin OrderId
    BY <1>1, <2>1 DEF PlaceNext, MockStep
  <2>2. CASE NextId \in OrderId
    <3>1. PlaceOrder(GridOrder(NewKind(t), info[th[t].order].level)) /\ th[t].order \in OrderId
      BY <1>1, <2>2, BookType DEF PlaceNext, Aimed, MockInv
    <3>2. NewKind(t) \in {"NONE", "OPEN", "CLOSE"} /\ info[th[t].order].level \in Levels \cup {0}
      BY <3>1 DEF BotTypes, NewKind
    <3>. QED
      BY <3>1, <3>2, OrderTypes DEF MockStep
  <2>. QED
    BY <2>1, <2>2
<1>2. ASSUME NEW l \in Levels, InitOrder(l) PROVE MockStep
  BY <1>2, OrderTypes DEF InitOrder, MockStep
<1>3. CASE OpenHedge \/ CloseHedge
  BY <1>3, OrderTypes DEF OpenHedge, CloseHedge, MockStep, HedgeSide, Sides
<1>4. ASSUME NEW pc, NEW s \in {"long", HedgeSide}, NEW next, ClosePosition(pc, s, next)
      PROVE  MockStep
  <2>1. CloseOrder(s) \in NewOrder
    <3>1. th[Monitor].amt \in Int /\ Magnitude(th[Monitor].amt) \in Nat
      BY DEF BotTypes, ThreadType, Thread, Monitor, Magnitude
    <3>. QED
      BY <3>1, OrderTypes DEF CloseOrder, HedgeSide, Sides
  <2>. QED
    BY <1>4, <2>1 DEF ClosePosition, MockStep
<1>5. CASE Simulator
  BY <1>5 DEF Simulator, MockStep
<1>6. ASSUME NEW i \in OrderId, HaltCancels(i) PROVE MockStep
  BY <1>6 DEF HaltCancels, MockStep
<1>7. CASE UNCHANGED mock
  BY <1>7 DEF MockStep
<1>8. ASSUME NEW t \in Thread, OnOrderUpdate(t) PROVE MockStep
  BY <1>1, <1>7, <1>8
     DEF OnOrderUpdate, FetchFill, Section, CheckHalt, RecordNext
<1>9. CASE LiquidateAndStop
  <2>1. BeginLiquidation \/ Panic => UNCHANGED mock
    BY DEF BeginLiquidation, Panic
  <2>2. \A pc, s, place, next : ReadPosition(pc, s, place, next) => UNCHANGED mock
    BY DEF ReadPosition
  <2>. QED
    BY <1>4, <1>7, <1>9, <2>1, <2>2 DEF LiquidateAndStop
<1>10. CASE MonitorStep
  BY <1>2, <1>3, <1>6, <1>7, <1>9, <1>10
     DEF MonitorStep, EndInit, BeginHalt, EndHalt, BeginPoll, PollGet, PollRead, EndPoll
<1>. QED
  BY <1>5, <1>8, <1>10 DEF Next

(* Telling of a change leaves the monitor alone, and starts a callback in  *)
(* a goroutine of its own.                                                 *)
LEMMA Notified ==
  ASSUME NEW threads \in [Thread -> ThreadType], NEW ids \in SUBSET OrderId,
         NEW s \in {"FILLED", "CANCELED"}
  PROVE  /\ Notify(threads, ids, s) \in [Thread -> ThreadType]
         /\ Notify(threads, ids, s)[Monitor] = threads[Monitor]
         /\ \A t \in Thread :
              LET c == Notify(threads, ids, s)[t] IN
              \/ c = threads[t]
              \/ /\ notify /\ t \in ids /\ t # Monitor
                 /\ c.pc = IF s = "FILLED" THEN "fetch" ELSE "section"
                 /\ c.order = t /\ c.status = s /\ c.todo = {}
<1>1. Monitor \notin OrderId /\ OrderId \subseteq Thread /\ Monitor \in Thread
      /\ OrderId \subseteq 0 .. MaxOrders
  BY MockAssumption DEF Monitor, OrderId, Thread
<1>2. \A t \in ids : /\ Entered(Idle, t, s) \in ThreadType
                     /\ Entered(Idle, t, s).pc = IF s = "FILLED" THEN "fetch" ELSE "section"
                     /\ Entered(Idle, t, s).order = t
                     /\ Entered(Idle, t, s).status = s
                     /\ Entered(Idle, t, s).todo = {}
  <2>. SUFFICES ASSUME NEW t \in ids
                PROVE  LET e == Entered(Idle, t, s) IN
                       /\ e \in ThreadType /\ e.pc = IF s = "FILLED" THEN "fetch" ELSE "section"
                       /\ e.order = t /\ e.status = s /\ e.todo = {}
    OBVIOUS
  <2>1. t \in 0 .. MaxOrders /\ 0 \in 0 .. MaxOrders /\ 0 \in Int /\ s \in MockStatus
    BY <1>1, MockAssumption DEF MockStatus
  <2>2. Entered(Idle, t, s) \in ThreadType
    BY <2>1 DEF Entered, Idle, ThreadType, InCall
  <2>. QED
    BY <2>2 DEF Entered, Idle
<1>. QED
  BY <1>1, <1>2 DEF Notify

(* What a goroutine is after it has returned.                              *)
LEMMA ReturnedType ==
  ASSUME th \in [Thread -> ThreadType], NEW t \in Thread
  PROVE  /\ Returned(t) \in ThreadType /\ Returned(t).todo = th[t].todo
         /\ Returned(t).pc = IF t = Monitor THEN "poll" ELSE "idle"
<1>1. th[t].todo \in SUBSET (OrderId \cup Levels) /\ 0 \in 0 .. MaxOrders /\ 0 \in Int
  BY MockAssumption DEF ThreadType
<1>2. Returned(t).todo = th[t].todo /\ Returned(t).pc = IF t = Monitor THEN "poll" ELSE "idle"
  BY DEF Returned, Idle
<1>3. Returned(t) \in ThreadType
  BY <1>1 DEF Returned, Idle, ThreadType, InCall
<1>. QED
  BY <1>2, <1>3

(* The ids of the book are ids.                                            *)
LEMMA BookRange == MockTypeOK => DOMAIN book \subseteq OrderId
BY BookType

(* The book only grows, and the exchange keeps its invariant.              *)
LEMMA Grows ==
  ASSUME BotInv, Next
  PROVE  MockInv' /\ DOMAIN book \subseteq DOMAIN book' /\ DOMAIN book' \subseteq OrderId
<1>1. MockInv' /\ DOMAIN book \subseteq DOMAIN book'
  BY BotMockStep, MockSteps DEF BotInv
<1>2. (MockTypeOK => DOMAIN book \subseteq OrderId)'
  BY BookRange, PTL
<1>. QED
  BY <1>1, <1>2 DEF MockInv

(* Every step of the bot keeps its types.                                  *)
LEMMA BotInvKept ==
  ASSUME BotInv, [Next]_vars
  PROVE  BotInv'
<1>. USE DEF BotInv
<1>0. CASE UNCHANGED vars
  BY <1>0 DEF vars, mock, grid, risk, MockInv, MockTypeOK, Ticking, Statuses, LockFree,
              BotTypes, Aimed
<1>. SUFFICES ASSUME Next PROVE BotInv'
  BY <1>0
<1>1. /\ MockInv' /\ DOMAIN book \subseteq DOMAIN book' /\ DOMAIN book' \subseteq OrderId
      /\ DOMAIN book \subseteq OrderId
      /\ Monitor \in Thread /\ Monitor \notin OrderId /\ OrderId \subseteq Thread
      /\ OrderId \subseteq 0 .. MaxOrders
  BY Grows, BookType, MockAssumption DEF MockInv, Thread, Monitor, OrderId
<1>t. th \in [Thread -> ThreadType]
  BY DEF BotTypes
<1>2. ASSUME NEW t \in Thread, OnOrderUpdate(t)
      PROVE  BotInv'
  <2>0. /\ Returned(t) \in ThreadType /\ Returned(t).todo = th[t].todo
        /\ Returned(t).pc = IF t = Monitor THEN "poll" ELSE "idle"
        /\ th[t] \in ThreadType
    BY ReturnedType DEF BotTypes
  <2>i. th[t].pc \in InCall
    BY <1>2 DEF OnOrderUpdate, FetchFill, Section, CheckHalt, PlaceNext, RecordNext, InCall
  <2>r. ASSUME Return(t), UNCHANGED <<mock, grid, risk, notify>>
        PROVE  BotInv'
    <3>1. th' = [th EXCEPT ![t] = Returned(t)]
      BY <2>r DEF Return
    <3>2. th' \in [Thread -> ThreadType]
      BY <1>t, <2>0, <3>1
    <3>3. BotTypes'
      BY <1>1, <2>r, <3>2 DEF BotTypes, grid, risk
    <3>4. Aimed'
      BY <1>1, <1>t, <2>0, <2>i, <2>r, <3>1 DEF Aimed, InCall, mock
    <3>. QED
      BY <1>1, <3>3, <3>4
  <2>1. CASE FetchFill(t)
    BY <1>1, <2>1 DEF FetchFill, GoTo, BotTypes, Aimed, ThreadType, InCall, mock, grid, risk
  <2>2. CASE Section(t)
    <3>. DEFINE i == th[t].order
                s == th[t].status
    <3>1. UNCHANGED <<mock, risk, notify, gmuHeld, halted>>
      BY <2>2 DEF Section, grid
    <3>2. CASE ~IsNews(i, s)
      <4>1. Return(t) /\ UNCHANGED grid
        BY <2>2, <3>2 DEF Section
      <4>. QED
        BY <2>r, <3>1, <4>1
    <3>3. CASE IsNews(i, s)
      <4>1. i \in DOMAIN book /\ i \in OrderId /\ s \in MockStatus \cup {"TORN", "NONE"}
        BY <1>1, <2>0, <3>3 DEF IsNews, BotTypes, ThreadType
      <4>2. /\ info' = [info EXCEPT ![i].status = s]
            /\ orders' \subseteq orders
        BY <2>2, <3>3 DEF Section
      <4>3. /\ booked' \subseteq DOMAIN book /\ acc' \in AccountantType
            /\ th' \in [Thread -> ThreadType]
            /\ \A u \in Thread : u # t => th'[u] = th[u]
            /\ th'[t].todo = th[t].todo /\ th'[t].order \in {i} \cup {Returned(t).order}
            /\ th'[t].pc \in {"place", "relist"} => th'[t].order = i
            /\ th'[t].pc \in {"place", "relist"} \/ th'[t] = Returned(t)
        <5>1. CASE s = "FILLED"
          <6>1. /\ acc' = RecordTrade(acc, book[i].side, book[i].avg, book[i].exec)
                /\ booked' = booked \cup {i}
                /\ GoTo(t, IF info[i].kind = "OPEN" THEN "place" ELSE "relist")
            BY <2>2, <3>3, <5>1 DEF Section
          <6>2. book[i].side \in {"BUY", "SELL"} /\ book[i].avg \in Int /\ book[i].exec \in Nat
            BY <1>1, <4>1, BookType, OrderFields DEF MockInv
          <6>3. acc' \in AccountantType
            BY <6>1, <6>2, RecordTradeType DEF BotTypes
          <6>. QED
            BY <2>0, <4>1, <6>1, <6>3 DEF GoTo, BotTypes, ThreadType, InCall
        <5>2. CASE s # "FILLED"
          BY <2>0, <2>2, <3>3, <5>2 DEF Section, Return, BotTypes
        <5>. QED
          BY <5>1, <5>2
      <4>4. BotTypes'
        <5>1. info' \in [OrderId -> [kind : {"NONE", "OPEN", "CLOSE"}, level : Levels \cup {0},
                                     status : MockStatus \cup {"TORN", "NONE"}]]
          BY <4>1, <4>2 DEF BotTypes
        <5>. QED
          BY <1>1, <3>1, <4>2, <4>3, <5>1 DEF BotTypes, risk
      <4>5. Aimed'
        BY <1>1, <2>0, <2>2, <4>1, <4>3 DEF Aimed, Section, InCall
      <4>. QED
        BY <1>1, <4>4, <4>5
    <3>. QED
      BY <3>2, <3>3
  <2>3. CASE CheckHalt(t)
    <3>1. th[t].pc = "relist" /\ UNCHANGED <<mock, grid, risk, notify>> /\ (Return(t) \/ GoTo(t, "place"))
      BY <2>3 DEF CheckHalt
    <3>2. CASE GoTo(t, "place")
      <4>1. th' = [th EXCEPT ![t].pc = "place"]
        BY <3>2 DEF GoTo
      <4>2. th' \in [Thread -> ThreadType]
        BY <1>t, <4>1 DEF ThreadType, InCall
      <4>3. BotTypes'
        BY <1>1, <3>1, <4>2 DEF BotTypes, grid, risk
      <4>4. Aimed'
        BY <1>1, <1>t, <3>1, <4>1 DEF Aimed, InCall, mock
      <4>. QED
        BY <1>1, <4>3, <4>4
    <3>. QED
      BY <2>r, <3>1, <3>2
  <2>4. CASE PlaceNext(t)
    <3>1. /\ th[t].pc = "place" /\ UNCHANGED <<grid, risk, notify>>
          /\ \/ Return(t)
             \/ /\ NextId \in OrderId /\ book' = Append(book, GridOrder(NewKind(t), info[th[t].order].level))
                /\ th' = [th EXCEPT ![t].pc = "record", ![t].new = NextId]
      BY <2>4 DEF PlaceNext, PlaceOrder
    <3>2. CASE Return(t)
      <4>1. th' = [th EXCEPT ![t] = Returned(t)]
        BY <3>2 DEF Return
      <4>2. th' \in [Thread -> ThreadType]
        BY <1>t, <2>0, <4>1
      <4>3. BotTypes'
        BY <1>1, <3>1, <4>2 DEF BotTypes, grid, risk
      <4>4. Aimed'
        BY <1>1, <1>t, <2>0, <2>i, <4>1 DEF Aimed, InCall
      <4>. QED
        BY <1>1, <4>3, <4>4
    <3>3. CASE ~Return(t)
      <4>1. NextId \in DOMAIN book'
        <5>1. Len(book') = Len(book) + 1 /\ Len(book') \in Nat /\ DOMAIN book' = 1 .. Len(book')
              /\ Len(book) \in Nat
          <6>1. book \in Seq(MockOrder) /\ book' \in Seq(MockOrder)
            BY <1>1 DEF MockInv, MockTypeOK
          <6>. QED
            BY <3>1, <3>3, <6>1, LenProperties
        <5>. QED
          BY <5>1 DEF NextId
      <4>2. th' \in [Thread -> ThreadType]
        <5>1. PICK n \in 0 .. MaxOrders : th' = [th EXCEPT ![t].pc = "record", ![t].new = n]
          BY <1>1, <3>1, <3>3
        <5>2. [[th[t] EXCEPT !.pc = "record"] EXCEPT !.new = n] \in ThreadType
          BY <1>t DEF ThreadType, InCall
        <5>. QED
          BY <1>t, <5>1, <5>2
      <4>3. BotTypes'
        BY <1>1, <3>1, <4>2 DEF BotTypes, grid, risk
      <4>4. Aimed'
        <5>1. /\ th'[t].pc = "record" /\ th'[t].new = NextId /\ th'[t].order = th[t].order
              /\ th'[t].todo = th[t].todo /\ \A u \in Thread : u # t => th'[u] = th[u]
          BY <1>t, <3>1, <3>3 DEF ThreadType
        <5>. QED
          BY <1>1, <3>1, <4>1, <5>1 DEF Aimed, InCall
      <4>. QED
        BY <1>1, <4>3, <4>4
    <3>. QED
      BY <3>2, <3>3
  <2>5. CASE RecordNext(t)
    <3>1. /\ th[t].pc = "record" /\ orders' = orders \cup {th[t].new}
          /\ info' = [info EXCEPT ![th[t].new] = Placed(NewKind(t), info[th[t].order].level)]
          /\ Return(t)
          /\ UNCHANGED <<mock, gmuHeld, halted, acc, booked, risk, notify>>
      BY <2>5 DEF RecordNext
    <3>2. th[t].new \in DOMAIN book /\ th[t].order \in OrderId
      BY <1>1, <3>1 DEF Aimed
    <3>3. info' \in [OrderId -> [kind : {"NONE", "OPEN", "CLOSE"}, level : Levels \cup {0},
                                 status : MockStatus \cup {"TORN", "NONE"}]]
      BY <3>1, <3>2 DEF BotTypes, Placed, NewKind, MockStatus
    <3>4. BotTypes'
      BY <1>1, <2>0, <3>1, <3>2, <3>3 DEF BotTypes, Return, risk
    <3>5. Aimed'
      BY <1>1, <2>0, <3>1 DEF Aimed, Return, BotTypes, InCall
    <3>. QED
      BY <1>1, <3>4, <3>5
  <2>. QED
    BY <1>2, <2>1, <2>2, <2>3, <2>4, <2>5 DEF OnOrderUpdate
<1>3. ASSUME NEW l \in Levels, InitOrder(l)
      PROVE  BotInv'
  <2>1. /\ th[Monitor].pc = "init" /\ NextId \in OrderId
        /\ book' = Append(book, GridOrder("OPEN", l))
        /\ orders' = orders \cup {NextId}
        /\ info' = [info EXCEPT ![NextId] = Placed("OPEN", l)]
        /\ th' = [th EXCEPT ![Monitor].todo = @ \ {l}]
        /\ UNCHANGED <<gmuHeld, halted, acc, booked, risk, notify>>
    BY <1>3 DEF InitOrder, PlaceOrder, CanPlace
  <2>2. NextId \in DOMAIN book'
    <3>1. Len(book') = Len(book) + 1 /\ Len(book') \in Nat /\ DOMAIN book' = 1 .. Len(book')
          /\ Len(book) \in Nat
      <4>1. book \in Seq(MockOrder) /\ book' \in Seq(MockOrder)
        BY <1>1 DEF MockInv, MockTypeOK
      <4>. QED
        BY <2>1, <4>1, LenProperties
    <3>. QED
      BY <3>1 DEF NextId
  <2>3. info' \in [OrderId -> [kind : {"NONE", "OPEN", "CLOSE"}, level : Levels \cup {0},
                               status : MockStatus \cup {"TORN", "NONE"}]]
    BY <2>1 DEF BotTypes, Placed, MockStatus
  <2>4. th' \in [Thread -> ThreadType]
    <3>1. th' = [th EXCEPT ![Monitor].todo = @ \ {l}]
      BY <2>1
    <3>. QED
      BY <1>1, <1>t, <3>1 DEF ThreadType
  <2>5. BotTypes'
    BY <1>1, <2>1, <2>2, <2>3, <2>4 DEF BotTypes, risk
  <2>6. Aimed'
    BY <1>1, <2>1 DEF Aimed, BotTypes, InCall
  <2>. QED
    BY <1>1, <2>5, <2>6
<1>4. CASE EndInit \/ BeginHalt \/ EndHalt \/ BeginPoll \/ EndPoll
  <2>1. /\ UNCHANGED <<mock, orders, info, acc, booked, risk, notify>>
        /\ gmuHeld' \in BOOLEAN /\ halted' \in BOOLEAN
    BY <1>4 DEF EndInit, EndHalt, BeginHalt, BeginPoll, EndPoll, BotTypes, grid
  <2>2. PICK g \in ThreadType : /\ th' = [th EXCEPT ![Monitor] = g]
                                /\ g.pc \in {"risk", "halt"} \/ (g.pc = "poll" /\ g.todo \subseteq orders)
    <3>. DEFINE m == th[Monitor]
    <3>1. m \in ThreadType
      BY <1>1, <1>t
    <3>2. CASE EndInit \/ EndHalt
      <4>1. th' = [th EXCEPT ![Monitor] = [m EXCEPT !.pc = "risk"]]
        BY <3>2 DEF EndInit, EndHalt, GoTo
      <4>2. [m EXCEPT !.pc = "risk"] \in ThreadType /\ [m EXCEPT !.pc = "risk"].pc = "risk"
        BY <3>1 DEF ThreadType
      <4>. QED
        BY <4>1, <4>2
    <3>3. CASE BeginHalt
      <4>. DEFINE g == [m EXCEPT !.pc = "halt", !.todo = {i \in orders : info[i].kind = "OPEN"}]
      <4>1. th' = [th EXCEPT ![Monitor] = g]
        BY <3>3 DEF BeginHalt
      <4>2. orders \subseteq OrderId
        BY <1>1 DEF BotTypes
      <4>3. g \in ThreadType /\ g.pc = "halt"
        BY <3>1, <4>2 DEF ThreadType
      <4>. QED
        BY <4>1, <4>3
    <3>4. CASE BeginPoll
      <4>. DEFINE g == [m EXCEPT !.pc = "poll", !.todo = {i \in orders : info[i].status = "NEW"}]
      <4>1. th' = [th EXCEPT ![Monitor] = g]
        BY <3>4 DEF BeginPoll
      <4>2. orders \subseteq OrderId
        BY <1>1 DEF BotTypes
      <4>3. g \in ThreadType /\ g.pc = "poll" /\ g.todo \subseteq orders
        BY <3>1, <4>2 DEF ThreadType
      <4>. QED
        BY <4>1, <4>3
    <3>5. CASE EndPoll
      <4>1. [Idle EXCEPT !.pc = "risk"] \in ThreadType /\ [Idle EXCEPT !.pc = "risk"].pc = "risk"
        BY MockAssumption DEF Idle, ThreadType
      <4>. QED
        BY <3>5, <4>1 DEF EndPoll
    <3>. QED
      BY <1>4, <3>2, <3>3, <3>4, <3>5
  <2>3. th' \in [Thread -> ThreadType] /\ th'[Monitor] = g /\ \A t \in Thread : t # Monitor => th'[t] = th[t]
    BY <1>1, <1>t, <2>2
  <2>4. BotTypes'
    BY <1>1, <2>1, <2>3 DEF BotTypes, risk
  <2>5. orders \subseteq DOMAIN book /\ DOMAIN book' = DOMAIN book
    BY <2>1 DEF BotTypes, mock
  <2>6. Aimed'
    BY <1>1, <2>2, <2>3, <2>5 DEF Aimed, InCall
  <2>. QED
    BY <1>1, <2>4, <2>6
<1>5. ASSUME NEW i \in OrderId, HaltCancels(i)
      PROVE  BotInv'
  <2>. DEFINE left == [th EXCEPT ![Monitor].todo = @ \ {i}]
  <2>1. /\ th[Monitor].pc = "halt" /\ UNCHANGED <<grid, risk, notify>>
        /\ th' = left \/ (i \in resting /\ th' = Notify(left, {i}, "CANCELED"))
    BY <1>5 DEF HaltCancels
  <2>2. /\ left \in [Thread -> ThreadType]
        /\ left[Monitor].pc = "halt"
        /\ \A t \in Thread : t # Monitor => left[t] = th[t]
    BY <1>1, <2>1 DEF BotTypes, ThreadType
  <2>. HIDE DEF left
  <2>3. /\ th' \in [Thread -> ThreadType] /\ th'[Monitor] = left[Monitor]
        /\ \A t \in Thread : th'[t] = left[t] \/ (t # Monitor /\ th'[t].pc = "section")
    BY <2>1, <2>2, Notified
  <2>4. BotTypes'
    BY <1>1, <2>1, <2>3 DEF BotTypes, grid, risk
  <2>5. Aimed'
    BY <1>1, <2>2, <2>3 DEF Aimed, InCall
  <2>. QED
    BY <1>1, <2>4, <2>5
<1>6. CASE OpenHedge \/ CloseHedge
  <2>1. AtRisk /\ UNCHANGED <<th, grid, closing, notify>>
    BY <1>6 DEF OpenHedge, CloseHedge
  <2>2. hedges' \in [opened : 0 .. MaxHedges, closed : 0 .. MaxHedges]
    <3>1. hedges \in [opened : 0 .. MaxHedges, closed : 0 .. MaxHedges] /\ MaxHedges \in Nat
      BY SimulationAssumption DEF BotTypes
    <3>2. CASE OpenHedge
      BY <3>1, <3>2 DEF OpenHedge
    <3>3. CASE CloseHedge
      BY <3>1, <3>3 DEF CloseHedge
    <3>. QED
      BY <1>6, <3>2, <3>3
  <2>3. BotTypes'
    BY <1>1, <2>1, <2>2 DEF BotTypes, grid
  <2>4. Aimed'
    BY <1>1, <2>1 DEF Aimed
  <2>. QED
    BY <1>1, <2>3, <2>4
<1>7. CASE LiquidateAndStop
  <2>1. CASE BeginLiquidation \/ Panic
    <3>1. PICK place \in {"readMain", "idle"} :
            GoTo(Monitor, place) /\ UNCHANGED <<mock, grid, risk, notify>>
      BY <2>1 DEF BeginLiquidation, Panic
    <3>2. /\ th' = [th EXCEPT ![Monitor].pc = place]
          /\ th[Monitor] \in ThreadType /\ place \notin {"poll", "got", "relist", "place", "record"} \cup InCall
      BY <1>1, <1>t, <3>1 DEF GoTo, BotTypes, InCall
    <3>3. th' \in [Thread -> ThreadType]
      BY <1>1, <3>2 DEF BotTypes, ThreadType
    <3>4. BotTypes'
      BY <1>1, <3>1, <3>3 DEF BotTypes, mock, grid, risk
    <3>5. Aimed'
      BY <1>1, <3>1, <3>2, <3>3 DEF Aimed, BotTypes, ThreadType, mock
    <3>. QED
      BY <1>1, <3>1, <3>4, <3>5
  <2>2. ASSUME NEW pc, NEW s \in Sides, NEW place \in {"sellMain", "buyHedge"},
               NEW next \in {"readHedge", "stop"}, ReadPosition(pc, s, place, next)
        PROVE  BotInv'
    <3>1. pos[s] \in Int
      BY DEF MockInv, MockTypeOK
    <3>2. /\ th' = [th EXCEPT ![Monitor].amt = pos[s],
                              ![Monitor].pc = IF pos[s] = 0 THEN next ELSE place]
          /\ UNCHANGED <<mock, grid, risk, notify>>
      BY <2>2 DEF ReadPosition
    <3>3. th' \in [Thread -> ThreadType]
      <4>1. PICK k \in Int, label \in {"sellMain", "buyHedge", "readHedge", "stop"} :
              th' = [th EXCEPT ![Monitor].amt = k, ![Monitor].pc = label]
        BY <3>1, <3>2
      <4>2. th[Monitor] \in ThreadType
        BY <1>1, <1>t
      <4>3. [th[Monitor] EXCEPT !.amt = k, !.pc = label] \in ThreadType
        BY <4>2 DEF ThreadType
      <4>. QED
        BY <1>1, <1>t, <4>1, <4>3
    <3>4. Aimed'
      BY <1>1, <3>2 DEF Aimed, BotTypes, InCall, mock
    <3>. QED
      BY <1>1, <3>2, <3>3, <3>4 DEF BotTypes, mock, grid, risk
  <2>3. ASSUME NEW pc, NEW s, NEW next \in {"readHedge", "stop"}, ClosePosition(pc, s, next)
        PROVE  BotInv'
    <3>1. /\ th' = [th EXCEPT ![Monitor].pc = next] /\ closing' \in {"no", "orders", "zeroed"}
          /\ UNCHANGED <<grid, hedges, notify>>
      BY <2>3 DEF ClosePosition, GoTo, BotTypes
    <3>2. th' \in [Thread -> ThreadType]
      BY <1>1, <3>1 DEF BotTypes, ThreadType
    <3>3. Aimed'
      BY <1>1, <3>1 DEF Aimed, BotTypes, InCall
    <3>. QED
      BY <1>1, <3>1, <3>2, <3>3 DEF BotTypes, grid
  <2>. QED
    BY <1>7, <2>1, <2>2, <2>3 DEF LiquidateAndStop, Sides, MainSide, HedgeSide
<1>8. ASSUME NEW i \in OrderId, PollGet(i)
      PROVE  BotInv'
  <2>1. /\ th[Monitor].pc = "poll" /\ i \in th[Monitor].todo
        /\ th' = [th EXCEPT ![Monitor].pc = "got", ![Monitor].order = i, ![Monitor].todo = @ \ {i}]
        /\ UNCHANGED <<mock, grid, risk, notify>>
    BY <1>8 DEF PollGet
  <2>2. th' \in [Thread -> ThreadType]
    BY <1>1, <2>1 DEF BotTypes, ThreadType
  <2>3. Aimed'
    BY <1>1, <2>1 DEF Aimed, BotTypes, InCall, mock
  <2>. QED
    BY <1>1, <2>1, <2>2, <2>3 DEF BotTypes, mock, grid, risk
<1>9. CASE PollRead
  <2>. DEFINE i == th[Monitor].order
  <2>1. /\ th[Monitor].pc = "got" /\ UNCHANGED <<mock, grid, risk, notify>>
        /\ \E s \in StatusRead(i) :
             th' = [th EXCEPT ![Monitor] =
                      IF info[i].status = s THEN Returned(Monitor) ELSE Entered(@, i, s)]
    BY <1>9 DEF PollRead
  <2>2. i \in DOMAIN book /\ StatusRead(i) \subseteq MockStatus \cup {"TORN", "NONE"}
    BY <1>1, <2>1, BookType DEF Aimed, StatusRead, MockOrder, MockStatus, MockInv
  <2>3. PICK s \in MockStatus \cup {"TORN", "NONE"} :
          th' = [th EXCEPT ![Monitor] =
                   IF info[i].status = s THEN Returned(Monitor) ELSE Entered(@, i, s)]
    BY <2>1, <2>2
  <2>4. /\ Returned(Monitor) \in ThreadType /\ Returned(Monitor).todo = th[Monitor].todo
        /\ Returned(Monitor).pc = "poll"
    BY <1>1, ReturnedType DEF BotTypes
  <2>5. /\ Entered(th[Monitor], i, s) \in ThreadType
        /\ Entered(th[Monitor], i, s).todo = th[Monitor].todo
        /\ Entered(th[Monitor], i, s).pc \in {"fetch", "section"}
    <3>1. th[Monitor] \in ThreadType /\ i \in 0 .. MaxOrders
      BY <1>1, <1>t, <2>2
    <3>. HIDE DEF i
    <3>2. Entered(th[Monitor], i, s) \in ThreadType
      BY <3>1 DEF Entered, ThreadType, InCall
    <3>3. Entered(th[Monitor], i, s).pc \in {"fetch", "section"}
      BY <3>1 DEF Entered, ThreadType
    <3>4. Entered(th[Monitor], i, s).todo = th[Monitor].todo
      BY <3>1 DEF Entered, ThreadType
    <3>. QED
      BY <3>2, <3>3, <3>4
  <2>6. /\ th' \in [Thread -> ThreadType] /\ th'[Monitor].todo = th[Monitor].todo
        /\ th'[Monitor].pc \in {"poll", "fetch", "section"}
        /\ \A t \in Thread : t # Monitor => th'[t] = th[t]
    BY <1>1, <2>3, <2>4, <2>5 DEF BotTypes
  <2>7. Aimed'
    BY <1>1, <2>1, <2>6 DEF Aimed, InCall
  <2>. QED
    BY <1>1, <2>1, <2>6, <2>7 DEF BotTypes, mock, grid, risk
<1>10. CASE Simulator
  <2>1. /\ th' = Notify(th, FilledByTick, "FILLED") /\ UNCHANGED <<grid, risk, notify>>
    BY <1>10 DEF Simulator
  <2>2. FilledByTick \subseteq OrderId
    BY <1>1, BookType DEF FilledByTick, MockInv, Ticking, MockTypeOK
  <2>3. /\ th' \in [Thread -> ThreadType] /\ th'[Monitor] = th[Monitor]
        /\ \A t \in Thread : th'[t] = th[t] \/ (t # Monitor /\ th'[t].pc = "fetch")
    BY <2>1, <2>2, Notified DEF BotTypes
  <2>4. BotTypes'
    BY <1>1, <2>1, <2>3 DEF BotTypes, grid, risk
  <2>5. Aimed'
    BY <1>1, <2>3 DEF Aimed
  <2>. QED
    BY <1>1, <2>4, <2>5
<1>11. CASE MonitorStep
  BY <1>3, <1>4, <1>5, <1>6, <1>7, <1>8, <1>9, <1>11 DEF MonitorStep
<1>. QED
  BY <1>2, <1>10, <1>11 DEF Next

-----------------------------------------------------------------------------
(* The positions are the sum of the orders.                                *)

(* As long as nothing was liquidated, no order names its side in small     *)
(* letters.                                                                *)
NoLong == closing = "no" => \A i \in DOMAIN book : book[i].posSide # "long"

Balanced == closing = "no" => \A s \in Sides : pos[s] = SumOf(Moved(s), Settled)

(* What the bot may do to the exchange before it liquidates.               *)
LEMMA Unliquidated ==
  ASSUME BotInv, Next, closing' = "no"
  PROVE  /\ closing = "no"
         /\ \/ UNCHANGED mock
            \/ \E o \in NewOrder : o.posSide # "long" /\ PlaceOrder(o)
            \/ \E i \in OrderId : CancelOrder(i)
            \/ BeginTick
            \/ WriteOrder
<1>. DEFINE Goal == /\ closing = "no"
                    /\ \/ UNCHANGED mock
                       \/ \E o \in NewOrder : o.posSide # "long" /\ PlaceOrder(o)
                       \/ \E i \in OrderId : CancelOrder(i)
                       \/ BeginTick
                       \/ WriteOrder
<1>1. \A k, l : GridOrder(k, l).posSide # "long"
  BY DEF GridOrder, Limit, MainSide
<1>2. ASSUME NEW t \in Thread, OnOrderUpdate(t) PROVE Goal
  <2>1. closing = "no"
    BY <1>2 DEF OnOrderUpdate, FetchFill, Section, CheckHalt, PlaceNext, RecordNext, risk
  <2>2. CASE PlaceNext(t)
    <3>1. CASE NextId \notin OrderId
      BY <2>1, <2>2, <3>1 DEF PlaceNext
    <3>2. CASE NextId \in OrderId
      <4>1. PlaceOrder(GridOrder(NewKind(t), info[th[t].order].level)) /\ th[t].order \in OrderId
        BY <2>2, <3>2, BookType DEF PlaceNext, Aimed, BotInv, MockInv
      <4>2. NewKind(t) \in {"NONE", "OPEN", "CLOSE"} /\ info[th[t].order].level \in Levels \cup {0}
        BY <4>1 DEF BotInv, BotTypes, NewKind
      <4>. QED
        BY <1>1, <2>1, <4>1, <4>2, OrderTypes
    <3>. QED
      BY <3>1, <3>2
  <2>3. CASE FetchFill(t) \/ Section(t) \/ CheckHalt(t) \/ RecordNext(t)
    BY <2>1, <2>3 DEF FetchFill, Section, CheckHalt, RecordNext
  <2>. QED
    BY <1>2, <2>2, <2>3 DEF OnOrderUpdate
<1>3. ASSUME NEW l \in Levels, InitOrder(l) PROVE Goal
  BY <1>1, <1>3, OrderTypes DEF InitOrder, risk
<1>4. CASE OpenHedge \/ CloseHedge
  <2>1. PICK side \in {"BUY", "SELL"}, r \in BOOLEAN : PlaceOrder(Market(side, HedgeSide, 1, r))
    BY <1>4 DEF OpenHedge, CloseHedge
  <2>2. Market(side, HedgeSide, 1, r) \in NewOrder
    BY OrderTypes DEF HedgeSide, Sides
  <2>3. Market(side, HedgeSide, 1, r).posSide # "long"
    BY DEF Market, HedgeSide
  <2>4. closing = "no"
    BY <1>4 DEF OpenHedge, CloseHedge
  <2>. QED
    BY <2>1, <2>2, <2>3, <2>4
<1>5. ASSUME NEW pc, NEW s, NEW next, ClosePosition(pc, s, next) PROVE Goal
  BY <1>5 DEF ClosePosition
<1>6. ASSUME NEW i \in OrderId, HaltCancels(i) PROVE Goal
  BY <1>6 DEF HaltCancels, risk
<1>7. CASE LiquidateAndStop
  <2>1. BeginLiquidation \/ Panic => Goal
    BY DEF BeginLiquidation, Panic, risk
  <2>2. \A pc, s, place, next : ReadPosition(pc, s, place, next) => Goal
    BY DEF ReadPosition, risk
  <2>. QED
    BY <1>5, <1>7, <2>1, <2>2 DEF LiquidateAndStop
<1>8. CASE EndInit \/ BeginHalt \/ EndHalt \/ BeginPoll \/ EndPoll
  BY <1>8 DEF EndInit, BeginHalt, EndHalt, BeginPoll, EndPoll, risk
<1>9. CASE PollRead \/ \E i \in OrderId : PollGet(i)
  BY <1>9 DEF PollRead, PollGet, risk
<1>10. CASE Simulator
  BY <1>10 DEF Simulator, risk
<1>11. CASE MonitorStep
  BY <1>3, <1>4, <1>6, <1>7, <1>8, <1>9, <1>11 DEF MonitorStep
<1>. QED
  BY <1>2, <1>10, <1>11 DEF Next

(* Between two ticks nothing is filled and not settled.                    *)
LEMMA NothingDone == ToSet(Waiting.done) = {}
BY DEF Waiting, ToSet

(* The sum over orders that stay what they are stays what it is.           *)
LEMMA MovedKept ==
  ASSUME MockTypeOK, NEW s \in Sides, NEW T \in SUBSET DOMAIN book,
         DOMAIN book \subseteq DOMAIN book',
         \A i \in T : /\ book'[i].posSide = book[i].posSide
                      /\ book'[i].side = book[i].side /\ book'[i].qty = book[i].qty
  PROVE  SumOf(Moved(s)', T) = SumOf(Moved(s), T)
<1>1. Summable(Moved(s), T)
  BY MovedType
<1>2. \A i \in T : Moved(s)[i] = Moved(s)'[i]
  BY DEF Moved
<1>3. PICK g, h : g = Moved(s) /\ h = Moved(s)'
  OBVIOUS
<1>4. SumOf(g, T) = SumOf(h, T)
  BY <1>1, <1>2, <1>3, SumSame
<1>. QED
  BY <1>3, <1>4

(* Nothing but the end of a tick moves a position, and it moves it by what *)
(* it settles.                                                             *)
LEMMA BalancedKept ==
  ASSUME BotInv, NoLong, Balanced, [Next]_vars
  PROVE  NoLong' /\ Balanced'
<1>. USE DEF BotInv, MockInv
<1>0. CASE UNCHANGED vars
  BY <1>0 DEF vars, mock, risk, NoLong, Balanced, Settled, Moved
<1>. SUFFICES ASSUME Next, closing' = "no"
              PROVE  /\ \A i \in DOMAIN book' : book'[i].posSide # "long"
                     /\ \A s \in Sides : pos'[s] = SumOf(Moved(s)', Settled')
  BY <1>0 DEF NoLong, Balanced
<1>1. /\ closing = "no" /\ \A i \in DOMAIN book : book[i].posSide # "long"
      /\ \A s \in Sides : pos[s] = SumOf(Moved(s), Settled)
  BY Unliquidated DEF NoLong, Balanced
<1>2. Settled \subseteq DOMAIN book /\ DOMAIN book \subseteq DOMAIN book'
  BY Grows DEF Settled
<1>s. ASSUME pos' = pos, Settled' = Settled,
             \A i \in Settled : /\ book'[i].posSide = book[i].posSide
                                /\ book'[i].side = book[i].side /\ book'[i].qty = book[i].qty
      PROVE  \A s \in Sides : pos'[s] = SumOf(Moved(s)', Settled')
  BY <1>1, <1>2, <1>s, MovedKept
<1>3. CASE UNCHANGED mock
  BY <1>1, <1>3 DEF mock, Moved, Settled
<1>4. ASSUME NEW o \in NewOrder, o.posSide # "long", PlaceOrder(o)
      PROVE  /\ \A i \in DOMAIN book' : book'[i].posSide # "long"
             /\ \A s \in Sides : pos'[s] = SumOf(Moved(s)', Settled')
  <2>1. /\ sim = Waiting /\ NextId \notin DOMAIN book /\ DOMAIN book' = DOMAIN book \cup {NextId}
        /\ book'[NextId] = o /\ \A i \in DOMAIN book : book'[i] = book[i]
    BY <1>4, PlaceOrderMock
  <2>2. sim' = sim /\ pos' = pos /\ o.status = "NEW"
    BY <1>4 DEF PlaceOrder, NewOrder
  <2>3. Settled' = Settled
    BY <2>1, <2>2 DEF Settled
  <2>. QED
    BY <1>1, <1>2, <1>4, <1>s, <2>1, <2>2, <2>3
<1>5. ASSUME NEW i \in OrderId, CancelOrder(i)
      PROVE  /\ \A j \in DOMAIN book' : book'[j].posSide # "long"
             /\ \A s \in Sides : pos'[s] = SumOf(Moved(s)', Settled')
  <2>1. /\ sim = Waiting /\ i \in resting /\ i \in DOMAIN book
        /\ DOMAIN book' = DOMAIN book /\ book'[i] = [book[i] EXCEPT !.status = "CANCELED"]
        /\ \A j \in DOMAIN book : j # i => book'[j] = book[j]
    BY <1>5, CancelOrderMock DEF MockTypeOK
  <2>2. /\ sim' = sim /\ pos' = pos /\ ToSet(sim.done) = {}
    BY <1>5, <2>1 DEF CancelOrder, ToSet, Waiting
  <2>3. book[i].status = "NEW" /\ book[i] \in MockOrder
    BY <2>1, <2>2, BookType DEF Statuses
  <2>4. book'[i].status = "CANCELED" /\ book'[i].posSide = book[i].posSide
        /\ book'[i].side = book[i].side /\ book'[i].qty = book[i].qty
    BY <2>1, <2>3 DEF MockOrder
  <2>5. Settled' = Settled
    BY <2>1, <2>2, <2>3, <2>4 DEF Settled
  <2>6. \A j \in DOMAIN book : /\ book'[j].posSide = book[j].posSide
                               /\ book'[j].side = book[j].side /\ book'[j].qty = book[j].qty
    BY <2>1, <2>4
  <2>. QED
    BY <1>1, <1>2, <1>s, <2>1, <2>2, <2>5, <2>6
<1>6. CASE BeginTick
  <2>1. book' = book /\ pos' = pos /\ ToSet(sim'.done) = {} /\ ToSet(sim.done) = {}
    BY <1>6, BeginTickMock, NothingDone DEF BeginTick
  <2>2. Settled' = Settled
    BY <2>1 DEF Settled
  <2>. QED
    BY <1>1, <1>s, <2>1, <2>2
<1>7. CASE WriteOrder
  <2>. DEFINE c == sim.cur
              now == ToSet(sim.done) \cup {c}
  <2>1. /\ c \in resting /\ c \in DOMAIN book /\ DOMAIN book' = DOMAIN book
        /\ book'[c] = Filled(book[c], price)
        /\ \A i \in DOMAIN book : i # c => book'[i] = book[i]
        /\ ~LockFree /\ c \notin ToSet(sim.done) /\ ToSet(sim.done) \subseteq DOMAIN book
    BY <1>7, WriteOrderMock, BookType DEF Ticking
  <2>2. book[c].status = "NEW" /\ book[c] \in MockOrder
    BY <2>1, BookType DEF Statuses
  <2>3. \A i \in DOMAIN book : /\ book'[i].posSide = book[i].posSide
                               /\ book'[i].side = book[i].side /\ book'[i].qty = book[i].qty
    <3>1. LET o == Filled(book[c], price) IN
          o.posSide = book[c].posSide /\ o.side = book[c].side /\ o.qty = book[c].qty
      BY <2>2 DEF Filled, MockOrder
    <3>. QED
      BY <2>1, <3>1
  <2>4. book'[c].status = "FILLED" /\ \A i \in DOMAIN book : i # c => book'[i].status = book[i].status
    <3>1. Filled(book[c], price).status = "FILLED"
      BY <2>2 DEF Filled, MockOrder
    <3>. QED
      BY <2>1, <3>1
  <2>5. CASE sim.todo # {}
    <3>1. ToSet(sim'.done) = now /\ pos' = pos
      BY <1>7, <2>5, WriteOrderMock
    <3>2. Settled' = Settled
      BY <2>1, <2>2, <2>4, <3>1 DEF Settled
    <3>. QED
      BY <1>1, <1>2, <1>s, <2>1, <2>3, <3>1, <3>2
  <2>6. CASE sim.todo = {}
    <3>1. /\ sim' = Waiting
          /\ pos' = FoldLeft(LAMBDA positions, i : Settle(positions, book[i]), pos,
                             Append(sim.done, c))
      BY <1>7, <2>6, WriteOrderMock
    <3>2. ToSet(sim'.done) = {}
      BY <3>1, NothingDone
    <3>3. ToSet(Append(sim.done, c)) = now
      BY <2>1, BookType, Appended
    <3>4. \A i \in now : book[i].posSide # "long" /\ i \in DOMAIN book /\ book'[i].status = "FILLED"
      BY <1>1, <2>1, <2>4 DEF Statuses
    <3>5. Settled' = Settled \cup now /\ Settled \cap now = {}
      BY <2>1, <2>2, <2>4, <3>2, <3>4 DEF Settled
    <3>6. ASSUME NEW s \in Sides PROVE pos'[s] = SumOf(Moved(s)', Settled')
      <4>1. pos'[s] = pos[s] + SumOf(Moved(s), now)
        <5>. DEFINE ticked == Append(sim.done, c)
        <5>2. ~LockFree /\ \A i \in ToSet(ticked) : book[i].posSide # "long"
          BY <2>1, <3>3, <3>4
        <5>3. FoldLeft(LAMBDA positions, i : Settle(positions, book[i]), pos, ticked)[s]
                = pos[s] + SumOf(Moved(s), ToSet(ticked))
          BY <1>1, <5>2, TickSettles
        <5>. QED
          BY <3>1, <3>3, <5>3
      <4>2. Settled' \in SUBSET DOMAIN book /\ Settled \in SUBSET Settled' /\ Settled' \ Settled = now
        BY <1>2, <3>4, <3>5
      <4>3. Summable(Moved(s), Settled')
        BY <4>2, MovedType
      <4>4. SumOf(Moved(s), Settled') = SumOf(Moved(s), Settled) + SumOf(Moved(s), now)
        BY <4>2, <4>3, SumSplit
      <4>5. SumOf(Moved(s)', Settled') = SumOf(Moved(s), Settled')
        BY <1>2, <2>3, <4>2, MovedKept
      <4>. QED
        BY <1>1, <4>1, <4>4, <4>5
    <3>. QED
      BY <1>1, <2>1, <2>3, <3>6
  <2>. QED
    BY <2>5, <2>6
<1>. QED
  BY <1>3, <1>4, <1>5, <1>6, <1>7, Unliquidated

(* The sum of the specification, as one of those of SumLemmas.             *)
LEMMA FillsAreSum ==
  ASSUME MockTypeOK, NEW s \in Sides, NEW T \in SUBSET {i \in DOMAIN book : book[i].posSide = s}
  PROVE  MapThenSumSet(LAMBDA i : Signed(book[i].side, book[i].qty), T) = SumOf(Moved(s), T)
<1>. DEFINE g == [i \in DOMAIN book |-> Signed(book[i].side, book[i].qty)]
            sum == CHOOSE f : f = [S \in SUBSET T |->
                     IF S = {} THEN 0
                     ELSE LET x == CHOOSE x \in S : TRUE
                          IN  Signed(book[x].side, book[x].qty) + f[S \ {x}]]
<1>1. Summable(Moved(s), T) /\ \A x \in T : Moved(s)[x] = g[x]
  BY MovedType DEF Moved
<1>2. Summable(g, T)
  BY <1>1 DEF Summable
<1>3. PICK f : Sums(f, g, T)
  <2>. HIDE DEF g
  <2>. QED
    BY <1>2, SumsExist
<1>4. \A S \in SUBSET T : S # {} => Pick(S) \in S
  BY Picked
<1>5. f = [S \in SUBSET T |->
             IF S = {} THEN 0
             ELSE LET x == CHOOSE x \in S : TRUE
                  IN  Signed(book[x].side, book[x].qty) + f[S \ {x}]]
  BY <1>3, <1>4 DEF Sums, Pick
<1>6. sum = [S \in SUBSET T |->
               IF S = {} THEN 0
               ELSE LET x == CHOOSE x \in S : TRUE
                    IN  Signed(book[x].side, book[x].qty) + sum[S \ {x}]]
  <2>. DEFINE P(h) == h = [S \in SUBSET T |->
                       IF S = {} THEN 0
                       ELSE LET x == CHOOSE x \in S : TRUE
                            IN  Signed(book[x].side, book[x].qty) + h[S \ {x}]]
  <2>1. P(f) /\ sum = CHOOSE h : P(h)
    BY <1>5
  <2>. HIDE DEF P, sum
  <2>2. P(sum)
    BY <2>1
  <2>. QED
    BY <2>2 DEF P
<1>7. MapThenSumSet(LAMBDA i : Signed(book[i].side, book[i].qty), T) = sum[T]
  BY DEF MapThenSumSet, MapThenFoldSet
<1>. HIDE DEF sum
<1>8. Sums(sum, g, T)
  BY <1>4, <1>6 DEF Sums, Pick
<1>. HIDE DEF g
<1>9. sum[T] = SumOf(g, T) /\ SumOf(g, T) = SumOf(Moved(s), T)
  BY <1>1, <1>2, <1>8, SumIs, SumSame
<1>. QED
  BY <1>7, <1>9

(* What Balanced says of the orders of a side.                             *)
LEMMA BalanceOfSide ==
  ASSUME MockTypeOK, Balanced, closing = "no", NEW s \in Sides
  PROVE  pos[s] = SumOf(Moved(s), {i \in Settled : book[i].posSide = s})
<1>. DEFINE T == {i \in Settled : book[i].posSide = s}
<1>1. Settled \in SUBSET DOMAIN book /\ T \in SUBSET Settled
  BY DEF Settled
<1>2. Summable(Moved(s), Settled)
  BY <1>1, MovedType
<1>3. \A i \in Settled \ T : Moved(s)[i] = 0
  BY <1>1 DEF Moved
<1>. HIDE DEF T
<1>4. SumOf(Moved(s), Settled) = SumOf(Moved(s), T)
  BY <1>1, <1>2, <1>3, SumSkips
<1>. QED
  BY <1>4 DEF Balanced, T

(* The initial states.                                                     *)
LEMMA BotStarts ==
  ASSUME Init
  PROVE  BotInv /\ NoLong /\ Balanced
<1>1. MockInv /\ DOMAIN book = {} /\ sim = Waiting /\ \A s \in Sides : pos[s] = 0
  BY MockStarts DEF Init
<1>2. /\ gmuHeld = TRUE /\ orders = {} /\ info = [i \in OrderId |-> Untracked]
      /\ halted = FALSE /\ acc = NewAccountant /\ booked = {}
      /\ hedges = [opened |-> 0, closed |-> 0] /\ closing = "no" /\ notify \in BOOLEAN
  BY DEF Init
<1>3. /\ th \in [Thread -> ThreadType]
      /\ \A t \in Thread : th[t].pc = IF t = Monitor THEN "init" ELSE "idle"
  <2>1. Idle \in ThreadType /\ Idle.pc = "idle"
    BY MockAssumption DEF Idle, ThreadType
  <2>2. LET g == [Idle EXCEPT !.pc = "init", !.todo = Levels] IN g \in ThreadType /\ g.pc = "init"
    BY <2>1 DEF ThreadType, Idle
  <2>. QED
    BY <2>1, <2>2 DEF Init
<1>4. acc \in AccountantType
  BY <1>2 DEF NewAccountant, AccountantType, Zero, Whole, Fraction
<1>5. hedges \in [opened : 0 .. MaxHedges, closed : 0 .. MaxHedges]
  BY <1>2, SimulationAssumption
<1>6. BotTypes
  BY <1>1, <1>2, <1>3, <1>4, <1>5 DEF BotTypes, Untracked
<1>7. Aimed
  BY <1>3 DEF Aimed, InCall, Monitor, Thread
<1>8. NoLong
  BY <1>1 DEF NoLong
<1>9. Balanced
  <2>1. Settled = {}
    BY <1>1 DEF Settled
  <2>. QED
    BY <1>1, <2>1, SumEmpty DEF Balanced
<1>. QED
  BY <1>1, <1>6, <1>7, <1>8, <1>9 DEF BotInv

(* "An order moves the position once": however many orders, ticks and      *)
(* callbacks there are, updatePosition_noLock has moved each position by   *)
(* exactly the orders the simulator is done with, as long as nothing was   *)
(* liquidated.                                                             *)
THEOREM PositionAlwaysMatchesFills == Spec => []PositionMatchesFills
<1>. DEFINE I == BotInv /\ NoLong /\ Balanced
<1>1. Init => I
  BY BotStarts
<1>2. I /\ [Next]_vars => I'
  BY BotInvKept, BalancedKept
<1>3. I => PositionMatchesFills
  <2>. SUFFICES ASSUME I, closing = "no", NEW s \in Sides
                PROVE  pos[s] = MapThenSumSet(LAMBDA i : Signed(book[i].side, book[i].qty),
                                              {i \in Settled : book[i].posSide = s})
    BY DEF PositionMatchesFills
  <2>1. MockTypeOK
    BY DEF BotInv, MockInv
  <2>2. pos[s] = SumOf(Moved(s), {i \in Settled : book[i].posSide = s})
    BY <2>1, BalanceOfSide
  <2>3. {i \in Settled : book[i].posSide = s} \in SUBSET {i \in DOMAIN book : book[i].posSide = s}
    BY DEF Settled
  <2>. QED
    BY <2>1, <2>2, <2>3, FillsAreSum
<1>. QED
  BY <1>1, <1>2, <1>3, PTL DEF Spec

-----------------------------------------------------------------------------
(* The grid is never short.                                                *)

Kinds == \A i \in DOMAIN book : OfTheGrid(book[i]) \/ NotOfTheGrid(book[i])

(* An order stays what it is, and a fill stays a fill.                     *)
LEMMA BookKept ==
  ASSUME MockInv, MockStep
  PROVE  \A i \in DOMAIN book :
           /\ i \in DOMAIN book'
           /\ book'[i].type = book[i].type /\ book'[i].side = book[i].side
           /\ book'[i].posSide = book[i].posSide /\ book'[i].qty = book[i].qty
           /\ book'[i].reduce = book[i].reduce
           /\ book[i].status = "FILLED" => book'[i] = book[i]
           /\ i \in Settled => i \in Settled'
           /\ i = sim.cur => i = sim'.cur \/ book'[i].status = "FILLED"
<1>. USE DEF MockInv
<1>1. CASE UNCHANGED mock
  BY <1>1 DEF mock, Settled
<1>2. ASSUME NEW o \in NewOrder, PlaceOrder(o), NEW i \in DOMAIN book
      PROVE  /\ i \in DOMAIN book' /\ book'[i] = book[i] /\ sim' = sim
             /\ i \in Settled => i \in Settled'
  BY <1>2, PlaceOrderMock DEF PlaceOrder, Settled
<1>3. ASSUME NEW j \in OrderId, CancelOrder(j), NEW i \in DOMAIN book
      PROVE  /\ i \in DOMAIN book' /\ sim' = sim
             /\ book'[i].type = book[i].type /\ book'[i].side = book[i].side
             /\ book'[i].posSide = book[i].posSide /\ book'[i].qty = book[i].qty
             /\ book'[i].reduce = book[i].reduce
             /\ book[i].status = "FILLED" => book'[i] = book[i]
             /\ i \in Settled => i \in Settled'
  <2>1. /\ sim = Waiting /\ j \in resting /\ j \in DOMAIN book /\ sim' = sim
        /\ DOMAIN book' = DOMAIN book /\ book'[j] = [book[j] EXCEPT !.status = "CANCELED"]
        /\ \A k \in DOMAIN book : k # j => book'[k] = book[k]
    BY <1>3, CancelOrderMock DEF MockTypeOK, CancelOrder
  <2>2. book[j].status = "NEW" /\ book[j] \in MockOrder
    BY <2>1, BookType, NothingDone DEF Statuses
  <2>3. LET o == book'[j] IN
        /\ o.type = book[j].type /\ o.side = book[j].side /\ o.posSide = book[j].posSide
        /\ o.qty = book[j].qty /\ o.reduce = book[j].reduce
    BY <2>1, <2>2 DEF MockOrder
  <2>. QED
    BY <2>1, <2>2, <2>3 DEF Settled
<1>4. \A o \in MockOrder : LET f == Filled(o, price) IN
        /\ f.type = o.type /\ f.side = o.side /\ f.posSide = o.posSide
        /\ f.qty = o.qty /\ f.reduce = o.reduce /\ f.status = "FILLED"
  BY DEF Filled, MockOrder
<1>5. ASSUME Liquidate, NEW i \in DOMAIN book
      PROVE  /\ i \in DOMAIN book' /\ sim' = sim
             /\ book'[i].type = book[i].type /\ book'[i].side = book[i].side
             /\ book'[i].posSide = book[i].posSide /\ book'[i].qty = book[i].qty
             /\ book'[i].reduce = book[i].reduce
             /\ book[i].status = "FILLED" => book'[i] = book[i]
             /\ i \in Settled => i \in Settled'
  <2>1. /\ sim = Waiting /\ sim' = sim /\ DOMAIN book' = DOMAIN book
        /\ book'[i] = IF i \in ForceSettled THEN Filled(book[i], price) ELSE book[i]
        /\ book[i] \in MockOrder
    BY <1>5, LiquidateMock, BookType DEF Liquidate
  <2>2. i \in ForceSettled => book[i].status = "NEW"
    BY <2>1, NothingDone DEF ForceSettled, Statuses
  <2>. QED
    BY <1>4, <2>1, <2>2 DEF Settled
<1>6. CASE BeginTick
  <2>1. book' = book /\ LockFree /\ ToSet(sim'.done) = {} /\ ToSet(sim.done) = {}
    BY <1>6, BeginTickMock, NothingDone DEF BeginTick
  <2>2. 0 \notin DOMAIN book
    BY BookType
  <2>. QED
    BY <2>1, <2>2 DEF Settled, LockFree
<1>7. CASE WriteOrder
  <2>. DEFINE c == sim.cur
  <2>1. /\ c \in resting /\ c \in DOMAIN book /\ DOMAIN book' = DOMAIN book
        /\ book'[c] = Filled(book[c], price)
        /\ \A i \in DOMAIN book : i # c => book'[i] = book[i]
        /\ c \notin ToSet(sim.done)
        /\ ToSet(sim'.done) \subseteq ToSet(sim.done) \cup {c}
    BY <1>7, WriteOrderMock, NothingDone DEF Ticking
  <2>2. book[c].status = "NEW" /\ book[c] \in MockOrder
    BY <2>1, BookType DEF Statuses
  <2>3. LET f == book'[c] IN
        /\ f.type = book[c].type /\ f.side = book[c].side /\ f.posSide = book[c].posSide
        /\ f.qty = book[c].qty /\ f.reduce = book[c].reduce /\ f.status = "FILLED"
    BY <1>4, <2>1, <2>2
  <2>. QED
    BY <2>1, <2>2, <2>3 DEF Settled
<1>. QED
  BY <1>1, <1>2, <1>3, <1>5, <1>6, <1>7 DEF MockStep

(* What is on the grid's side stays a unit of the grid.                    *)
LEMMA KindsKept ==
  ASSUME MockInv, Kinds, MockStep
  PROVE  Kinds'
<1>1. \A i \in DOMAIN book : OfTheGrid(book'[i]) \/ NotOfTheGrid(book'[i])
  BY BookKept DEF Kinds, OfTheGrid, NotOfTheGrid
<1>2. ASSUME NEW o \in NewOrder, PlaceOrder(o) PROVE Kinds'
  BY <1>1, <1>2, PlaceOrderMock DEF Kinds, NewOrder
<1>3. (UNCHANGED mock \/ Liquidate \/ BeginTick \/ WriteOrder \/ \E i \in OrderId : CancelOrder(i))
        => DOMAIN book' = DOMAIN book
  BY LiquidateMock, WriteOrderMock, CancelOrderMock DEF mock, BeginTick
<1>. QED
  BY <1>1, <1>2, <1>3 DEF MockStep, Kinds

SideOfKind(k) == IF k = "OPEN" THEN "BUY" ELSE "SELL"

(* The strategy knows the orders it keeps, and books none twice, and only  *)
(* when the exchange has settled it.                                       *)
Known ==
  /\ \A i \in OrderId : info[i].kind # "NONE" =>
       i \in DOMAIN book /\ book[i].type = "LIMIT" /\ book[i].side = SideOfKind(info[i].kind)
  /\ \A i \in orders : info[i].kind # "NONE" /\ i \notin booked
  /\ \A i \in booked : info[i].kind # "NONE" /\ i \in Settled

(* What a goroutine in OnOrderUpdate carries is still true.                *)
Waits(t) ==
  /\ th[t].status = "FILLED" /\ th[t].order \in DOMAIN book
  /\ th[t].order = sim.cur \/ book[th[t].order].status = "FILLED"
Records(t) ==
  LET n == th[t].new IN
  /\ info[n].kind = "NONE" /\ book[n].type = "LIMIT" /\ book[n].side = SideOfKind(NewKind(t))
  /\ \A u \in Thread : th[u].pc = "record" /\ th[u].new = n => u = t
Calls ==
  \A t \in Thread :
    /\ t # Monitor => th[t].pc \in InCall \cup {"idle"}
    /\ th[t].pc = "fetch" => Waits(t)
    /\ th[t].pc = "section" /\ th[t].status = "FILLED" => th[t].order \in Settled
    /\ th[t].pc \in {"relist", "place", "record"} => th[t].order \in booked
    /\ th[t].pc = "relist" => info[th[t].order].kind = "CLOSE"
    /\ th[t].pc = "record" => Records(t)

GridInv == BotInv /\ Kinds /\ Known /\ Calls

(* A step that leaves the strategy's records alone: it places no order of  *)
(* the grid, and the goroutines it moves are not in the middle of placing  *)
(* one.                                                                    *)
Quiet ==
  /\ UNCHANGED <<orders, info, acc, booked>>
  /\ \A i \in DOMAIN book' \ DOMAIN book : book'[i].type = "MARKET"
  /\ \A t \in Thread :
       \/ th'[t] = th[t]
       \/ /\ th'[t].pc \notin {"init", "relist", "place", "record"}
          /\ t # Monitor => th'[t].pc \in InCall
          /\ th'[t].pc = "fetch" => Waits(t)'
          /\ th'[t].pc = "section" => th'[t].status # "FILLED"

(* The steps of the exchange that place no order.                          *)
LEMMA NothingPlaced ==
  ASSUME MockInv, \/ UNCHANGED mock \/ Liquidate \/ BeginTick \/ WriteOrder
                  \/ \E i \in OrderId : CancelOrder(i)
  PROVE  DOMAIN book' = DOMAIN book
BY LiquidateMock, WriteOrderMock, CancelOrderMock DEF mock, BeginTick

(* A market order is none of the grid.                                     *)
LEMMA MarketPlaced ==
  ASSUME MockInv, NEW o \in NewOrder, PlaceOrder(o), o.type = "MARKET"
  PROVE  \A i \in DOMAIN book' \ DOMAIN book : book'[i].type = "MARKET"
BY PlaceOrderMock

(* Most steps are of that kind.                                            *)
LEMMA QuietSteps ==
  ASSUME GridInv, Next
  PROVE  \/ Quiet
         \/ \E t \in Thread : OnOrderUpdate(t)
         \/ \E l \in Levels : InitOrder(l)
<1>. USE DEF GridInv, BotInv
<1>1. /\ Monitor \in Thread /\ Monitor \notin OrderId /\ OrderId \subseteq Thread
      /\ th \in [Thread -> ThreadType] /\ MockTypeOK
  BY MockAssumption DEF Thread, Monitor, OrderId, BotTypes, MockInv
<1>m. ASSUME NEW g, th' = [th EXCEPT ![Monitor] = g],
             g.pc \notin {"init", "relist", "place", "record", "fetch", "section"},
             UNCHANGED <<orders, info, acc, booked>>,
             \A i \in DOMAIN book' \ DOMAIN book : book'[i].type = "MARKET"
      PROVE  Quiet
  BY <1>1, <1>m DEF Quiet
<1>2. CASE EndInit \/ EndHalt \/ BeginHalt \/ BeginPoll \/ EndPoll
  <2>1. UNCHANGED <<orders, info, acc, booked>> /\ DOMAIN book' = DOMAIN book
    BY <1>2 DEF EndInit, EndHalt, BeginHalt, BeginPoll, EndPoll, grid, mock
  <2>2. \E g : /\ th' = [th EXCEPT ![Monitor] = g] /\ g.pc \in {"risk", "halt", "poll"}
    <3>1. th[Monitor] \in ThreadType
      BY <1>1
    <3>2. CASE EndInit \/ EndHalt
      <4>1. [th[Monitor] EXCEPT !.pc = "risk"].pc = "risk"
        BY <3>1 DEF ThreadType
      <4>. QED
        BY <3>2, <4>1 DEF EndInit, EndHalt, GoTo
    <3>3. CASE BeginHalt
      <4>. DEFINE g == [th[Monitor] EXCEPT !.pc = "halt", !.todo = {i \in orders : info[i].kind = "OPEN"}]
      <4>1. g.pc = "halt"
        BY <3>1 DEF ThreadType
      <4>. QED
        BY <3>3, <4>1 DEF BeginHalt
    <3>4. CASE BeginPoll
      <4>. DEFINE g == [th[Monitor] EXCEPT !.pc = "poll", !.todo = {i \in orders : info[i].status = "NEW"}]
      <4>1. g.pc = "poll"
        BY <3>1 DEF ThreadType
      <4>. QED
        BY <3>4, <4>1 DEF BeginPoll
    <3>5. CASE EndPoll
      <4>1. [Idle EXCEPT !.pc = "risk"].pc = "risk"
        BY DEF Idle
      <4>. QED
        BY <3>5, <4>1 DEF EndPoll
    <3>. QED
      BY <1>2, <3>2, <3>3, <3>4, <3>5
  <2>. QED
    BY <1>m, <2>1, <2>2
<1>3. ASSUME NEW i \in OrderId, HaltCancels(i) PROVE Quiet
  <2>. DEFINE left == [th EXCEPT ![Monitor].todo = @ \ {i}]
  <2>1. /\ th[Monitor].pc = "halt" /\ UNCHANGED <<grid, risk, notify>>
        /\ th' = left \/ th' = Notify(left, {i}, "CANCELED")
        /\ UNCHANGED mock \/ CancelOrder(i)
    BY <1>3 DEF HaltCancels
  <2>2. /\ left \in [Thread -> ThreadType] /\ left[Monitor].pc = "halt"
        /\ \A t \in Thread : t # Monitor => left[t] = th[t]
    BY <1>1, <2>1 DEF ThreadType
  <2>3. DOMAIN book' = DOMAIN book
    BY <2>1, NothingPlaced
  <2>. HIDE DEF left
  <2>4. \A t \in Thread : \/ th'[t] = left[t]
                          \/ /\ t # Monitor /\ th'[t].pc = "section" /\ th'[t].status = "CANCELED"
    BY <2>1, <2>2, Notified
  <2>5. \A t \in Thread : \/ th'[t] = th[t]
                          \/ t = Monitor /\ th'[t].pc = "halt"
                          \/ t # Monitor /\ th'[t].pc = "section" /\ th'[t].status # "FILLED"
    BY <2>2, <2>4
  <2>. QED
    BY <2>1, <2>3, <2>5 DEF Quiet, grid, InCall
<1>4. CASE OpenHedge \/ CloseHedge
  <2>1. PICK side \in {"BUY", "SELL"}, r \in BOOLEAN : PlaceOrder(Market(side, HedgeSide, 1, r))
    BY <1>4 DEF OpenHedge, CloseHedge
  <2>2. Market(side, HedgeSide, 1, r) \in NewOrder /\ Market(side, HedgeSide, 1, r).type = "MARKET"
    BY OrderTypes DEF Market
  <2>3. \A i \in DOMAIN book' \ DOMAIN book : book'[i].type = "MARKET"
    BY <2>1, <2>2, MarketPlaced
  <2>4. UNCHANGED <<th, orders, info, acc, booked>>
    BY <1>4 DEF OpenHedge, CloseHedge, grid
  <2>. QED
    BY <2>3, <2>4 DEF Quiet
<1>5. CASE LiquidateAndStop
  <2>0. th[Monitor] \in ThreadType
    BY <1>1
  <2>1. CASE BeginLiquidation \/ Panic
    <3>1. PICK label \in {"readMain", "idle"} : th' = [th EXCEPT ![Monitor].pc = label]
      BY <2>1 DEF BeginLiquidation, Panic, GoTo
    <3>2. [th[Monitor] EXCEPT !.pc = label].pc = label
      BY <2>0 DEF ThreadType
    <3>3. UNCHANGED <<orders, info, acc, booked>> /\ DOMAIN book' = DOMAIN book
      BY <2>1 DEF BeginLiquidation, Panic, grid, mock
    <3>. QED
      BY <1>m, <3>1, <3>2, <3>3
  <2>2. ASSUME NEW pc, NEW s \in Sides, NEW place \in {"sellMain", "buyHedge"},
               NEW next \in {"readHedge", "stop"}, ReadPosition(pc, s, place, next)
        PROVE  Quiet
    <3>1. PICK k \in {pos[s]}, label \in {"sellMain", "buyHedge", "readHedge", "stop"} :
            th' = [th EXCEPT ![Monitor].amt = k, ![Monitor].pc = label]
      BY <2>2 DEF ReadPosition
    <3>2. [th[Monitor] EXCEPT !.amt = k, !.pc = label].pc = label
      BY <2>0 DEF ThreadType
    <3>3. UNCHANGED <<orders, info, acc, booked>> /\ DOMAIN book' = DOMAIN book
      BY <2>2 DEF ReadPosition, grid, mock
    <3>. QED
      BY <1>m, <3>1, <3>2, <3>3
  <2>3. ASSUME NEW pc, NEW s \in {"long", HedgeSide}, NEW next \in {"readHedge", "stop"},
               ClosePosition(pc, s, next)
        PROVE  Quiet
    <3>1. th' = [th EXCEPT ![Monitor].pc = next] /\ UNCHANGED <<orders, info, acc, booked>>
      BY <2>3 DEF ClosePosition, GoTo, grid
    <3>2. [th[Monitor] EXCEPT !.pc = next].pc = next
      BY <2>0 DEF ThreadType
    <3>3. CloseOrder(s) \in NewOrder /\ CloseOrder(s).type = "MARKET"
      <4>1. Magnitude(th[Monitor].amt) \in Nat
        BY <2>0 DEF ThreadType, Magnitude
      <4>. QED
        BY <4>1, OrderTypes DEF CloseOrder, Market
    <3>4. UNCHANGED mock \/ Liquidate \/ PlaceOrder(CloseOrder(s))
      BY <2>3 DEF ClosePosition
    <3>5. \A i \in DOMAIN book' \ DOMAIN book : book'[i].type = "MARKET"
      BY <3>3, <3>4, MarketPlaced, NothingPlaced
    <3>. QED
      BY <1>m, <3>1, <3>2, <3>5
  <2>. QED
    BY <1>5, <2>1, <2>2, <2>3 DEF LiquidateAndStop, Sides, MainSide, HedgeSide
<1>6. ASSUME NEW i \in OrderId, PollGet(i) PROVE Quiet
  <2>1. /\ th' = [th EXCEPT ![Monitor].pc = "got", ![Monitor].order = i, ![Monitor].todo = @ \ {i}]
        /\ UNCHANGED <<orders, info, acc, booked>> /\ DOMAIN book' = DOMAIN book
    BY <1>6 DEF PollGet, grid, mock
  <2>2. th[Monitor] \in ThreadType
    BY <1>1
  <2>3. th'[Monitor].pc = "got" /\ \A t \in Thread : t # Monitor => th'[t] = th[t]
    BY <1>1, <2>1, <2>2 DEF ThreadType
  <2>. QED
    BY <1>1, <2>1, <2>3 DEF Quiet
<1>7. CASE PollRead
  <2>. DEFINE i == th[Monitor].order
  <2>1. /\ th[Monitor].pc = "got" /\ UNCHANGED <<mock, grid, risk, notify>>
    BY <1>7 DEF PollRead
  <2>2. i \in DOMAIN book
    BY <1>1, <2>1 DEF Aimed
  <2>3. PICK s \in StatusRead(i) :
           th' = [th EXCEPT ![Monitor] =
                    IF info[i].status = s THEN Returned(Monitor) ELSE Entered(@, i, s)]
    BY <1>7 DEF PollRead
  <2>4. s = "FILLED" => i = sim.cur \/ book[i].status = "FILLED"
    BY <2>3 DEF StatusRead, Writing
  <2>5. Returned(Monitor).pc = "poll"
    BY <1>1, ReturnedType
  <2>6. LET e == Entered(th[Monitor], i, s) IN
        /\ e.order = i /\ e.status = s /\ e.pc = IF s = "FILLED" THEN "fetch" ELSE "section"
    <3>1. th[Monitor] \in ThreadType
      BY <1>1
    <3>. HIDE DEF i
    <3>. QED
      BY <3>1 DEF Entered, ThreadType
  <2>7. \A t \in Thread : t # Monitor => th'[t] = th[t]
    BY <1>1, <2>3
  <2>8. \/ th'[Monitor] = Returned(Monitor)
        \/ th'[Monitor] = Entered(th[Monitor], i, s)
    BY <1>1, <2>3
  <2>9. /\ th'[Monitor].pc \in {"poll", "fetch", "section"}
        /\ th'[Monitor].pc = "fetch" => th'[Monitor].status = "FILLED" /\ th'[Monitor].order = i
                                        /\ s = "FILLED"
        /\ th'[Monitor].pc = "section" => th'[Monitor].status # "FILLED"
    BY <2>5, <2>6, <2>8
  <2>. HIDE DEF i
  <2>10. th'[Monitor].pc = "fetch" => Waits(Monitor)'
    BY <2>1, <2>2, <2>4, <2>9 DEF Waits, mock
  <2>. QED
    BY <2>1, <2>7, <2>9, <2>10 DEF Quiet, grid, mock
<1>8. CASE Simulator
  <2>1. /\ th' = Notify(th, FilledByTick, "FILLED") /\ UNCHANGED <<grid, risk, notify>>
        /\ BeginTick \/ WriteOrder
    BY <1>8 DEF Simulator
  <2>2. DOMAIN book' = DOMAIN book
    BY <2>1, NothingPlaced
  <2>3. /\ FilledByTick \subseteq OrderId
        /\ \A i \in FilledByTick : i \in DOMAIN book' /\ book'[i].status = "FILLED"
    <3>1. CASE BeginTick
      BY <3>1 DEF BeginTick, FilledByTick
    <3>2. CASE WriteOrder
      <4>1. /\ sim.cur \in DOMAIN book /\ ToSet(sim.done) \subseteq DOMAIN book
            /\ book'[sim.cur].status = "FILLED"
            /\ \A i \in DOMAIN book : i # sim.cur => book'[i] = book[i]
        <5>1. /\ sim.cur \in DOMAIN book /\ book'[sim.cur] = Filled(book[sim.cur], price)
              /\ \A i \in DOMAIN book : i # sim.cur => book'[i] = book[i]
          BY <3>2, WriteOrderMock
        <5>2. Filled(book[sim.cur], price).status = "FILLED"
          BY <5>1, <1>1, BookType DEF Filled, MockOrder
        <5>. QED
          BY <1>1, <5>1, <5>2, BookType
      <4>2. DOMAIN book \subseteq OrderId
        BY <1>1, BookType
      <4>. QED
        BY <2>2, <4>1, <4>2 DEF FilledByTick, MockInv, Statuses
    <3>. QED
      BY <2>1, <3>1, <3>2
  <2>4. \A t \in Thread :
          \/ th'[t] = th[t]
          \/ /\ t \in FilledByTick /\ t # Monitor
             /\ th'[t].pc = "fetch" /\ th'[t].order = t /\ th'[t].status = "FILLED"
    BY <1>1, <2>1, <2>3, Notified
  <2>5. \A t \in Thread : th'[t] = th[t] \/ (t # Monitor /\ th'[t].pc = "fetch" /\ Waits(t)')
    BY <2>3, <2>4 DEF Waits
  <2>. QED
    BY <2>1, <2>2, <2>5 DEF Quiet, grid, InCall
<1>. QED
  BY <1>2, <1>3, <1>4, <1>5, <1>6, <1>7, <1>8 DEF Next, MonitorStep

(* Quiet steps keep what the strategy knows.                               *)
LEMMA QuietKept ==
  ASSUME GridInv, Next, Quiet
  PROVE  Known' /\ Calls'
<1>. USE DEF GridInv, BotInv
<1>1. \A i \in DOMAIN book :
        /\ i \in DOMAIN book'
        /\ book'[i].type = book[i].type /\ book'[i].side = book[i].side
        /\ book[i].status = "FILLED" => book'[i] = book[i]
        /\ i \in Settled => i \in Settled'
        /\ i = sim.cur => i = sim'.cur \/ book'[i].status = "FILLED"
  BY BotMockStep, BookKept
<1>2. UNCHANGED <<orders, info, acc, booked>>
  BY DEF Quiet
<1>3. Known'
  BY <1>1, <1>2 DEF Known, BotTypes
<1>4. ASSUME NEW t \in Thread, th'[t] # th[t]
      PROVE  /\ t # Monitor => th'[t].pc \in InCall \cup {"idle"}
             /\ th'[t].pc = "fetch" => Waits(t)'
             /\ ~(th'[t].pc = "section" /\ th'[t].status = "FILLED")
             /\ th'[t].pc \notin {"relist", "place", "record"}
  BY <1>4 DEF Quiet
<1>5. ASSUME NEW t \in Thread, th'[t] = th[t]
      PROVE  /\ t # Monitor => th'[t].pc \in InCall \cup {"idle"}
             /\ th'[t].pc = "fetch" => Waits(t)'
             /\ th'[t].pc = "section" /\ th'[t].status = "FILLED" => th'[t].order \in Settled'
             /\ th'[t].pc \in {"relist", "place", "record"} => th'[t].order \in booked'
             /\ th'[t].pc = "relist" => info'[th'[t].order].kind = "CLOSE"
             /\ th'[t].pc = "record" => Records(t)'
  <2>1. t # Monitor => th'[t].pc \in InCall \cup {"idle"}
    BY <1>5 DEF Calls
  <2>2. th'[t].pc = "fetch" => Waits(t)'
    <3>. SUFFICES ASSUME th[t].pc = "fetch" PROVE Waits(t)'
      BY <1>5
    <3>1. Waits(t)
      BY DEF Calls
    <3>. QED
      BY <1>1, <1>5, <3>1 DEF Waits
  <2>3. th'[t].pc = "section" /\ th'[t].status = "FILLED" => th'[t].order \in Settled'
    BY <1>1, <1>5 DEF Calls, Settled
  <2>4. /\ th'[t].pc \in {"relist", "place", "record"} => th'[t].order \in booked'
        /\ th'[t].pc = "relist" => info'[th'[t].order].kind = "CLOSE"
    BY <1>2, <1>5 DEF Calls
  <2>5. th'[t].pc = "record" => Records(t)'
    <3>. SUFFICES ASSUME th[t].pc = "record" PROVE Records(t)'
      BY <1>5
    <3>. DEFINE n == th[t].new
    <3>1. /\ n \in DOMAIN book /\ info[n].kind = "NONE" /\ book[n].type = "LIMIT"
          /\ book[n].side = SideOfKind(NewKind(t))
          /\ \A u \in Thread : th[u].pc = "record" /\ th[u].new = n => u = t
      BY DEF Calls, Records, Aimed
    <3>2. NewKind(t)' = NewKind(t)
      BY <1>2, <1>5 DEF NewKind
    <3>3. \A u \in Thread : th'[u].pc = "record" => th'[u] = th[u]
      BY <1>4
    <3>. QED
      BY <1>1, <1>2, <1>5, <3>1, <3>2, <3>3 DEF Records
  <2>. QED
    BY <2>1, <2>2, <2>3, <2>4, <2>5
<1>6. Calls'
  BY <1>4, <1>5 DEF Calls
<1>. QED
  BY <1>3, <1>6

(* What a step in OnOrderUpdate leaves to the other goroutines.            *)
LEMMA OthersKept ==
  ASSUME GridInv, MockStep, NEW t \in Thread,
         \A u \in Thread : u # t => th'[u] = th[u],
         booked \subseteq booked',
         \A i \in DOMAIN book : info'[i].kind = info[i].kind \/ (th[t].pc = "record" /\ i = th[t].new)
  PROVE  \A u \in Thread : u # t =>
           /\ u # Monitor => th'[u].pc \in InCall \cup {"idle"}
           /\ th'[u].pc = "fetch" => Waits(u)'
           /\ th'[u].pc = "section" /\ th'[u].status = "FILLED" => th'[u].order \in Settled'
           /\ th'[u].pc \in {"relist", "place", "record"} =>
                th'[u].order \in booked' /\ info'[th'[u].order].kind = info[th[u].order].kind
           /\ th'[u].pc = "relist" => info'[th'[u].order].kind = "CLOSE"
           /\ th'[u].pc = "record" =>
                LET n == th'[u].new IN
                /\ info'[n].kind = "NONE" /\ book'[n].type = "LIMIT"
                /\ book'[n].side = SideOfKind(NewKind(u)')
                /\ n \in DOMAIN book
                /\ \A v \in Thread : v # t /\ th'[v].pc = "record" /\ th'[v].new = n => v = u
<1>. USE DEF GridInv, BotInv
<1>. TAKE u \in Thread
<1>. HAVE u # t
<1>0. th'[u] = th[u]
  OBVIOUS
<1>1. \A i \in DOMAIN book :
        /\ i \in DOMAIN book'
        /\ book'[i].type = book[i].type /\ book'[i].side = book[i].side
        /\ book[i].status = "FILLED" => book'[i] = book[i]
        /\ i \in Settled => i \in Settled'
        /\ i = sim.cur => i = sim'.cur \/ book'[i].status = "FILLED"
  BY BookKept
<1>2. u # Monitor => th'[u].pc \in InCall \cup {"idle"}
  BY <1>0 DEF Calls
<1>3. th'[u].pc = "fetch" => Waits(u)'
  <2>. SUFFICES ASSUME th[u].pc = "fetch" PROVE Waits(u)'
    BY <1>0
  <2>1. Waits(u)
    BY DEF Calls
  <2>. QED
    BY <1>0, <1>1, <2>1 DEF Waits
<1>4. th'[u].pc = "section" /\ th'[u].status = "FILLED" => th'[u].order \in Settled'
  BY <1>0, <1>1 DEF Calls, Settled
<1>5. th[t].pc = "record" => info[th[t].new].kind = "NONE"
  BY DEF Calls, Records
<1>6. th'[u].pc \in {"relist", "place", "record"} =>
        th'[u].order \in booked' /\ info'[th'[u].order].kind = info[th[u].order].kind
  <2>. SUFFICES ASSUME th[u].pc \in {"relist", "place", "record"}
                PROVE  th'[u].order \in booked' /\ info'[th'[u].order].kind = info[th[u].order].kind
    BY <1>0
  <2>1. th[u].order \in booked /\ th[u].order \in DOMAIN book
    BY DEF Calls, BotTypes
  <2>2. info[th[u].order].kind # "NONE"
    BY <2>1 DEF Known
  <2>. QED
    BY <1>0, <1>5, <2>1, <2>2
<1>7. th'[u].pc = "relist" => info'[th'[u].order].kind = "CLOSE"
  BY <1>0, <1>6 DEF Calls
<1>8. ASSUME th'[u].pc = "record"
      PROVE  LET n == th'[u].new IN
             /\ info'[n].kind = "NONE" /\ book'[n].type = "LIMIT"
             /\ book'[n].side = SideOfKind(NewKind(u)')
             /\ n \in DOMAIN book
             /\ \A v \in Thread : v # t /\ th'[v].pc = "record" /\ th'[v].new = n => v = u
  <2>. DEFINE n == th[u].new
  <2>1. /\ n \in DOMAIN book /\ info[n].kind = "NONE" /\ book[n].type = "LIMIT"
        /\ book[n].side = SideOfKind(NewKind(u))
        /\ \A v \in Thread : th[v].pc = "record" /\ th[v].new = n => v = u
    BY <1>0, <1>8 DEF Calls, Records, Aimed
  <2>2. NewKind(u)' = NewKind(u)
    BY <1>0, <1>6, <1>8 DEF NewKind
  <2>3. ~(th[t].pc = "record" /\ n = th[t].new)
    BY <2>1
  <2>4. info'[n].kind = info[n].kind
    BY <2>1, <2>3
  <2>. QED
    BY <1>0, <1>1, <2>1, <2>2, <2>4
<1>. QED
  BY <1>2, <1>3, <1>4, <1>6, <1>7, <1>8

(* When nothing happens to the exchange, it suffices to look at the        *)
(* goroutine that moves.                                                   *)
LEMMA CallMoves ==
  ASSUME GridInv, UNCHANGED mock, NEW t \in Thread,
         \A u \in Thread : u # t => th'[u] = th[u],
         booked \subseteq booked',
         \A i \in OrderId : info'[i].kind = info[i].kind,
         t # Monitor => th'[t].pc \in InCall \cup {"idle"},
         th'[t].pc \notin {"fetch", "record"},
         th'[t].pc = "section" /\ th'[t].status = "FILLED" => th'[t].order \in Settled,
         th'[t].pc \in {"relist", "place"} => th'[t].order \in booked',
         th'[t].pc = "relist" => info'[th'[t].order].kind = "CLOSE"
  PROVE  Calls'
<1>. USE DEF GridInv, BotInv
<1>0. MockStep /\ DOMAIN book \subseteq OrderId /\ Settled' = Settled
  BY BookType DEF MockStep, MockInv, mock, Settled
<1>1. \A u \in Thread : u # t =>
        /\ u # Monitor => th'[u].pc \in InCall \cup {"idle"}
        /\ th'[u].pc = "fetch" => Waits(u)'
        /\ th'[u].pc = "section" /\ th'[u].status = "FILLED" => th'[u].order \in Settled'
        /\ th'[u].pc \in {"relist", "place", "record"} =>
             th'[u].order \in booked' /\ info'[th'[u].order].kind = info[th[u].order].kind
        /\ th'[u].pc = "relist" => info'[th'[u].order].kind = "CLOSE"
        /\ th'[u].pc = "record" =>
             LET n == th'[u].new IN
             /\ info'[n].kind = "NONE" /\ book'[n].type = "LIMIT"
             /\ book'[n].side = SideOfKind(NewKind(u)')
             /\ n \in DOMAIN book
             /\ \A v \in Thread : v # t /\ th'[v].pc = "record" /\ th'[v].new = n => v = u
  BY <1>0, OthersKept
<1>2. \A u \in Thread : u # t /\ th'[u].pc = "record" => Records(u)'
  BY <1>1 DEF Records
<1>. QED
  BY <1>0, <1>1, <1>2 DEF Calls

(* An order is placed in the grid and not recorded yet, or recorded at     *)
(* once.                                                                   *)
LEMMA GridPlaces ==
  ASSUME GridInv, NEW k \in {"OPEN", "CLOSE"}, NEW l \in Levels \cup {0}, PlaceOrder(GridOrder(k, l))
  PROVE  /\ MockStep /\ NextId \in OrderId /\ NextId \notin DOMAIN book
         /\ DOMAIN book' = DOMAIN book \cup {NextId}
         /\ book'[NextId].type = "LIMIT" /\ book'[NextId].side = SideOfKind(k)
         /\ info[NextId].kind = "NONE" /\ NextId \notin booked
         /\ \A i \in DOMAIN book : book'[i] = book[i]
<1>. USE DEF GridInv, BotInv
<1>1. GridOrder(k, l) \in NewOrder
  BY OrderTypes
<1>2. GridOrder(k, l).type = "LIMIT" /\ GridOrder(k, l).side = SideOfKind(k)
  BY DEF GridOrder, Limit, SideOfKind
<1>3. /\ NextId \in OrderId /\ NextId \notin DOMAIN book
      /\ DOMAIN book' = DOMAIN book \cup {NextId} /\ book'[NextId] = GridOrder(k, l)
      /\ \A i \in DOMAIN book : book'[i] = book[i]
  BY <1>1, PlaceOrderMock
<1>4. info[NextId].kind = "NONE" /\ NextId \notin booked
  BY <1>3 DEF Known, BotTypes
<1>. QED
  BY <1>1, <1>2, <1>3, <1>4 DEF MockStep

(* The steps in OnOrderUpdate keep what the strategy knows.                *)
LEMMA CallKept ==
  ASSUME GridInv, NEW t \in Thread, OnOrderUpdate(t)
  PROVE  Known' /\ Calls'
<1>. USE DEF GridInv, BotInv
<1>. DEFINE i == th[t].order
            s == th[t].status
<1>0. /\ th \in [Thread -> ThreadType] /\ th[t] \in ThreadType
      /\ Returned(t).pc = IF t = Monitor THEN "poll" ELSE "idle"
      /\ DOMAIN book \subseteq OrderId /\ orders \subseteq DOMAIN book /\ booked \subseteq DOMAIN book
      /\ info \in [OrderId -> [kind : {"NONE", "OPEN", "CLOSE"}, level : Levels \cup {0},
                               status : MockStatus \cup {"TORN", "NONE"}]]
  BY ReturnedType, BookType DEF BotTypes, MockInv
<1>r. ASSUME UNCHANGED mock, Return(t), booked' = booked, orders' \subseteq orders,
             \A j \in OrderId : info'[j].kind = info[j].kind
      PROVE  Known' /\ Calls'
  <2>1. th'[t].pc \in {"poll", "idle"} /\ (t # Monitor => th'[t].pc = "idle")
        /\ \A u \in Thread : u # t => th'[u] = th[u]
    BY <1>0, <1>r DEF Return
  <2>2. Calls'
    BY <1>r, <2>1, CallMoves
  <2>3. Known'
    BY <1>0, <1>r DEF Known, mock, Settled
  <2>. QED
    BY <2>2, <2>3
<1>1. CASE FetchFill(t)
  <2>1. /\ th[t].pc = "fetch" /\ LockFree /\ th' = [th EXCEPT ![t].pc = "section"]
        /\ UNCHANGED <<mock, grid, risk, notify>>
    BY <1>1 DEF FetchFill, LockForFetch, GoTo
  <2>2. /\ th'[t].pc = "section" /\ th'[t].order = i /\ th'[t].status = s
        /\ \A u \in Thread : u # t => th'[u] = th[u]
    BY <1>0, <2>1 DEF ThreadType
  <2>3. i \in DOMAIN book /\ (i = sim.cur \/ book[i].status = "FILLED")
    BY <2>1 DEF Calls, Waits
  <2>4. sim.cur = 0 /\ i # 0 /\ ToSet(sim.done) = {}
    BY <1>0, <2>1, <2>3, NothingDone DEF LockFree, MockInv, Ticking, OrderId
  <2>5. i \in Settled
    BY <2>3, <2>4 DEF Settled
  <2>6. Calls'
    BY <2>1, <2>2, <2>5, CallMoves DEF grid, InCall
  <2>7. Known'
    BY <2>1 DEF Known, grid, mock, Settled
  <2>. QED
    BY <2>6, <2>7
<1>2. CASE Section(t)
  <2>1. th[t].pc = "section" /\ UNCHANGED <<mock, risk, notify>>
    BY <1>2 DEF Section
  <2>2. CASE ~IsNews(i, s)
    BY <1>2, <1>r, <2>1, <2>2 DEF Section, grid
  <2>3. CASE IsNews(i, s)
    <3>1. /\ i \in orders /\ info' = [info EXCEPT ![i].status = s]
          /\ orders' = IF s \in {"FILLED", "CANCELED"} THEN orders \ {i} ELSE orders
      BY <1>2, <2>3 DEF Section, IsNews
    <3>2. \A j \in OrderId : info'[j].kind = info[j].kind
      BY <1>0, <3>1
    <3>3. CASE s # "FILLED"
      <4>1. Return(t) /\ booked' = booked
        BY <1>2, <2>3, <3>3 DEF Section
      <4>. QED
        BY <1>r, <2>1, <3>1, <3>2, <4>1
    <3>4. CASE s = "FILLED"
      <4>1. /\ booked' = booked \cup {i}
            /\ th' = [th EXCEPT ![t].pc = IF info[i].kind = "OPEN" THEN "place" ELSE "relist"]
        BY <1>2, <2>3, <3>4 DEF Section, GoTo
      <4>2. i \in Settled /\ info[i].kind \in {"OPEN", "CLOSE"} /\ i \in OrderId
        BY <1>0, <2>1, <3>1, <3>4 DEF Calls, Known
      <4>3. /\ th'[t].pc = IF info[i].kind = "OPEN" THEN "place" ELSE "relist"
            /\ th'[t].order = i /\ \A u \in Thread : u # t => th'[u] = th[u]
        BY <1>0, <4>1 DEF ThreadType
      <4>4. Calls'
        BY <2>1, <3>2, <4>1, <4>2, <4>3, CallMoves DEF InCall
      <4>5. Known'
        <5>1. \A j \in OrderId : info'[j].kind # "NONE" =>
                j \in DOMAIN book' /\ book'[j].type = "LIMIT" /\ book'[j].side = SideOfKind(info'[j].kind)
          BY <2>1, <3>2 DEF Known, mock
        <5>2. \A j \in orders' : info'[j].kind # "NONE" /\ j \notin booked'
          BY <1>0, <3>1, <3>2, <3>4, <4>1 DEF Known
        <5>3. \A j \in booked' : info'[j].kind # "NONE" /\ j \in Settled'
          BY <1>0, <2>1, <3>2, <4>1, <4>2 DEF Known, mock, Settled
        <5>. QED
          BY <5>1, <5>2, <5>3 DEF Known
      <4>. QED
        BY <4>4, <4>5
    <3>. QED
      BY <3>3, <3>4
  <2>. QED
    BY <2>2, <2>3
<1>3. CASE CheckHalt(t)
  <2>1. /\ th[t].pc = "relist" /\ UNCHANGED <<mock, grid, risk, notify>>
        /\ Return(t) \/ th' = [th EXCEPT ![t].pc = "place"]
    BY <1>3 DEF CheckHalt, GoTo
  <2>2. CASE Return(t)
    BY <1>r, <2>1, <2>2 DEF grid
  <2>3. CASE th' = [th EXCEPT ![t].pc = "place"]
    <3>1. /\ th'[t].pc = "place" /\ th'[t].order = i /\ \A u \in Thread : u # t => th'[u] = th[u]
      BY <1>0, <2>3 DEF ThreadType
    <3>2. i \in booked
      BY <2>1 DEF Calls
    <3>3. Calls'
      BY <2>1, <3>1, <3>2, CallMoves DEF grid, InCall
    <3>4. Known'
      BY <2>1 DEF Known, grid, mock, Settled
    <3>. QED
      BY <3>3, <3>4
  <2>. QED
    BY <2>1, <2>2, <2>3
<1>4. CASE PlaceNext(t)
  <2>1. th[t].pc = "place" /\ UNCHANGED <<grid, risk, notify>> /\ i \in booked /\ i \in OrderId
    BY <1>0, <1>4 DEF PlaceNext, Calls
  <2>2. CASE NextId \notin OrderId
    BY <1>4, <1>r, <2>1, <2>2 DEF PlaceNext, grid
  <2>3. CASE NextId \in OrderId
    <3>1. /\ PlaceOrder(GridOrder(NewKind(t), info[i].level))
          /\ th' = [th EXCEPT ![t].pc = "record", ![t].new = NextId]
      BY <1>4, <2>3 DEF PlaceNext
    <3>2. NewKind(t) \in {"OPEN", "CLOSE"} /\ info[i].level \in Levels \cup {0}
      BY <1>0, <2>1 DEF NewKind
    <3>3. /\ MockStep /\ NextId \notin DOMAIN book /\ DOMAIN book' = DOMAIN book \cup {NextId}
          /\ book'[NextId].type = "LIMIT" /\ book'[NextId].side = SideOfKind(NewKind(t))
          /\ info[NextId].kind = "NONE" /\ \A j \in DOMAIN book : book'[j] = book[j]
      BY <3>1, <3>2, GridPlaces
    <3>4. /\ th'[t].pc = "record" /\ th'[t].order = i /\ th'[t].new = NextId
          /\ \A u \in Thread : u # t => th'[u] = th[u]
      BY <1>0, <3>1 DEF ThreadType
    <3>5. info' = info /\ booked' = booked /\ orders' = orders
      BY <2>1 DEF grid
    <3>6. \A u \in Thread : u # t =>
            /\ u # Monitor => th'[u].pc \in InCall \cup {"idle"}
            /\ th'[u].pc = "fetch" => Waits(u)'
            /\ th'[u].pc = "section" /\ th'[u].status = "FILLED" => th'[u].order \in Settled'
            /\ th'[u].pc \in {"relist", "place", "record"} =>
                 th'[u].order \in booked' /\ info'[th'[u].order].kind = info[th[u].order].kind
            /\ th'[u].pc = "relist" => info'[th'[u].order].kind = "CLOSE"
            /\ th'[u].pc = "record" =>
                 LET n == th'[u].new IN
                 /\ info'[n].kind = "NONE" /\ book'[n].type = "LIMIT"
                 /\ book'[n].side = SideOfKind(NewKind(u)')
                 /\ n \in DOMAIN book
                 /\ \A v \in Thread : v # t /\ th'[v].pc = "record" /\ th'[v].new = n => v = u
      BY <3>3, <3>4, <3>5, OthersKept
    <3>7. \A u \in Thread : u # t /\ th'[u].pc = "record" => Records(u)'
      BY <3>3, <3>4, <3>6 DEF Records
    <3>8. Records(t)'
      <4>1. NewKind(t)' = NewKind(t)
        BY <3>4, <3>5 DEF NewKind
      <4>2. \A u \in Thread : u # t /\ th'[u].pc = "record" => th'[u].new # NextId
        BY <3>3, <3>6
      <4>. QED
        BY <3>3, <3>4, <3>5, <4>1, <4>2 DEF Records
    <3>9. Calls'
      BY <2>1, <3>4, <3>5, <3>6, <3>7, <3>8 DEF Calls, InCall
    <3>10. Known'
      <4>1. Settled \subseteq Settled'
        BY <3>3, BookKept DEF Settled
      <4>. QED
        BY <1>0, <3>3, <3>5, <4>1 DEF Known
    <3>. QED
      BY <3>9, <3>10
  <2>. QED
    BY <2>2, <2>3
<1>5. CASE RecordNext(t)
  <2>. DEFINE n == th[t].new
  <2>1. /\ th[t].pc = "record" /\ Return(t) /\ booked' = booked
        /\ orders' = orders \cup {n}
        /\ info' = [info EXCEPT ![n] = Placed(NewKind(t), info[i].level)]
        /\ UNCHANGED mock
    BY <1>5 DEF RecordNext
  <2>2. /\ n \in DOMAIN book /\ n \in OrderId /\ info[n].kind = "NONE" /\ book[n].type = "LIMIT"
        /\ book[n].side = SideOfKind(NewKind(t))
        /\ \A u \in Thread : th[u].pc = "record" /\ th[u].new = n => u = t
    BY <1>0, <2>1 DEF Calls, Records, Aimed
  <2>3. /\ info'[n].kind = NewKind(t) /\ NewKind(t) \in {"OPEN", "CLOSE"}
        /\ \A j \in OrderId : j # n => info'[j] = info[j]
    BY <1>0, <2>1, <2>2 DEF Placed, NewKind
  <2>4. th'[t].pc \in {"poll", "idle"} /\ (t # Monitor => th'[t].pc = "idle")
        /\ \A u \in Thread : u # t => th'[u] = th[u]
    BY <1>0, <2>1 DEF Return
  <2>5. MockStep /\ Settled' = Settled
    BY <2>1 DEF MockStep, mock, Settled
  <2>6. \A j \in DOMAIN book : info'[j].kind = info[j].kind \/ (th[t].pc = "record" /\ j = th[t].new)
    BY <1>0, <2>1, <2>3
  <2>7. \A u \in Thread : u # t =>
          /\ u # Monitor => th'[u].pc \in InCall \cup {"idle"}
          /\ th'[u].pc = "fetch" => Waits(u)'
          /\ th'[u].pc = "section" /\ th'[u].status = "FILLED" => th'[u].order \in Settled'
          /\ th'[u].pc \in {"relist", "place", "record"} =>
               th'[u].order \in booked' /\ info'[th'[u].order].kind = info[th[u].order].kind
          /\ th'[u].pc = "relist" => info'[th'[u].order].kind = "CLOSE"
          /\ th'[u].pc = "record" =>
               LET m == th'[u].new IN
               /\ info'[m].kind = "NONE" /\ book'[m].type = "LIMIT"
               /\ book'[m].side = SideOfKind(NewKind(u)')
               /\ m \in DOMAIN book
               /\ \A v \in Thread : v # t /\ th'[v].pc = "record" /\ th'[v].new = m => v = u
    BY <2>1, <2>4, <2>5, <2>6, OthersKept
  <2>8. \A u \in Thread : u # t /\ th'[u].pc = "record" => Records(u)'
    BY <2>4, <2>7 DEF Records
  <2>9. Calls'
    BY <2>4, <2>7, <2>8 DEF Calls
  <2>10. Known'
    <3>1. n \notin booked
      BY <2>2 DEF Known
    <3>2. \A j \in OrderId : info'[j].kind # "NONE" =>
            j \in DOMAIN book' /\ book'[j].type = "LIMIT" /\ book'[j].side = SideOfKind(info'[j].kind)
      BY <2>1, <2>2, <2>3 DEF Known, mock
    <3>3. \A j \in orders' : info'[j].kind # "NONE" /\ j \notin booked'
      BY <1>0, <2>1, <2>3, <3>1 DEF Known
    <3>4. \A j \in booked' : info'[j].kind # "NONE" /\ j \in Settled'
      BY <1>0, <2>1, <2>3, <2>5, <3>1 DEF Known
    <3>. QED
      BY <3>2, <3>3, <3>4 DEF Known
  <2>. QED
    BY <2>9, <2>10
<1>. QED
  BY <1>1, <1>2, <1>3, <1>4, <1>5 DEF OnOrderUpdate

(* So does InitOrders.                                                     *)
LEMMA InitOrderKept ==
  ASSUME GridInv, NEW l \in Levels, InitOrder(l)
  PROVE  Known' /\ Calls'
<1>. USE DEF GridInv, BotInv
<1>0. /\ th \in [Thread -> ThreadType] /\ Monitor \in Thread
      /\ DOMAIN book \subseteq OrderId /\ orders \subseteq DOMAIN book /\ booked \subseteq DOMAIN book
      /\ info \in [OrderId -> [kind : {"NONE", "OPEN", "CLOSE"}, level : Levels \cup {0},
                               status : MockStatus \cup {"TORN", "NONE"}]]
  BY BookType DEF BotTypes, MockInv, Thread, Monitor
<1>1. /\ th[Monitor].pc = "init" /\ PlaceOrder(GridOrder("OPEN", l))
      /\ orders' = orders \cup {NextId} /\ booked' = booked
      /\ info' = [info EXCEPT ![NextId] = Placed("OPEN", l)]
      /\ th' = [th EXCEPT ![Monitor].todo = @ \ {l}]
  BY DEF InitOrder
<1>2. /\ MockStep /\ NextId \notin DOMAIN book /\ DOMAIN book' = DOMAIN book \cup {NextId}
      /\ NextId \in OrderId
      /\ book'[NextId].type = "LIMIT" /\ book'[NextId].side = "BUY"
      /\ NextId \notin booked /\ \A j \in DOMAIN book : book'[j] = book[j]
  BY <1>1, GridPlaces DEF SideOfKind
<1>3. th'[Monitor].pc = "init" /\ \A u \in Thread : u # Monitor => th'[u] = th[u]
  BY <1>0, <1>1 DEF ThreadType
<1>4. /\ info'[NextId].kind = "OPEN" /\ \A j \in OrderId : j # NextId => info'[j] = info[j]
  BY <1>0, <1>1, <1>2 DEF Placed
<1>5. \A j \in DOMAIN book : info'[j].kind = info[j].kind
  BY <1>0, <1>2, <1>4
<1>6. \A u \in Thread : u # Monitor =>
        /\ u # Monitor => th'[u].pc \in InCall \cup {"idle"}
        /\ th'[u].pc = "fetch" => Waits(u)'
        /\ th'[u].pc = "section" /\ th'[u].status = "FILLED" => th'[u].order \in Settled'
        /\ th'[u].pc \in {"relist", "place", "record"} =>
             th'[u].order \in booked' /\ info'[th'[u].order].kind = info[th[u].order].kind
        /\ th'[u].pc = "relist" => info'[th'[u].order].kind = "CLOSE"
        /\ th'[u].pc = "record" =>
             LET n == th'[u].new IN
             /\ info'[n].kind = "NONE" /\ book'[n].type = "LIMIT"
             /\ book'[n].side = SideOfKind(NewKind(u)')
             /\ n \in DOMAIN book
             /\ \A v \in Thread : v # Monitor /\ th'[v].pc = "record" /\ th'[v].new = n => v = u
  BY <1>0, <1>1, <1>2, <1>3, <1>5, OthersKept
<1>7. \A u \in Thread : u # Monitor /\ th'[u].pc = "record" => Records(u)'
  BY <1>3, <1>6 DEF Records
<1>8. Calls'
  BY <1>3, <1>6, <1>7 DEF Calls
<1>9. Settled \subseteq Settled'
  BY <1>2, BookKept DEF Settled
<1>10. Known'
  <2>1. \A j \in OrderId : info'[j].kind # "NONE" =>
          j \in DOMAIN book' /\ book'[j].type = "LIMIT" /\ book'[j].side = SideOfKind(info'[j].kind)
    BY <1>2, <1>4 DEF Known, SideOfKind
  <2>2. \A j \in orders' : info'[j].kind # "NONE" /\ j \notin booked'
    BY <1>0, <1>1, <1>2, <1>4 DEF Known
  <2>3. \A j \in booked' : info'[j].kind # "NONE" /\ j \in Settled'
    BY <1>0, <1>1, <1>2, <1>4, <1>9 DEF Known
  <2>. QED
    BY <2>1, <2>2, <2>3 DEF Known
<1>. QED
  BY <1>8, <1>10

(* Every step keeps what the strategy knows, and what a goroutine that is  *)
(* in OnOrderUpdate relies on.                                             *)
LEMMA GridInvKept ==
  ASSUME GridInv, [Next]_vars
  PROVE  GridInv'
<1>1. BotInv'
  BY BotInvKept DEF GridInv
<1>2. CASE UNCHANGED vars
  <2>1. UNCHANGED <<mock, th, orders, info, booked>>
    BY <1>2 DEF vars, grid
  <2>2. Kinds' /\ Known'
    BY <2>1 DEF GridInv, Kinds, Known, Settled, mock
  <2>3. \A t \in Thread : (Waits(t) <=> Waits(t)') /\ (Records(t) <=> Records(t)')
    BY <2>1 DEF Waits, Records, NewKind, mock
  <2>4. Calls'
    BY <2>1, <2>3 DEF GridInv, Calls, Settled, mock
  <2>. QED
    BY <1>1, <2>2, <2>4 DEF GridInv
<1>3. CASE Next
  <2>1. Kinds'
    BY <1>3, BotMockStep, KindsKept DEF GridInv, BotInv
  <2>2. Known' /\ Calls'
    BY <1>3, QuietSteps, QuietKept, CallKept, InitOrderKept
  <2>. QED
    BY <1>1, <2>1, <2>2 DEF GridInv
<1>. QED
  BY <1>2, <1>3

(* What the grid still has to sell, and the goroutines on their way to     *)
(* sell what was bought; what it may still buy, and the goroutines on      *)
(* their way to buy again; and the levels not placed yet.                  *)
Sells == {i \in DOMAIN book : book[i].type = "LIMIT" /\ book[i].side = "SELL" /\ i \notin booked}
Closers == {t \in Thread : th[t].pc = "place" /\ info[th[t].order].kind = "OPEN"}
Buys == {i \in DOMAIN book : book[i].type = "LIMIT" /\ book[i].side = "BUY" /\ i \notin booked}
Relisters == {t \in Thread : th[t].pc \in {"relist", "place"} /\ info[th[t].order].kind = "CLOSE"}
Unplaced == IF th[Monitor].pc = "init" THEN th[Monitor].todo ELSE {}

(* Whatever is for sale was bought, and nothing is bought beyond a unit    *)
(* for each level.                                                         *)
Backed == Cardinality(Sells) + Cardinality(Closers) <= acc.qty
Bounded ==
  Cardinality(Unplaced) + Cardinality(Buys) + Cardinality(Relisters) + acc.qty <= Cardinality(Levels)
InitTodo == th[Monitor].pc = "init" => th[Monitor].todo \subseteq Levels

(* A part has no more elements, and one element makes one.                 *)
LEMMA Counting ==
  ASSUME NEW S, IsFiniteSet(S), NEW T
  PROVE  /\ Cardinality(S) \in Nat
         /\ T \subseteq S => Cardinality(T) \in Nat /\ Cardinality(T) <= Cardinality(S)
         /\ \A x : T \subseteq S \cup {x} =>
              Cardinality(T) \in Nat /\ Cardinality(T) <= Cardinality(S) + 1
         /\ \A x \in S : T \subseteq S \ {x} =>
              Cardinality(T) \in Nat /\ Cardinality(T) + 1 <= Cardinality(S)
<1>1. Cardinality(S) \in Nat
  BY FS_CardinalityType
<1>2. ASSUME NEW U, NEW V, IsFiniteSet(U), V \subseteq U
      PROVE  IsFiniteSet(V) /\ Cardinality(V) \in Nat /\ Cardinality(V) <= Cardinality(U)
  BY <1>2, FS_Subset, FS_CardinalityType
<1>3. ASSUME NEW x, T \subseteq S \cup {x}
      PROVE  Cardinality(T) \in Nat /\ Cardinality(T) <= Cardinality(S) + 1
  <2>1. IsFiniteSet(S \cup {x}) /\ Cardinality(S \cup {x}) \in Nat
        /\ Cardinality(S \cup {x}) <= Cardinality(S) + 1
    <3>1. /\ IsFiniteSet(S \cup {x})
          /\ Cardinality(S \cup {x}) = IF x \in S THEN Cardinality(S) ELSE Cardinality(S) + 1
      BY FS_AddElement
    <3>. QED
      BY <1>1, <3>1
  <2>2. Cardinality(T) \in Nat /\ Cardinality(T) <= Cardinality(S \cup {x})
    BY <1>2, <1>3, <2>1
  <2>. QED
    BY <1>1, <2>1, <2>2
<1>4. ASSUME NEW x \in S, T \subseteq S \ {x}
      PROVE  Cardinality(T) \in Nat /\ Cardinality(T) + 1 <= Cardinality(S)
  <2>1. IsFiniteSet(S \ {x}) /\ Cardinality(S \ {x}) = Cardinality(S) - 1
    BY FS_RemoveElement
  <2>2. Cardinality(T) \in Nat /\ Cardinality(T) <= Cardinality(S \ {x})
    BY <1>2, <1>4, <2>1
  <2>. QED
    BY <1>1, <2>1, <2>2
<1>. QED
  BY <1>1, <1>2, <1>3, <1>4

(* All of these sets are finite.                                           *)
LEMMA AllFinite ==
  ASSUME BotInv, InitTodo
  PROVE  /\ IsFiniteSet(Sells) /\ IsFiniteSet(Closers) /\ IsFiniteSet(Buys)
         /\ IsFiniteSet(Relisters) /\ IsFiniteSet(Unplaced) /\ IsFiniteSet(Levels)
         /\ acc.qty \in Int
<1>1. IsFiniteSet(OrderId) /\ IsFiniteSet(Prices)
  BY MockAssumption, FS_Interval DEF OrderId, Prices
<1>2. IsFiniteSet(Thread)
  BY <1>1, FS_AddElement DEF Thread
<1>3. IsFiniteSet(Levels)
  BY <1>1, FS_Subset, SimulationAssumption
<1>4. Sells \subseteq OrderId /\ Buys \subseteq OrderId /\ Closers \subseteq Thread
      /\ Relisters \subseteq Thread /\ Unplaced \subseteq Levels
  BY BookType DEF BotInv, MockInv, Sells, Buys, Closers, Relisters, Unplaced, InitTodo
<1>5. acc.qty \in Int
  BY DEF BotInv, BotTypes, AccountantType
<1>. QED
  BY <1>1, <1>2, <1>3, <1>4, <1>5, FS_Subset

(* A step that leaves every kind of unit alone or loses one.               *)
LEMMA NoMore ==
  ASSUME BotInv, InitTodo, Backed, Bounded,
         Sells' \subseteq Sells, Closers' \subseteq Closers, Buys' \subseteq Buys,
         Relisters' \subseteq Relisters, Unplaced' \subseteq Unplaced, acc'.qty = acc.qty
  PROVE  Backed' /\ Bounded'
<1>1. /\ Cardinality(Sells') <= Cardinality(Sells) /\ Cardinality(Closers') <= Cardinality(Closers)
      /\ Cardinality(Buys') <= Cardinality(Buys)
      /\ Cardinality(Relisters') <= Cardinality(Relisters)
      /\ Cardinality(Unplaced') <= Cardinality(Unplaced)
      /\ Cardinality(Sells) \in Nat /\ Cardinality(Closers) \in Nat /\ Cardinality(Buys) \in Nat
      /\ Cardinality(Relisters) \in Nat /\ Cardinality(Unplaced) \in Nat
      /\ Cardinality(Sells') \in Nat /\ Cardinality(Closers') \in Nat /\ Cardinality(Buys') \in Nat
      /\ Cardinality(Relisters') \in Nat /\ Cardinality(Unplaced') \in Nat
      /\ Cardinality(Levels) \in Nat /\ acc.qty \in Int
  BY AllFinite, Counting
<1>. QED
  BY <1>1 DEF Backed, Bounded

(* A filled order of the grid is booked.                                   *)
LEMMA Books ==
  ASSUME GridInv, NEW t \in Thread, Section(t), booked' # booked
  PROVE  LET i == th[t].order IN
         /\ i \in DOMAIN book /\ i \notin booked /\ booked' = booked \cup {i} /\ i \in Settled
         /\ book[i].type = "LIMIT" /\ book[i].side = SideOfKind(info[i].kind)
         /\ book[i].exec = 1 /\ book[i].qty = 1
         /\ info[i].kind \in {"OPEN", "CLOSE"}
         /\ acc' = RecordTrade(acc, book[i].side, book[i].avg, 1)
         /\ th' = [th EXCEPT ![t].pc = IF info[i].kind = "OPEN" THEN "place" ELSE "relist"]
         /\ \A j \in OrderId : info'[j].kind = info[j].kind
         /\ UNCHANGED mock
<1>. USE DEF GridInv, BotInv
<1>. DEFINE i == th[t].order
            s == th[t].status
<1>1. IsNews(i, s) /\ s = "FILLED" /\ th[t].pc = "section" /\ i \in orders
  BY DEF Section, grid, IsNews
<1>2. /\ info' = [info EXCEPT ![i].status = s] /\ booked' = booked \cup {i}
      /\ acc' = RecordTrade(acc, book[i].side, book[i].avg, book[i].exec)
      /\ th' = [th EXCEPT ![t].pc = IF info[i].kind = "OPEN" THEN "place" ELSE "relist"]
      /\ UNCHANGED mock
  BY <1>1 DEF Section, GoTo
<1>3. i \in DOMAIN book /\ i \in OrderId /\ i \in Settled /\ i \notin booked
  BY <1>1, BookType DEF BotTypes, MockInv, Calls, Known
<1>4. info[i].kind \in {"OPEN", "CLOSE"} /\ book[i].type = "LIMIT" /\ book[i].side = SideOfKind(info[i].kind)
  BY <1>1, <1>3 DEF Known, BotTypes
<1>5. book[i].qty = 1 /\ book[i].exec = 1
  BY <1>3, <1>4 DEF Kinds, OfTheGrid, NotOfTheGrid, Settled, MockInv, Statuses
<1>6. \A j \in OrderId : info'[j].kind = info[j].kind
  BY <1>2, <1>3 DEF BotTypes
<1>. QED
  BY <1>2, <1>3, <1>4, <1>5, <1>6

(* What is to be sold stays backed, and the position within the levels.    *)
LEMMA UnitsKept ==
  ASSUME GridInv, InitTodo, Backed, Bounded, [Next]_vars
  PROVE  InitTodo' /\ Backed' /\ Bounded'
<1>. USE DEF GridInv, BotInv
<1>0. /\ th \in [Thread -> ThreadType] /\ Monitor \in Thread /\ \A t \in Thread : th[t] \in ThreadType
      /\ DOMAIN book \subseteq OrderId /\ booked \subseteq DOMAIN book /\ acc \in AccountantType
      /\ info \in [OrderId -> [kind : {"NONE", "OPEN", "CLOSE"}, level : Levels \cup {0},
                               status : MockStatus \cup {"TORN", "NONE"}]]
  BY BookType DEF BotTypes, MockInv, Thread, Monitor
<1>k. /\ \A t \in Thread : th[t].pc \in {"relist", "place"} => th[t].order \in booked
      /\ \A i \in booked : i \in OrderId /\ info[i].kind \in {"OPEN", "CLOSE"}
  BY <1>0 DEF Calls, Known
<1>b. ASSUME MockStep, booked' = booked, DOMAIN book' = DOMAIN book
      PROVE  Sells' \subseteq Sells /\ Buys' \subseteq Buys
  BY <1>b, BookKept DEF Sells, Buys
<1>1. CASE UNCHANGED vars
  <2>1. UNCHANGED <<book, booked, th, info, acc>>
    BY <1>1 DEF vars, mock, grid
  <2>. QED
    BY <2>1 DEF InitTodo, Backed, Bounded, Sells, Closers, Buys, Relisters, Unplaced
<1>2. CASE Next /\ Quiet
  <2>1. UNCHANGED <<info, acc, booked>> /\ MockStep
    BY <1>2, BotMockStep DEF Quiet
  <2>2. \A t \in Thread : th'[t].pc \in {"init", "relist", "place"} => th'[t] = th[t]
    BY <1>2 DEF Quiet
  <2>3. Closers' \subseteq Closers /\ Relisters' \subseteq Relisters
    BY <2>1, <2>2 DEF Closers, Relisters
  <2>4. Unplaced' \subseteq Unplaced /\ InitTodo'
    BY <1>0, <2>2 DEF Unplaced, InitTodo
  <2>5. Sells' \subseteq Sells /\ Buys' \subseteq Buys
    BY <1>2, <2>1, BookKept DEF Quiet, Sells, Buys
  <2>. QED
    BY <2>1, <2>3, <2>4, <2>5, NoMore
<1>3. ASSUME NEW l \in Levels, InitOrder(l)
      PROVE  InitTodo' /\ Backed' /\ Bounded'
  <2>1. /\ th[Monitor].pc = "init" /\ l \in th[Monitor].todo /\ PlaceOrder(GridOrder("OPEN", l))
        /\ booked' = booked /\ acc' = acc
        /\ info' = [info EXCEPT ![NextId] = Placed("OPEN", l)]
        /\ th' = [th EXCEPT ![Monitor].todo = @ \ {l}]
    BY <1>3 DEF InitOrder
  <2>2. /\ NextId \notin DOMAIN book /\ DOMAIN book' = DOMAIN book \cup {NextId}
        /\ book'[NextId].type = "LIMIT" /\ book'[NextId].side = "BUY"
        /\ NextId \notin booked /\ \A j \in DOMAIN book : book'[j] = book[j]
    BY <2>1, GridPlaces DEF SideOfKind
  <2>3. /\ th'[Monitor].pc = "init" /\ th'[Monitor].todo = th[Monitor].todo \ {l}
        /\ \A t \in Thread : t # Monitor => th'[t] = th[t]
    BY <1>0, <2>1 DEF ThreadType
  <2>4. Unplaced' = Unplaced \ {l} /\ l \in Unplaced /\ InitTodo'
    BY <2>1, <2>3 DEF Unplaced, InitTodo
  <2>5. Closers' \subseteq Closers /\ Relisters' \subseteq Relisters
    <3>1. \A i \in booked : info'[i] = info[i]
      BY <1>0, <2>1, <2>2
    <3>. QED
      BY <1>k, <2>3, <3>1 DEF Closers, Relisters
  <2>6. Sells' \subseteq Sells /\ Buys' \subseteq Buys \cup {NextId}
    BY <2>1, <2>2 DEF Sells, Buys
  <2>7. /\ Cardinality(Sells') <= Cardinality(Sells) /\ Cardinality(Closers') <= Cardinality(Closers)
        /\ Cardinality(Buys') <= Cardinality(Buys) + 1
        /\ Cardinality(Relisters') <= Cardinality(Relisters)
        /\ Cardinality(Unplaced') + 1 <= Cardinality(Unplaced)
    BY <2>4, <2>5, <2>6, AllFinite, Counting
  <2>8. /\ Cardinality(Sells) \in Nat /\ Cardinality(Closers) \in Nat /\ Cardinality(Buys) \in Nat
        /\ Cardinality(Relisters) \in Nat /\ Cardinality(Unplaced) \in Nat
        /\ Cardinality(Sells') \in Nat /\ Cardinality(Closers') \in Nat /\ Cardinality(Buys') \in Nat
        /\ Cardinality(Relisters') \in Nat /\ Cardinality(Unplaced') \in Nat
        /\ Cardinality(Levels) \in Nat /\ acc.qty \in Int
    BY <2>4, <2>5, <2>6, AllFinite, Counting
  <2>. QED
    BY <2>1, <2>4, <2>7, <2>8 DEF Backed, Bounded
<1>4. ASSUME NEW t \in Thread, OnOrderUpdate(t)
      PROVE  InitTodo' /\ Backed' /\ Bounded'
  <2>. DEFINE i == th[t].order
  <2>0. Returned(t).pc \in {"poll", "idle"} /\ th[t].pc \in InCall
    BY <1>0, <1>4, ReturnedType
       DEF OnOrderUpdate, FetchFill, Section, CheckHalt, PlaceNext, RecordNext, InCall
  <2>u. ASSUME \A u \in Thread : u # t => th'[u] = th[u], th'[t].pc # "init"
        PROVE  Unplaced' \subseteq Unplaced /\ InitTodo'
    BY <1>0, <2>u DEF Unplaced, InitTodo
  <2>k. ASSUME \A u \in Thread : u # t => th'[u] = th[u],
               \A j \in booked : info'[j].kind = info[j].kind
        PROVE  Closers' \subseteq Closers \cup {t} /\ Relisters' \subseteq Relisters \cup {t}
               /\ (th'[t].pc # "place" => Closers' \subseteq Closers \ {t})
               /\ (th'[t].pc \notin {"place", "relist"} => Relisters' \subseteq Relisters \ {t})
    BY <1>k, <2>k DEF Closers, Relisters
  <2>1. CASE Return(t) /\ UNCHANGED <<acc, booked>> /\ MockStep /\ DOMAIN book' = DOMAIN book
             /\ \A j \in booked : info'[j].kind = info[j].kind
    <3>1. th'[t].pc \in {"poll", "idle"} /\ \A u \in Thread : u # t => th'[u] = th[u]
      BY <1>0, <2>0, <2>1 DEF Return
    <3>. QED
      BY <1>b, <2>1, <2>k, <2>u, <3>1, NoMore
  <2>2. CASE FetchFill(t)
    <3>1. /\ th' = [th EXCEPT ![t].pc = "section"]
          /\ UNCHANGED <<mock, info, acc, booked>>
      BY <2>2 DEF FetchFill, GoTo, grid
    <3>2. th'[t].pc = "section" /\ \A u \in Thread : u # t => th'[u] = th[u]
      BY <1>0, <3>1 DEF ThreadType
    <3>3. MockStep /\ DOMAIN book' = DOMAIN book
      BY <3>1 DEF MockStep, mock
    <3>. QED
      BY <1>b, <2>k, <2>u, <3>1, <3>2, <3>3, NoMore
  <2>3. CASE Section(t) /\ booked' = booked
    <3>1. /\ Return(t) /\ acc' = acc /\ UNCHANGED mock
          /\ \A j \in OrderId : info'[j].kind = info[j].kind
      <4>1. CASE ~IsNews(i, th[t].status)
        BY <2>3, <4>1 DEF Section, grid
      <4>2. CASE IsNews(i, th[t].status)
        <5>1. i \in orders /\ i \notin booked /\ i \in OrderId
          BY <1>0, <4>2 DEF IsNews, Known, BotTypes
        <5>2. th[t].status # "FILLED"
          BY <2>3, <4>2, <5>1 DEF Section
        <5>3. /\ info' = [info EXCEPT ![i].status = th[t].status] /\ Return(t) /\ acc' = acc
              /\ UNCHANGED mock
          BY <2>3, <4>2, <5>2 DEF Section
        <5>. QED
          BY <1>0, <5>1, <5>3
      <4>. QED
        BY <4>1, <4>2
    <3>2. MockStep /\ DOMAIN book' = DOMAIN book
      BY <3>1 DEF MockStep, mock
    <3>. QED
      BY <1>0, <2>1, <2>3, <3>1, <3>2
  <2>4. CASE Section(t) /\ booked' # booked
    <3>1. /\ i \in DOMAIN book /\ i \notin booked /\ booked' = booked \cup {i}
          /\ book[i].type = "LIMIT" /\ book[i].side = SideOfKind(info[i].kind)
          /\ info[i].kind \in {"OPEN", "CLOSE"}
          /\ acc' = RecordTrade(acc, book[i].side, book[i].avg, 1)
          /\ th' = [th EXCEPT ![t].pc = IF info[i].kind = "OPEN" THEN "place" ELSE "relist"]
          /\ \A j \in OrderId : info'[j].kind = info[j].kind
          /\ book' = book
      BY <2>4, Books DEF mock
    <3>2. /\ th'[t].pc = IF info[i].kind = "OPEN" THEN "place" ELSE "relist"
          /\ th'[t].order = i /\ \A u \in Thread : u # t => th'[u] = th[u]
      BY <1>0, <3>1 DEF ThreadType
    <3>3. acc'.qty = IF info[i].kind = "OPEN" THEN acc.qty + 1 ELSE acc.qty - 1
      BY <1>0, <3>1 DEF RecordTrade, Signed, SideOfKind, AccountantType
    <3>4. /\ Closers' \subseteq Closers \cup {t} /\ Relisters' \subseteq Relisters \cup {t}
          /\ Unplaced' \subseteq Unplaced /\ InitTodo'
      BY <1>0, <2>k, <2>u, <3>1, <3>2
    <3>5. CASE info[i].kind = "OPEN"
      <4>1. Sells' \subseteq Sells /\ Buys' \subseteq Buys \ {i} /\ i \in Buys
        BY <3>1, <3>5 DEF Sells, Buys, SideOfKind
      <4>2. Relisters' \subseteq Relisters
        BY <1>0, <1>k, <3>1, <3>2, <3>5 DEF Relisters
      <4>3. /\ Cardinality(Sells') <= Cardinality(Sells)
            /\ Cardinality(Closers') <= Cardinality(Closers) + 1
            /\ Cardinality(Buys') + 1 <= Cardinality(Buys)
            /\ Cardinality(Relisters') <= Cardinality(Relisters)
            /\ Cardinality(Unplaced') <= Cardinality(Unplaced)
        BY <3>4, <4>1, <4>2, AllFinite, Counting
      <4>4. /\ Cardinality(Sells) \in Nat /\ Cardinality(Closers) \in Nat /\ Cardinality(Buys) \in Nat
            /\ Cardinality(Relisters) \in Nat /\ Cardinality(Unplaced) \in Nat
            /\ Cardinality(Sells') \in Nat /\ Cardinality(Closers') \in Nat /\ Cardinality(Buys') \in Nat
            /\ Cardinality(Relisters') \in Nat /\ Cardinality(Unplaced') \in Nat
            /\ Cardinality(Levels) \in Nat /\ acc.qty \in Int
        BY <3>4, <4>1, <4>2, AllFinite, Counting
      <4>. QED
        BY <3>3, <3>4, <3>5, <4>3, <4>4 DEF Backed, Bounded
    <3>6. CASE info[i].kind = "CLOSE"
      <4>1. Buys' \subseteq Buys /\ Sells' \subseteq Sells \ {i} /\ i \in Sells
        BY <3>1, <3>6 DEF Sells, Buys, SideOfKind
      <4>2. Closers' \subseteq Closers
        BY <1>0, <1>k, <2>k, <3>1, <3>2, <3>6 DEF Closers
      <4>3. /\ Cardinality(Sells') + 1 <= Cardinality(Sells)
            /\ Cardinality(Closers') <= Cardinality(Closers)
            /\ Cardinality(Buys') <= Cardinality(Buys)
            /\ Cardinality(Relisters') <= Cardinality(Relisters) + 1
            /\ Cardinality(Unplaced') <= Cardinality(Unplaced)
        BY <3>4, <4>1, <4>2, AllFinite, Counting
      <4>4. /\ Cardinality(Sells) \in Nat /\ Cardinality(Closers) \in Nat /\ Cardinality(Buys) \in Nat
            /\ Cardinality(Relisters) \in Nat /\ Cardinality(Unplaced) \in Nat
            /\ Cardinality(Sells') \in Nat /\ Cardinality(Closers') \in Nat /\ Cardinality(Buys') \in Nat
            /\ Cardinality(Relisters') \in Nat /\ Cardinality(Unplaced') \in Nat
            /\ Cardinality(Levels) \in Nat /\ acc.qty \in Int
        BY <3>4, <4>1, <4>2, AllFinite, Counting
      <4>. QED
        BY <3>3, <3>4, <3>6, <4>3, <4>4 DEF Backed, Bounded
    <3>. QED
      BY <3>1, <3>5, <3>6
  <2>5. CASE CheckHalt(t)
    <3>1. /\ th[t].pc = "relist" /\ UNCHANGED <<mock, info, acc, booked>>
          /\ Return(t) \/ th' = [th EXCEPT ![t].pc = "place"]
      BY <2>5 DEF CheckHalt, GoTo, grid
    <3>2. MockStep /\ DOMAIN book' = DOMAIN book
      BY <3>1 DEF MockStep, mock
    <3>3. CASE Return(t)
      BY <2>1, <3>1, <3>2, <3>3
    <3>4. CASE th' = [th EXCEPT ![t].pc = "place"]
      <4>1. /\ th'[t].pc = "place" /\ th'[t].order = i /\ \A u \in Thread : u # t => th'[u] = th[u]
        BY <1>0, <3>4 DEF ThreadType
      <4>2. info[i].kind = "CLOSE"
        BY <3>1 DEF Calls
      <4>3. Closers' \subseteq Closers /\ Relisters' \subseteq Relisters
        BY <3>1, <4>1, <4>2 DEF Closers, Relisters
      <4>. QED
        BY <1>b, <2>u, <3>1, <3>2, <4>1, <4>3, NoMore
    <3>. QED
      BY <3>1, <3>3, <3>4
  <2>6. CASE PlaceNext(t)
    <3>1. th[t].pc = "place" /\ UNCHANGED <<info, acc, booked>> /\ i \in booked
      BY <1>k, <2>6 DEF PlaceNext, grid
    <3>2. CASE NextId \notin OrderId
      <4>1. Return(t) /\ UNCHANGED mock
        BY <2>6, <3>2 DEF PlaceNext
      <4>2. MockStep /\ DOMAIN book' = DOMAIN book
        BY <4>1 DEF MockStep, mock
      <4>. QED
        BY <2>1, <3>1, <4>1, <4>2
    <3>3. CASE NextId \in OrderId
      <4>1. /\ PlaceOrder(GridOrder(NewKind(t), info[i].level))
            /\ th' = [th EXCEPT ![t].pc = "record", ![t].new = NextId]
        BY <2>6, <3>3 DEF PlaceNext
      <4>2. /\ info[i].kind \in {"OPEN", "CLOSE"} /\ i \in OrderId /\ info[i].level \in Levels \cup {0}
            /\ NewKind(t) = IF info[i].kind = "OPEN" THEN "CLOSE" ELSE "OPEN"
        BY <1>0, <1>k, <3>1 DEF NewKind
      <4>3. /\ NextId \notin DOMAIN book /\ DOMAIN book' = DOMAIN book \cup {NextId}
            /\ book'[NextId].type = "LIMIT"
            /\ book'[NextId].side = IF info[i].kind = "OPEN" THEN "SELL" ELSE "BUY"
            /\ \A j \in DOMAIN book : book'[j] = book[j]
        BY <4>1, <4>2, GridPlaces DEF SideOfKind
      <4>4. th'[t].pc = "record" /\ \A u \in Thread : u # t => th'[u] = th[u]
        BY <1>0, <4>1 DEF ThreadType
      <4>5. /\ Closers' \subseteq Closers \ {t} /\ Relisters' \subseteq Relisters \ {t}
            /\ Unplaced' \subseteq Unplaced /\ InitTodo'
        BY <2>k, <2>u, <3>1, <4>4
      <4>6. /\ Cardinality(Sells) \in Nat /\ Cardinality(Closers) \in Nat /\ Cardinality(Buys) \in Nat
            /\ Cardinality(Relisters) \in Nat /\ Cardinality(Unplaced) \in Nat
            /\ Cardinality(Closers') \in Nat /\ Cardinality(Closers') <= Cardinality(Closers)
            /\ Cardinality(Relisters') \in Nat /\ Cardinality(Relisters') <= Cardinality(Relisters)
            /\ Cardinality(Unplaced') \in Nat /\ Cardinality(Unplaced') <= Cardinality(Unplaced)
            /\ Cardinality(Levels) \in Nat /\ acc.qty \in Int
        <5>1. Closers' \subseteq Closers /\ Relisters' \subseteq Relisters
          BY <4>5
        <5>. QED
          BY <4>5, <5>1, AllFinite, Counting
      <4>7. CASE info[i].kind = "OPEN"
        <5>1. Sells' \subseteq Sells \cup {NextId} /\ Buys' \subseteq Buys /\ t \in Closers
          BY <3>1, <4>3, <4>7 DEF Sells, Buys, Closers
        <5>2. /\ Cardinality(Sells') \in Nat /\ Cardinality(Sells') <= Cardinality(Sells) + 1
              /\ Cardinality(Buys') \in Nat /\ Cardinality(Buys') <= Cardinality(Buys)
              /\ Cardinality(Closers') + 1 <= Cardinality(Closers)
          BY <4>5, <5>1, AllFinite, Counting
        <5>. QED
          BY <3>1, <4>5, <4>6, <5>2 DEF Backed, Bounded
      <4>8. CASE info[i].kind = "CLOSE"
        <5>1. Buys' \subseteq Buys \cup {NextId} /\ Sells' \subseteq Sells /\ t \in Relisters
          BY <3>1, <4>3, <4>8 DEF Sells, Buys, Relisters
        <5>2. /\ Cardinality(Buys') \in Nat /\ Cardinality(Buys') <= Cardinality(Buys) + 1
              /\ Cardinality(Sells') \in Nat /\ Cardinality(Sells') <= Cardinality(Sells)
              /\ Cardinality(Relisters') + 1 <= Cardinality(Relisters)
          BY <4>5, <5>1, AllFinite, Counting
        <5>. QED
          BY <3>1, <4>5, <4>6, <5>2 DEF Backed, Bounded
      <4>. QED
        BY <4>2, <4>7, <4>8
    <3>. QED
      BY <3>2, <3>3
  <2>7. CASE RecordNext(t)
    <3>1. /\ th[t].pc = "record" /\ Return(t) /\ UNCHANGED <<mock, acc, booked>>
          /\ info' = [info EXCEPT ![th[t].new] = Placed(NewKind(t), info[i].level)]
      BY <2>7 DEF RecordNext
    <3>2. th[t].new \notin booked
      BY <1>k, <3>1 DEF Calls, Records
    <3>3. \A j \in booked : info'[j].kind = info[j].kind
      BY <1>0, <1>k, <3>1, <3>2
    <3>4. MockStep /\ DOMAIN book' = DOMAIN book
      BY <3>1 DEF MockStep, mock
    <3>. QED
      BY <2>1, <3>1, <3>3, <3>4
  <2>. QED
    BY <1>4, <2>2, <2>3, <2>4, <2>5, <2>6, <2>7 DEF OnOrderUpdate
<1>. QED
  BY <1>1, <1>2, <1>3, <1>4, QuietSteps

(* The units in the initial states: a level each.                          *)
LEMMA UnitsStart ==
  ASSUME Init
  PROVE  GridInv /\ InitTodo /\ Backed /\ Bounded
<1>1. BotInv /\ DOMAIN book = {}
  BY BotStarts, MockStarts DEF Init
<1>2. /\ orders = {} /\ info = [i \in OrderId |-> Untracked] /\ acc = NewAccountant /\ booked = {}
  BY DEF Init
<1>3. \A t \in Thread : th[t].pc = IF t = Monitor THEN "init" ELSE "idle"
  BY DEF Init, Idle
<1>4. Monitor \in Thread /\ th[Monitor].todo = Levels
  BY DEF Init, Idle, Thread
<1>5. Kinds
  BY <1>1 DEF Kinds
<1>6. Known
  BY <1>2 DEF Known, Untracked
<1>7. Calls
  BY <1>3 DEF Calls
<1>8. InitTodo
  BY <1>4 DEF InitTodo
<1>9. Sells = {} /\ Closers = {} /\ Buys = {} /\ Relisters = {} /\ Unplaced = Levels /\ acc.qty = 0
  BY <1>1, <1>2, <1>3, <1>4 DEF Sells, Closers, Buys, Relisters, Unplaced, NewAccountant
<1>10. Cardinality({}) = 0 /\ Cardinality(Levels) \in Nat
  BY <1>1, <1>8, AllFinite, FS_EmptySet, FS_CardinalityType
<1>11. Backed /\ Bounded
  BY <1>9, <1>10 DEF Backed, Bounded
<1>. QED
  BY <1>1, <1>5, <1>6, <1>7, <1>8, <1>11 DEF GridInv

(* The grid never holds more units than it has levels, nor sells one that  *)
(* it does not hold.                                                       *)
LEMMA HeldUnits ==
  ASSUME BotInv, InitTodo, Backed, Bounded
  PROVE  acc.qty \in 0 .. Cardinality(Levels) /\ Cardinality(Sells) \in 0 .. acc.qty
<1>1. /\ Cardinality(Sells) \in Nat /\ Cardinality(Closers) \in Nat /\ Cardinality(Buys) \in Nat
      /\ Cardinality(Relisters) \in Nat /\ Cardinality(Unplaced) \in Nat
      /\ Cardinality(Levels) \in Nat /\ acc.qty \in Int
  BY AllFinite, Counting
<1>. QED
  BY <1>1 DEF Backed, Bounded

(* Everything keeps its type, with any number of orders, ticks, callbacks  *)
(* and levels; above all the accountant's position stays between nothing   *)
(* and a unit for each level, whoever books a fill and whatever is placed  *)
(* for it in the meantime.                                                 *)
THEOREM TypeAlwaysCorrect == Spec => []TypeOK
<1>. DEFINE I == GridInv /\ InitTodo /\ Backed /\ Bounded
<1>1. Init => I
  BY UnitsStart
<1>2. I /\ [Next]_vars => I'
  BY GridInvKept, UnitsKept
<1>3. I => TypeOK
  BY HeldUnits DEF GridInv, BotInv, MockInv, BotTypes, ThreadType, InCall, TypeOK
<1>. QED
  BY <1>1, <1>2, <1>3, PTL DEF Spec

-----------------------------------------------------------------------------
(* Nothing is sold that was not bought.                                    *)

(* The accountant's position is the sum of what was booked.                *)
QtyBooked == acc.qty = SumOf(Moved(MainSide), booked)

(* What is booked is on the grid's side.                                   *)
LEMMA BookedMoves ==
  ASSUME GridInv
  PROVE  /\ booked \subseteq Settled /\ booked \in SUBSET DOMAIN book
         /\ \A i \in booked : book[i].posSide = MainSide
         /\ \A i \in booked : Moved(MainSide)[i] = Signed(book[i].side, book[i].qty)
         /\ Summable(Moved(MainSide), booked)
<1>1. booked \subseteq Settled /\ booked \in SUBSET DOMAIN book
  BY DEF GridInv, BotInv, BotTypes, Known
<1>2. \A i \in booked : i \in DOMAIN book /\ i \in OrderId
  BY <1>1, BookType DEF GridInv, BotInv, MockInv
<1>3. \A i \in booked : book[i].type = "LIMIT"
  BY <1>2 DEF GridInv, Known
<1>4. \A i \in booked : book[i].posSide = MainSide
  BY <1>2, <1>3 DEF GridInv, Kinds, OfTheGrid, NotOfTheGrid
<1>5. Summable(Moved(MainSide), booked)
  BY <1>1, MovedType DEF GridInv, BotInv, MockInv, MainSide, Sides
<1>. QED
  BY <1>1, <1>2, <1>4, <1>5 DEF Moved

(* Without a fill being booked, nothing changes in the books.              *)
LEMMA NothingBooked ==
  ASSUME GridInv, [Next]_vars, booked' = booked
  PROVE  acc' = acc
<1>1. CASE UNCHANGED vars
  BY <1>1 DEF vars, grid
<1>2. ASSUME NEW t \in Thread, Section(t) PROVE acc' = acc
  <2>1. ~ (IsNews(th[t].order, th[t].status) /\ th[t].status = "FILLED")
    <3>1. SUFFICES ASSUME IsNews(th[t].order, th[t].status), th[t].status = "FILLED" PROVE FALSE
      OBVIOUS
    <3>2. th[t].order \in booked' /\ th[t].order \notin booked
      BY <1>2, <3>1 DEF Section, IsNews, GridInv, Known
    <3>. QED
      BY <3>2
  <2>. QED
    BY <1>2, <2>1 DEF Section, grid
<1>3. ASSUME NEW t \in Thread, OnOrderUpdate(t), ~Section(t) PROVE acc' = acc
  BY <1>3 DEF OnOrderUpdate, FetchFill, CheckHalt, PlaceNext, RecordNext, grid
<1>4. ASSUME NEW l \in Levels, InitOrder(l) PROVE acc' = acc
  BY <1>4 DEF InitOrder
<1>. QED
  BY <1>1, <1>2, <1>3, <1>4, QuietSteps DEF Quiet

(* A step that books a fill books one order.                               *)
LEMMA OneBooked ==
  ASSUME GridInv, [Next]_vars, booked' # booked
  PROVE  \E t \in Thread : Section(t)
<1>1. ~ UNCHANGED vars
  BY DEF vars, grid
<1>2. \A l \in Levels : ~ InitOrder(l)
  BY DEF InitOrder
<1>3. PICK t \in Thread : OnOrderUpdate(t)
  BY <1>1, <1>2, QuietSteps DEF Quiet
<1>. QED
  BY <1>3 DEF OnOrderUpdate, FetchFill, CheckHalt, PlaceNext, RecordNext, grid

(* Nothing is booked in the initial states.                                *)
LEMMA BooksStart ==
  ASSUME Init
  PROVE  QtyBooked
BY SumEmpty DEF Init, QtyBooked, NewAccountant

(* RecordTrade keeps the position that sum.                                *)
LEMMA QtyBookedKept ==
  ASSUME GridInv, QtyBooked, [Next]_vars
  PROVE  QtyBooked'
<1>1. /\ booked \in SUBSET DOMAIN book /\ Summable(Moved(MainSide), booked) /\ MockTypeOK
      /\ MockInv /\ MainSide \in Sides
  BY BookedMoves DEF GridInv, BotInv, MockInv, MainSide, Sides
<1>2. CASE booked' = booked
  <2>1. acc' = acc
    BY <1>2, NothingBooked
  <2>2. CASE UNCHANGED vars
    BY <2>2 DEF vars, mock, grid, QtyBooked, Moved
  <2>3. CASE Next
    <3>1. MockStep
      BY <2>3, BotMockStep DEF GridInv
    <3>2. /\ DOMAIN book \subseteq DOMAIN book'
          /\ \A i \in booked : /\ book'[i].posSide = book[i].posSide
                               /\ book'[i].side = book[i].side /\ book'[i].qty = book[i].qty
      BY <1>1, <3>1, BookKept
    <3>3. SumOf(Moved(MainSide)', booked) = SumOf(Moved(MainSide), booked)
      BY <1>1, <3>2, MovedKept
    <3>. QED
      BY <1>2, <2>1, <3>3 DEF QtyBooked, MainSide
  <2>. QED
    BY <2>2, <2>3
<1>3. CASE booked' # booked
  <2>1. PICK t \in Thread : Section(t)
    BY <1>3, OneBooked
  <2>. DEFINE i == th[t].order
  <2>2. /\ i \in DOMAIN book /\ i \notin booked /\ booked' = booked \cup {i}
        /\ book[i].type = "LIMIT" /\ book[i].exec = 1 /\ book[i].qty = 1
        /\ acc' = RecordTrade(acc, book[i].side, book[i].avg, 1)
        /\ book' = book
    BY <1>3, <2>1, Books DEF mock
  <2>3. book[i].posSide = MainSide
    BY <2>2 DEF GridInv, Kinds, OfTheGrid, NotOfTheGrid
  <2>4. Moved(MainSide)[i] = Signed(book[i].side, 1) /\ Moved(MainSide)' = Moved(MainSide)
    BY <2>2, <2>3 DEF Moved, MainSide
  <2>5. acc'.qty = acc.qty + Signed(book[i].side, 1)
    BY <2>2 DEF RecordTrade
  <2>. HIDE DEF i
  <2>6. booked' \in SUBSET DOMAIN book /\ booked' \ {i} = booked
    BY <1>1, <2>2
  <2>7. Summable(Moved(MainSide), booked')
    BY <1>1, <2>6, MovedType
  <2>8. SumOf(Moved(MainSide), booked') = SumOf(Moved(MainSide), booked) + Moved(MainSide)[i]
    BY <2>2, <2>6, <2>7, SumAdd
  <2>. QED
    BY <2>4, <2>5, <2>8 DEF QtyBooked, MainSide
<1>. QED
  BY <1>2, <1>3

(* What the exchange settled and the strategy has not booked yet is at     *)
(* worst a sale of what the accountant holds.                              *)
LEMMA MainNotShort ==
  ASSUME GridInv, InitTodo, Backed, Bounded, QtyBooked, Balanced, closing = "no"
  PROVE  pos[MainSide] >= 0
<1>1. /\ booked \subseteq Settled /\ booked \in SUBSET DOMAIN book /\ MockTypeOK /\ MainSide \in Sides
      /\ Settled \in SUBSET DOMAIN book
  BY BookedMoves DEF GridInv, BotInv, MockInv, MainSide, Sides, Settled
<1>. DEFINE g == Moved(MainSide)
            rest == Settled \ booked
            sold == rest \cap Sells
<1>2. Summable(g, Settled) /\ Summable(g, rest) /\ Summable(g, sold) /\ Summable(g, rest \ sold)
  BY <1>1, MovedType
<1>3. \A i \in rest : g[i] = IF i \in Sells THEN -1 ELSE IF book[i].posSide = MainSide THEN 1 ELSE 0
  <2>. SUFFICES ASSUME NEW i \in rest
                PROVE  g[i] = IF i \in Sells THEN -1 ELSE IF book[i].posSide = MainSide THEN 1 ELSE 0
    OBVIOUS
  <2>1. i \in DOMAIN book /\ i \notin booked /\ book[i] \in MockOrder
    BY <1>1, BookType
  <2>2. OfTheGrid(book[i]) \/ NotOfTheGrid(book[i])
    BY <2>1 DEF GridInv, Kinds
  <2>3. book[i].side \in {"BUY", "SELL"}
    BY <2>1 DEF MockOrder
  <2>. QED
    BY <2>1, <2>2, <2>3 DEF Moved, Sells, OfTheGrid, NotOfTheGrid, Signed
<1>4. pos[MainSide] = SumOf(g, Settled)
  BY <1>1 DEF Balanced
<1>. HIDE DEF g
<1>5. SumOf(g, Settled) = SumOf(g, booked) + SumOf(g, rest)
  BY <1>1, <1>2, SumSplit
<1>6. SumOf(g, rest) = SumOf(g, sold) + SumOf(g, rest \ sold)
  BY <1>2, SumSplit
<1>7. SumOf(g, sold) >= (-1) * Cardinality(sold)
  BY <1>2, <1>3, SumAtLeast
<1>8. SumOf(g, rest \ sold) >= 0 * Cardinality(rest \ sold)
  BY <1>2, <1>3, SumAtLeast
<1>9. SumOf(g, booked) = acc.qty
  BY DEF QtyBooked, g
<1>10. Cardinality(sold) \in Nat /\ Cardinality(sold) <= Cardinality(Sells) /\ Cardinality(Sells) <= acc.qty
       /\ Cardinality(Sells) \in Nat /\ acc.qty \in Int /\ Cardinality(rest \ sold) \in Nat
  <2>1. IsFiniteSet(Sells) /\ IsFiniteSet(rest \ sold)
    BY <1>2, AllFinite DEF GridInv, Summable
  <2>2. sold \subseteq Sells
    OBVIOUS
  <2>3. Cardinality(Sells) \in 0 .. acc.qty /\ acc.qty \in Int
    BY HeldUnits DEF GridInv
  <2>. QED
    BY <2>1, <2>2, <2>3, Counting, FS_CardinalityType
<1>11. SumOf(g, sold) \in Int /\ SumOf(g, rest \ sold) \in Int /\ SumOf(g, rest) \in Int
  BY <1>2, SumType
<1>12. 0 * Cardinality(rest \ sold) = 0 /\ (-1) * Cardinality(sold) = -Cardinality(sold)
  BY <1>10
<1>. HIDE DEF sold, rest
<1>. QED
  BY <1>4, <1>5, <1>6, <1>7, <1>8, <1>9, <1>10, <1>11, <1>12

-----------------------------------------------------------------------------
(* The hedge is never long.                                                *)

(* The orders that have not moved the position yet, and where the hedge's  *)
(* will be when they have.                                                 *)
Pending == DOMAIN book \ Settled
Owed == pos[HedgeSide] + SumOf(Moved(HedgeSide), Pending)

(* No market order is ever cancelled, and every tick fills all that there  *)
(* are.                                                                    *)
AllFill ==
  \A i \in Pending : book[i].type = "MARKET" =>
    i \in resting /\ (LockFree \/ i \in {sim.cur} \cup sim.todo \cup ToSet(sim.done))

(* No order names its side in small letters: the one that would is the one *)
(* that liquidates.  And only what shall reduce the hedge buys it back.    *)
NeverLong == \A i \in DOMAIN book : book[i].posSide # "long"
ReduceBuys == \A i \in DOMAIN book :
  book[i].posSide = HedgeSide /\ book[i].side = "BUY" => book[i].reduce

HedgeOrders == AllFill /\ NeverLong /\ ReduceBuys

(* These are numbers.                                                      *)
LEMMA OwedType ==
  ASSUME MockTypeOK
  PROVE  /\ HedgeSide \in Sides /\ pos[HedgeSide] \in Int
         /\ SumOf(Moved(HedgeSide), Pending) \in Int /\ Owed \in Int
         /\ Pending \in SUBSET DOMAIN book
<1>1. HedgeSide \in Sides /\ pos[HedgeSide] \in Int /\ Pending \in SUBSET DOMAIN book
  BY DEF HedgeSide, Sides, MockTypeOK, Pending
<1>2. SumOf(Moved(HedgeSide), Pending) \in Int
  BY <1>1, MovedType, SumType
<1>. QED
  BY <1>1, <1>2 DEF Owed

(* The kinds of order the bot may place.                                   *)
Placeable(o) ==
  o \in NewOrder /\ o.posSide # "long" /\ (o.posSide = HedgeSide /\ o.side = "BUY" => o.reduce)

(* That every order still moves the hedge by what it did before.           *)
SameMoves == \A i \in DOMAIN book : i \in DOMAIN book' /\ Moved(HedgeSide)'[i] = Moved(HedgeSide)[i]

(* No step of the exchange changes what an order moves.                    *)
LEMMA MovesKept ==
  ASSUME MockInv, MockStep
  PROVE  SameMoves
BY BookKept DEF SameMoves, Moved, HedgeSide

(* A sum of moves that stay the same.                                      *)
LEMMA SumsKept ==
  ASSUME MockInv, SameMoves, NEW T \in SUBSET DOMAIN book
  PROVE  SumOf(Moved(HedgeSide)', T) = SumOf(Moved(HedgeSide), T)
<1>1. HedgeSide \in Sides
  BY DEF HedgeSide, Sides
<1>2. Summable(Moved(HedgeSide), T) /\ \A i \in T : Moved(HedgeSide)[i] = Moved(HedgeSide)'[i]
  BY <1>1, MovedType DEF SameMoves, MockInv
<1>3. PICK g, h : g = Moved(HedgeSide) /\ h = Moved(HedgeSide)'
  OBVIOUS
<1>4. SumOf(g, T) = SumOf(h, T)
  BY <1>2, <1>3, SumSame
<1>. QED
  BY <1>3, <1>4

(* The orders of the book keep to their side.                              *)
LEMMA SidesKept ==
  ASSUME MockInv, HedgeOrders, MockStep, DOMAIN book' = DOMAIN book
  PROVE  NeverLong' /\ ReduceBuys'
BY BookKept DEF HedgeOrders, NeverLong, ReduceBuys, HedgeSide

(* Most steps of the exchange settle nothing.                              *)
LEMMA StillPending ==
  ASSUME MockInv, HedgeOrders,
         \/ UNCHANGED mock
         \/ \E i \in OrderId : CancelOrder(i) /\ book[i].type = "LIMIT"
         \/ BeginTick
         \/ WriteOrder /\ sim.todo # {}
  PROVE  HedgeOrders' /\ Pending' = Pending /\ pos' = pos /\ Owed' = Owed
<1>. USE DEF MockInv
<1>1. MockStep /\ DOMAIN book' = DOMAIN book
  BY NothingPlaced DEF MockStep
<1>2. pos' = pos /\ Pending' = Pending /\ AllFill'
  <2>1. CASE UNCHANGED mock
    BY <2>1 DEF mock, Pending, Settled, AllFill, LockFree, HedgeOrders
  <2>2. ASSUME NEW i \in OrderId, CancelOrder(i), book[i].type = "LIMIT"
        PROVE  pos' = pos /\ Pending' = Pending /\ AllFill'
    <3>1. /\ LockFree /\ sim' = sim /\ sim = Waiting /\ i \in resting /\ i \in DOMAIN book
          /\ DOMAIN book' = DOMAIN book /\ book'[i] = [book[i] EXCEPT !.status = "CANCELED"]
          /\ \A j \in DOMAIN book : j # i => book'[j] = book[j]
          /\ resting' = resting \ {i} /\ pos' = pos
      BY <2>2, CancelOrderMock DEF MockTypeOK, CancelOrder
    <3>2. book[i].status = "NEW" /\ book[i] \in MockOrder
      BY <3>1, BookType, NothingDone DEF Statuses
    <3>3. book'[i].status = "CANCELED" /\ book'[i].type = "LIMIT"
      BY <2>2, <3>1, <3>2 DEF MockOrder
    <3>. QED
      BY <3>1, <3>2, <3>3, NothingDone DEF Pending, Settled, AllFill, LockFree, HedgeOrders
  <2>3. CASE BeginTick
    <3>1. book' = book /\ LockFree /\ resting' = resting /\ pos' = pos
          /\ ToSet(sim'.done) = {} /\ ToSet(sim.done) = {}
      BY <2>3, BeginTickMock, NothingDone DEF BeginTick
    <3>2. PICK p \in NextPrices :
            LET matched == {i \in resting : Matches(book[i], p)} IN
            sim' \in IF matched = {} THEN {Waiting} ELSE Fill(matched, <<>>)
      BY <2>3 DEF BeginTick
    <3>3. ASSUME sim'.cur # 0, NEW i \in resting, book[i].type = "MARKET"
          PROVE  i \in {sim'.cur} \cup sim'.todo
      <4>1. Matches(book[i], p)
        BY <3>3 DEF Matches
      <4>. QED
        BY <3>2, <3>3, <4>1 DEF Fill, Waiting
    <3>4. Pending' = Pending
      BY <3>1 DEF Pending, Settled
    <3>. QED
      BY <3>1, <3>3, <3>4 DEF AllFill, LockFree, HedgeOrders
  <2>4. CASE WriteOrder /\ sim.todo # {}
    <3>. DEFINE c == sim.cur
    <3>1. /\ c \in resting /\ c \in DOMAIN book /\ DOMAIN book' = DOMAIN book
          /\ book'[c] = Filled(book[c], price)
          /\ \A i \in DOMAIN book : i # c => book'[i] = book[i]
          /\ ToSet(sim'.done) = ToSet(sim.done) \cup {c}
          /\ UNCHANGED <<resting, pos>> /\ c \notin ToSet(sim.done)
      BY <2>4, WriteOrderMock DEF Ticking
    <3>2. book[c].status = "NEW" /\ book[c] \in MockOrder
      BY <3>1, BookType DEF Statuses
    <3>3. Settled' = Settled
      BY <3>1, <3>2 DEF Settled
    <3>4. book'[c].type = book[c].type
      BY <3>1, <3>2 DEF Filled, MockOrder
    <3>5. {sim'.cur} \cup sim'.todo = sim.todo
      BY <2>4 DEF WriteOrder, Fill
    <3>6. ~LockFree
      BY <2>4 DEF WriteOrder
    <3>. QED
      BY <3>1, <3>3, <3>4, <3>5, <3>6 DEF Pending, AllFill, HedgeOrders
  <2>. QED
    BY <2>1, <2>2, <2>3, <2>4
<1>3. SumOf(Moved(HedgeSide)', Pending) = SumOf(Moved(HedgeSide), Pending)
  BY <1>1, MovesKept, SumsKept, OwedType
<1>4. Owed' = Owed
  BY <1>2, <1>3 DEF Owed, HedgeSide
<1>. QED
  BY <1>1, <1>2, <1>4, SidesKept DEF HedgeOrders

(* The end of a tick settles everything the hedge has pending.             *)
LEMMA TickPays ==
  ASSUME MockInv, Kinds, HedgeOrders, WriteOrder, sim.todo = {}
  PROVE  /\ HedgeOrders' /\ Pending' \subseteq Pending
         /\ pos'[HedgeSide] = Owed /\ Owed' = Owed
<1>. USE DEF MockInv
<1>. DEFINE c == sim.cur
            now == ToSet(sim.done) \cup {c}
            g == Moved(HedgeSide)
<1>1. MockStep /\ DOMAIN book' = DOMAIN book /\ HedgeSide \in Sides
  BY NothingPlaced DEF MockStep, HedgeSide, Sides
<1>2. /\ c \in resting /\ c \in DOMAIN book /\ ~LockFree /\ sim' = Waiting
      /\ book'[c] = Filled(book[c], price)
      /\ \A i \in DOMAIN book : i # c => book'[i] = book[i]
      /\ c \notin ToSet(sim.done) /\ ToSet(sim.done) \subseteq DOMAIN book
  BY WriteOrderMock, BookType DEF Ticking
<1>3. book[c].status = "NEW" /\ book[c] \in MockOrder
  BY <1>2, BookType DEF Statuses
<1>4. book'[c].status = "FILLED" /\ book'[c].type = book[c].type
  BY <1>2, <1>3 DEF Filled, MockOrder
<1>5. ToSet(Append(sim.done, c)) = now
  <2>1. sim.done \in Seq(DOMAIN book)
    BY BookType
  <2>. QED
    BY <1>2, <2>1, Appended
<1>6. \A i \in now : book[i].posSide # "long" /\ i \in DOMAIN book /\ book'[i].status = "FILLED"
  BY <1>2, <1>4 DEF HedgeOrders, NeverLong, Statuses
<1>7. pos'[HedgeSide] = pos[HedgeSide] + SumOf(g, now)
  <2>. DEFINE done == Append(sim.done, c)
  <2>1. pos' = FoldLeft(LAMBDA positions, i : Settle(positions, book[i]), pos, done)
    BY WriteOrderMock
  <2>2. \A i \in ToSet(done) : book[i].posSide # "long"
    BY <1>5, <1>6
  <2>3. FoldLeft(LAMBDA positions, i : Settle(positions, book[i]), pos, done)[HedgeSide]
          = pos[HedgeSide] + SumOf(g, ToSet(done))
    BY <1>1, <1>2, <2>2, TickSettles
  <2>. QED
    BY <1>5, <2>1, <2>3
<1>8. now \in SUBSET Pending /\ Pending' = Pending \ now
  <2>1. ToSet(sim'.done) = {}
    BY <1>2, NothingDone
  <2>2. now \in SUBSET Pending
    BY <1>2, <1>3 DEF Pending, Settled
  <2>. QED
    BY <1>1, <1>2, <1>4, <1>6, <2>1, <2>2 DEF Pending, Settled
<1>9. \A i \in Pending' : book[i].type # "MARKET" /\ book'[i].type = book[i].type
  BY <1>2, <1>4, <1>8 DEF HedgeOrders, AllFill, Pending
<1>10. AllFill'
  BY <1>9 DEF AllFill
<1>11. \A i \in Pending' : g[i] = 0
  <2>. SUFFICES ASSUME NEW i \in Pending' PROVE g[i] = 0
    OBVIOUS
  <2>1. i \in DOMAIN book /\ book[i].type # "MARKET"
    BY <1>8, <1>9 DEF Pending
  <2>2. book[i].posSide = MainSide
    BY <2>1 DEF Kinds, OfTheGrid, NotOfTheGrid
  <2>. QED
    BY <2>1, <2>2 DEF Moved, MainSide, HedgeSide
<1>12. Summable(g, Pending) /\ Summable(g, Pending') /\ SumOf(g, {}) = 0
       /\ {} \in SUBSET Pending' /\ Pending' \in SUBSET DOMAIN book
  BY <1>1, <1>8, MovedType, OwedType, SumEmpty
<1>13. SumOf(Moved(HedgeSide)', Pending') = SumOf(g, Pending')
  BY <1>1, <1>12, MovesKept, SumsKept
<1>. HIDE DEF g, now
<1>14. SumOf(g, Pending') = 0 /\ SumOf(g, Pending) = SumOf(g, now)
  <2>1. SumOf(g, Pending') = SumOf(g, {})
    BY <1>11, <1>12, SumSkips
  <2>2. SumOf(g, Pending) = SumOf(g, now)
    BY <1>8, <1>11, <1>12, SumSkips
  <2>. QED
    BY <1>12, <2>1, <2>2
<1>15. pos'[HedgeSide] = Owed
  BY <1>7, <1>14 DEF Owed, g
<1>16. Owed' = Owed
  <2>1. Owed \in Int
    BY OwedType
  <2>. QED
    BY <1>13, <1>14, <1>15, <2>1 DEF Owed, HedgeSide
<1>. QED
  BY <1>1, <1>8, <1>10, <1>15, <1>16, SidesKept DEF HedgeOrders

(* An order placed is one more that is pending.                            *)
LEMMA PlacedPends ==
  ASSUME MockInv, HedgeOrders, NEW o, Placeable(o), PlaceOrder(o)
  PROVE  /\ HedgeOrders' /\ Pending' = Pending \cup {NextId} /\ pos' = pos
         /\ SameMoves /\ NextId \notin DOMAIN book
         /\ Moved(HedgeSide)'[NextId] = IF o.posSide = HedgeSide THEN Signed(o.side, o.qty) ELSE 0
         /\ Owed' = Owed + IF o.posSide = HedgeSide THEN Signed(o.side, o.qty) ELSE 0
<1>. USE DEF MockInv
<1>1. o \in NewOrder /\ MockStep
  BY DEF Placeable, MockStep
<1>2. /\ MockInv' /\ LockFree /\ sim = Waiting /\ NextId \in OrderId
      /\ NextId \notin DOMAIN book /\ DOMAIN book' = DOMAIN book \cup {NextId}
      /\ book'[NextId] = o /\ \A i \in DOMAIN book : book'[i] = book[i]
  BY <1>1, PlaceOrderMock
<1>3. sim' = sim /\ pos' = pos /\ resting' = resting \cup {NextId} /\ o.status = "NEW"
  BY <1>1 DEF PlaceOrder, NewOrder
<1>4. Pending' = Pending \cup {NextId} /\ Pending \in SUBSET DOMAIN book
  BY <1>2, <1>3 DEF Pending, Settled
<1>5. SameMoves
  BY <1>1, MovesKept
<1>6. HedgeOrders'
  BY <1>2, <1>3, <1>4
     DEF HedgeOrders, AllFill, NeverLong, ReduceBuys, Placeable, LockFree, HedgeSide
<1>. DEFINE g == Moved(HedgeSide)
            h == Moved(HedgeSide)'
            now == Pending \cup {NextId}
<1>7. h[NextId] = IF o.posSide = HedgeSide THEN Signed(o.side, o.qty) ELSE 0
  BY <1>2 DEF Moved, HedgeSide
<1>8. Summable(h, now)
  <2>1. IsFiniteSet(Pending) /\ \A i \in Pending : g[i] \in Int
    BY <1>4, OwedType, MovedType DEF Summable
  <2>2. IsFiniteSet(now)
    BY <2>1, FS_AddElement
  <2>3. h[NextId] \in Int
    BY <1>1, <1>7 DEF NewOrder, MockOrder, Signed
  <2>4. \A i \in Pending : h[i] = g[i]
    BY <1>4, <1>5 DEF SameMoves
  <2>. HIDE DEF g, h
  <2>. QED
    BY <2>1, <2>2, <2>3, <2>4 DEF Summable
<1>9. SumOf(h, Pending) = SumOf(g, Pending)
  BY <1>4, <1>5, SumsKept
<1>10. now \ {NextId} = Pending
  BY <1>2, <1>4
<1>. HIDE DEF g, h, now
<1>11. SumOf(h, now) = SumOf(h, Pending) + h[NextId]
  <2>1. NextId \in now
    BY DEF now
  <2>. QED
    BY <1>8, <1>10, <2>1, SumAdd
<1>12. Owed' = Owed + h[NextId]
  <2>1. Owed' = pos'[HedgeSide] + SumOf(h, now)
    BY <1>4 DEF Owed, h, now, HedgeSide
  <2>2. Owed = pos[HedgeSide] + SumOf(g, Pending)
    BY DEF Owed, g
  <2>3. pos[HedgeSide] \in Int /\ SumOf(g, Pending) \in Int /\ h[NextId] \in Int
    BY <1>8, OwedType DEF g, now, Summable
  <2>. QED
    BY <1>3, <1>9, <1>11, <2>1, <2>2, <2>3
<1>13. Moved(HedgeSide)'[NextId] = h[NextId]
  BY DEF h
<1>. QED
  BY <1>2, <1>3, <1>4, <1>5, <1>6, <1>7, <1>12, <1>13

(* What only sells makes no positive sum.                                  *)
LEMMA PendingSells ==
  ASSUME MockTypeOK, NEW T \in SUBSET DOMAIN book, \A i \in T : Moved(HedgeSide)[i] <= 0
  PROVE  SumOf(Moved(HedgeSide), T) \in Int /\ SumOf(Moved(HedgeSide), T) <= 0
<1>. DEFINE g == Moved(HedgeSide)
            none == [i \in T |-> 0]
<1>1. Summable(g, T)
  BY MovedType DEF HedgeSide, Sides
<1>2. Summable(none, T) /\ \A i \in T : none[i] = 0
  BY <1>1 DEF Summable
<1>. HIDE DEF g, none
<1>3. \A i \in T : 2 * g[i] <= 2 * none[i] + 0
  BY <1>1, <1>2 DEF Summable, g
<1>4. 2 * SumOf(g, T) <= 2 * SumOf(none, T) + 0 * Cardinality(T)
  BY <1>1, <1>2, <1>3, SumBound
<1>5. SumOf(none, T) = 0
  <2>1. {} \in SUBSET T /\ SumOf(none, {}) = 0
    BY SumEmpty
  <2>. QED
    BY <1>2, <2>1, SumSkips
<1>6. SumOf(g, T) \in Int /\ Cardinality(T) \in Nat
  BY <1>1, SumType, FS_CardinalityType DEF Summable
<1>. QED
  BY <1>4, <1>5, <1>6 DEF g

(* The liquidation settles what is bought back and zeroes the position, so *)
(* that only sales are left pending.                                       *)
LEMMA LiquidateLeaves ==
  ASSUME MockInv, Kinds, HedgeOrders, Liquidate
  PROVE  /\ HedgeOrders' /\ pos'[HedgeSide] = 0 /\ Owed' <= 0
         /\ \A i \in Pending' : Moved(HedgeSide)'[i] <= 0
<1>. USE DEF MockInv
<1>1. MockStep /\ DOMAIN book' = DOMAIN book /\ HedgeSide \in Sides
  BY NothingPlaced DEF MockStep, HedgeSide, Sides
<1>2. /\ MockInv' /\ LockFree /\ sim = Waiting
      /\ \A i \in DOMAIN book :
           book'[i] = IF i \in ForceSettled THEN Filled(book[i], price) ELSE book[i]
  BY LiquidateMock
<1>3. /\ sim' = sim /\ pos'[HedgeSide] = 0 /\ resting' = resting \ ForceSettled
      /\ ToSet(sim'.done) = {}
  BY <1>1, <1>2, NothingDone DEF Liquidate, LeftOpen
<1>4. \A i \in ForceSettled : i \in DOMAIN book /\ book'[i].status = "FILLED"
  <2>1. \A i \in ForceSettled : i \in DOMAIN book /\ book[i] \in MockOrder
    BY BookType DEF ForceSettled, MockTypeOK
  <2>2. \A o \in MockOrder : Filled(o, price).status = "FILLED"
    BY DEF Filled, MockOrder
  <2>. QED
    BY <1>2, <2>1, <2>2
<1>5. \A i \in Pending' : i \in Pending /\ i \notin ForceSettled /\ book'[i] = book[i]
  BY <1>1, <1>2, <1>3, <1>4, NothingDone DEF Pending, Settled
<1>6. AllFill'
  BY <1>2, <1>3, <1>5 DEF AllFill, HedgeOrders, LockFree
<1>7. \A i \in Pending' : Moved(HedgeSide)[i] <= 0
  <2>. SUFFICES ASSUME NEW i \in Pending' PROVE Moved(HedgeSide)[i] <= 0
    OBVIOUS
  <2>1. i \in Pending /\ i \in DOMAIN book /\ book[i] \in MockOrder /\ i \notin ForceSettled
    BY <1>5, BookType DEF Pending
  <2>2. book[i].posSide = HedgeSide => book[i].type = "MARKET"
    BY <2>1 DEF Kinds, OfTheGrid, NotOfTheGrid, MainSide, HedgeSide
  <2>3. book[i].posSide = HedgeSide => book[i].side # "BUY"
    BY <2>1, <2>2 DEF HedgeOrders, AllFill, ReduceBuys, ForceSettled
  <2>4. book[i].side \in {"BUY", "SELL"} /\ book[i].qty \in Nat
    BY <2>1 DEF MockOrder
  <2>. QED
    BY <2>1, <2>3, <2>4 DEF Moved, Signed
<1>8. SumOf(Moved(HedgeSide), Pending') <= 0
  BY <1>1, <1>5, <1>7, PendingSells DEF Pending
<1>9. SumOf(Moved(HedgeSide)', Pending') = SumOf(Moved(HedgeSide), Pending')
  <2>1. Pending' \in SUBSET DOMAIN book
    BY <1>5 DEF Pending
  <2>. QED
    BY <1>1, <2>1, MovesKept, SumsKept
<1>10. \A i \in Pending' : Moved(HedgeSide)'[i] <= 0
  BY <1>1, <1>5, <1>7, MovesKept DEF SameMoves, Pending
<1>11. Owed' <= 0
  <2>1. SumOf(Moved(HedgeSide), Pending') \in Int
    BY <1>1, <1>5, MovedType, SumType DEF Pending
  <2>. QED
    BY <1>3, <1>8, <1>9, <2>1 DEF Owed, HedgeSide
<1>. QED
  BY <1>1, <1>3, <1>6, <1>10, <1>11, SidesKept DEF HedgeOrders

(* Where the monitor is when it liquidates or has stopped.                 *)
Stopping == {"readMain", "sellMain", "readHedge", "buyHedge", "stop", "idle"}

(* Only the stress test liquidates; and the halt cancels limit orders.     *)
StressOnly == th[Monitor].pc \in {"readMain", "sellMain"} => mode = "bhls_stress_test"
HaltTodo == th[Monitor].pc = "halt" =>
  \A i \in th[Monitor].todo : i \in DOMAIN book /\ book[i].type = "LIMIT"

(* A step that has nothing to do with hedges and liquidation.              *)
Aside ==
  /\ UNCHANGED risk
  /\ \/ UNCHANGED mock
     \/ \E o \in NewOrder : OfTheGrid(o) /\ PlaceOrder(o)
     \/ \E i \in OrderId : CancelOrder(i) /\ book[i].type = "LIMIT"
     \/ BeginTick
     \/ WriteOrder
  /\ \/ th'[Monitor] = th[Monitor]
     \/ /\ th[Monitor].pc \notin Stopping /\ th'[Monitor].pc \notin Stopping
        /\ th'[Monitor].pc = "halt" =>
             \A i \in th'[Monitor].todo : i \in DOMAIN book /\ book[i].type = "LIMIT"

(* The order placed for a grid level.                                      *)
LEMMA GridPlaceable ==
  \A k \in {"NONE", "OPEN", "CLOSE"}, l \in Levels \cup {0} :
    GridOrder(k, l) \in NewOrder /\ OfTheGrid(GridOrder(k, l))
BY OrderTypes DEF GridOrder, Limit, OfTheGrid, MainSide

(* What OnOrderUpdate does.                                                *)
LEMMA CallsAside ==
  ASSUME GridInv, NEW t \in Thread, OnOrderUpdate(t)
  PROVE  Aside
<1>. USE DEF GridInv, BotInv
<1>1. th \in [Thread -> ThreadType] /\ Monitor \in Thread /\ th[t] \in ThreadType /\ MockTypeOK
  BY DEF BotTypes, MockInv, Thread
<1>2. UNCHANGED risk
  BY DEF OnOrderUpdate, FetchFill, Section, CheckHalt, PlaceNext, RecordNext
<1>3. UNCHANGED mock \/ \E o \in NewOrder : OfTheGrid(o) /\ PlaceOrder(o)
  <2>1. CASE PlaceNext(t) /\ NextId \in OrderId
    <3>1. PlaceOrder(GridOrder(NewKind(t), info[th[t].order].level)) /\ th[t].order \in OrderId
      BY <1>1, <2>1, BookType DEF PlaceNext, Aimed
    <3>2. NewKind(t) \in {"NONE", "OPEN", "CLOSE"} /\ info[th[t].order].level \in Levels \cup {0}
      BY <3>1 DEF BotTypes, NewKind
    <3>. QED
      BY <3>1, <3>2, GridPlaceable
  <2>2. CASE ~ (PlaceNext(t) /\ NextId \in OrderId)
    BY <2>2 DEF OnOrderUpdate, FetchFill, Section, CheckHalt, PlaceNext, RecordNext
  <2>. QED
    BY <2>1, <2>2
<1>4. th[t].pc \in InCall
  BY DEF OnOrderUpdate, FetchFill, Section, CheckHalt, PlaceNext, RecordNext, InCall
<1>5. \E g : /\ th' = [th EXCEPT ![t] = g]
             /\ t = Monitor => g.pc \in InCall \cup {"poll"}
  <2>1. \A label : [th[t] EXCEPT !.pc = label].pc = label
    BY <1>1 DEF ThreadType
  <2>2. Returned(t).pc = IF t = Monitor THEN "poll" ELSE "idle"
    BY <1>1, ReturnedType
  <2>r. Return(t) => \E g : /\ th' = [th EXCEPT ![t] = g]
                            /\ t = Monitor => g.pc \in InCall \cup {"poll"}
    BY <2>2 DEF Return
  <2>g. ASSUME NEW label \in InCall, GoTo(t, label)
        PROVE  \E g : /\ th' = [th EXCEPT ![t] = g]
                      /\ t = Monitor => g.pc \in InCall \cup {"poll"}
    BY <2>1, <2>g DEF GoTo
  <2>3. CASE FetchFill(t) \/ Section(t) \/ CheckHalt(t)
    BY <2>3, <2>r, <2>g DEF FetchFill, Section, CheckHalt, InCall
  <2>4. CASE PlaceNext(t)
    <3>1. CASE NextId \notin OrderId
      BY <2>4, <2>r, <3>1 DEF PlaceNext
    <3>2. CASE NextId \in OrderId
      <4>1. th' = [th EXCEPT ![t].pc = "record", ![t].new = NextId]
        BY <2>4, <3>2 DEF PlaceNext
      <4>2. [th[t] EXCEPT !.pc = "record", !.new = NextId].pc = "record"
        BY <1>1 DEF ThreadType
      <4>. QED
        BY <4>1, <4>2 DEF InCall
    <3>. QED
      BY <3>1, <3>2
  <2>5. CASE RecordNext(t)
    BY <2>5, <2>r DEF RecordNext
  <2>. QED
    BY <2>3, <2>4, <2>5 DEF OnOrderUpdate
<1>6. \/ th'[Monitor] = th[Monitor]
      \/ th[Monitor].pc \in InCall /\ th'[Monitor].pc \in InCall \cup {"poll"}
  BY <1>1, <1>4, <1>5
<1>. QED
  BY <1>2, <1>3, <1>6 DEF Aside, InCall, Stopping

(* Every step is of that kind, or opens or closes a hedge, or is one of    *)
(* the liquidation.                                                        *)
LEMMA AsideSteps ==
  ASSUME GridInv, HaltTodo, Next
  PROVE  Aside \/ OpenHedge \/ CloseHedge \/ LiquidateAndStop
<1>. USE DEF GridInv, BotInv
<1>1. /\ Monitor \in Thread /\ Monitor \notin OrderId /\ OrderId \subseteq Thread
      /\ th \in [Thread -> ThreadType] /\ MockTypeOK /\ th[Monitor] \in ThreadType
  BY MockAssumption DEF Thread, Monitor, OrderId, BotTypes, MockInv
<1>2. ASSUME NEW l \in Levels, InitOrder(l) PROVE Aside
  <2>1. /\ th[Monitor].pc = "init" /\ PlaceOrder(GridOrder("OPEN", l)) /\ UNCHANGED risk
        /\ th' = [th EXCEPT ![Monitor].todo = @ \ {l}]
    BY <1>2 DEF InitOrder
  <2>2. th'[Monitor].pc = "init"
    BY <1>1, <2>1 DEF ThreadType
  <2>3. \E o \in NewOrder : OfTheGrid(o) /\ PlaceOrder(o)
    BY <2>1, GridPlaceable
  <2>. QED
    BY <2>1, <2>2, <2>3 DEF Aside, Stopping
<1>3. CASE EndInit \/ EndHalt
  <2>1. /\ th[Monitor].pc \in {"init", "halt"} /\ th' = [th EXCEPT ![Monitor].pc = "risk"]
        /\ UNCHANGED risk /\ UNCHANGED mock
    BY <1>3 DEF EndInit, EndHalt, GoTo
  <2>2. th'[Monitor].pc = "risk"
    BY <1>1, <2>1 DEF ThreadType
  <2>. QED
    BY <2>1, <2>2 DEF Aside, Stopping
<1>4. CASE BeginHalt
  <2>1. /\ th[Monitor].pc = "risk" /\ UNCHANGED risk /\ UNCHANGED mock
        /\ th' = [th EXCEPT ![Monitor].pc = "halt",
                            ![Monitor].todo = {i \in orders : info[i].kind = "OPEN"}]
    BY <1>4 DEF BeginHalt, AtRisk
  <2>2. th'[Monitor].pc = "halt" /\ th'[Monitor].todo = {i \in orders : info[i].kind = "OPEN"}
    BY <1>1, <2>1 DEF ThreadType
  <2>3. \A i \in orders : /\ i \in OrderId /\ i \in DOMAIN book
                          /\ info[i].kind = "OPEN" => book[i].type = "LIMIT"
    BY <1>1, BookType DEF BotTypes, Known
  <2>. QED
    BY <2>1, <2>2, <2>3 DEF Aside, Stopping
<1>5. ASSUME NEW i \in OrderId, HaltCancels(i) PROVE Aside
  <2>. DEFINE left == [th EXCEPT ![Monitor].todo = @ \ {i}]
  <2>1. /\ th[Monitor].pc = "halt" /\ UNCHANGED risk /\ i \in th[Monitor].todo
        /\ th' = left \/ th' = Notify(left, {i}, "CANCELED")
        /\ UNCHANGED mock \/ CancelOrder(i)
    BY <1>5 DEF HaltCancels
  <2>2. left \in [Thread -> ThreadType] /\ left[Monitor].pc = "halt"
        /\ left[Monitor].todo = th[Monitor].todo \ {i}
    BY <1>1, <2>1 DEF ThreadType
  <2>. HIDE DEF left
  <2>3. th'[Monitor] = left[Monitor]
    BY <1>1, <2>1, <2>2, Notified
  <2>. QED
    BY <2>1, <2>2, <2>3 DEF Aside, Stopping, HaltTodo
<1>6. CASE BeginPoll \/ EndPoll \/ \E i \in OrderId : PollGet(i)
  <2>1. /\ th[Monitor].pc \in {"risk", "poll"} /\ UNCHANGED risk /\ UNCHANGED mock
    BY <1>6 DEF BeginPoll, EndPoll, PollGet, AtRisk
  <2>2. th'[Monitor].pc \in {"risk", "poll", "got"}
    <3>1. CASE BeginPoll
      BY <1>1, <3>1 DEF BeginPoll, ThreadType
    <3>2. CASE EndPoll
      BY <1>1, <3>2 DEF EndPoll, Idle
    <3>3. ASSUME NEW i \in OrderId, PollGet(i) PROVE th'[Monitor].pc = "got"
      BY <1>1, <3>3 DEF PollGet, ThreadType
    <3>. QED
      BY <1>6, <3>1, <3>2, <3>3
  <2>. QED
    BY <2>1, <2>2 DEF Aside, Stopping
<1>7. CASE PollRead
  <2>1. th[Monitor].pc = "got" /\ UNCHANGED risk /\ UNCHANGED mock
    BY <1>7 DEF PollRead
  <2>2. \A i, s : Entered(th[Monitor], i, s).pc \in {"fetch", "section"}
    BY <1>1 DEF Entered, ThreadType
  <2>3. Returned(Monitor).pc = "poll"
    BY <1>1, ReturnedType
  <2>4. th'[Monitor].pc \in {"fetch", "section", "poll"}
    BY <1>1, <1>7, <2>2, <2>3 DEF PollRead
  <2>. QED
    BY <2>1, <2>4 DEF Aside, Stopping
<1>8. CASE Simulator
  <2>1. th' = Notify(th, FilledByTick, "FILLED") /\ UNCHANGED risk /\ (BeginTick \/ WriteOrder)
    BY <1>8 DEF Simulator
  <2>2. FilledByTick \in SUBSET OrderId
    <3>1. CASE LockFree
      BY <3>1 DEF FilledByTick
    <3>2. CASE ~LockFree
      BY <3>2, <1>1, BookType DEF FilledByTick, MockInv, Ticking, MockTypeOK
    <3>. QED
      BY <3>1, <3>2
  <2>3. th'[Monitor] = th[Monitor]
    BY <1>1, <2>1, <2>2, Notified
  <2>. QED
    BY <2>1, <2>3 DEF Aside
<1>. QED
  BY <1>2, <1>3, <1>4, <1>5, <1>6, <1>7, <1>8, CallsAside DEF Next, MonitorStep

(* What the hedge has and has pending is what was opened and not closed;   *)
(* the liquidation that zeroes the positions leaves only sales pending,    *)
(* and then buys back no more than there is.                               *)
HedgeOwes ==
  /\ hedges.closed <= hedges.opened
  /\ closing = "no" => Owed = hedges.closed - hedges.opened
  /\ closing = "zeroed" => Owed <= 0
  /\ closing # "orders" => pos[HedgeSide] <= 0
HedgeStops ==
  /\ closing # "no" => th[Monitor].pc \in {"readHedge", "buyHedge", "stop", "idle"}
  /\ closing = "zeroed" /\ th[Monitor].pc \in {"readHedge", "buyHedge"} =>
       \A i \in Pending : Moved(HedgeSide)[i] <= 0
  /\ closing = "zeroed" /\ th[Monitor].pc = "buyHedge" =>
       Owed <= th[Monitor].amt /\ th[Monitor].amt <= 0

HedgeInv == HedgeOrders /\ StressOnly /\ HaltTodo /\ HedgeOwes /\ HedgeStops

(* Whatever is done to the exchange, it stays in the mode it was started   *)
(* in, and its orders keep their types.                                    *)
LEMMA ModeKept ==
  ASSUME MockInv, MockStep
  PROVE  mode' = mode /\ \A i \in DOMAIN book : i \in DOMAIN book' /\ book'[i].type = book[i].type
<1>1. mode' = mode
  BY DEF MockStep, mock, PlaceOrder, CancelOrder, Liquidate, BeginTick, WriteOrder
<1>. QED
  BY <1>1, BookKept

(* What a step beside the hedges does to what they owe.                    *)
LEMMA AsideOwes ==
  ASSUME GridInv, HedgeInv, Aside
  PROVE  /\ HedgeOrders' /\ Owed' = Owed /\ pos'[HedgeSide] \in {pos[HedgeSide], Owed}
         /\ \A i \in Pending' : \/ i \in Pending /\ Moved(HedgeSide)'[i] = Moved(HedgeSide)[i]
                                \/ Moved(HedgeSide)'[i] = 0
<1>. USE DEF GridInv, BotInv
<1>1. MockInv /\ MockTypeOK /\ HedgeOrders /\ Pending \in SUBSET DOMAIN book /\ Owed \in Int
  BY OwedType DEF MockInv, HedgeInv
<1>2. ASSUME NEW o \in NewOrder, OfTheGrid(o), PlaceOrder(o)
      PROVE  /\ HedgeOrders' /\ Owed' = Owed /\ pos' = pos
             /\ \A i \in Pending' : \/ i \in Pending /\ Moved(HedgeSide)'[i] = Moved(HedgeSide)[i]
                                    \/ Moved(HedgeSide)'[i] = 0
  <2>1. Placeable(o) /\ o.posSide # HedgeSide
    BY <1>2 DEF Placeable, OfTheGrid, MainSide, HedgeSide
  <2>2. /\ HedgeOrders' /\ Pending' = Pending \cup {NextId} /\ pos' = pos /\ SameMoves
        /\ Moved(HedgeSide)'[NextId] = 0 /\ Owed' = Owed + 0
    BY <1>1, <1>2, <2>1, PlacedPends
  <2>. QED
    BY <1>1, <2>2 DEF SameMoves
<1>3. ASSUME \/ UNCHANGED mock
             \/ \E i \in OrderId : CancelOrder(i) /\ book[i].type = "LIMIT"
             \/ BeginTick
             \/ WriteOrder
      PROVE  SameMoves
  <2>1. MockStep
    BY <1>3 DEF MockStep
  <2>. QED
    BY <1>1, <2>1, MovesKept
<1>4. CASE \/ UNCHANGED mock
           \/ \E i \in OrderId : CancelOrder(i) /\ book[i].type = "LIMIT"
           \/ BeginTick
           \/ WriteOrder /\ sim.todo # {}
  <2>1. HedgeOrders' /\ Pending' = Pending /\ pos' = pos /\ Owed' = Owed
    BY <1>1, <1>4, StillPending
  <2>2. SameMoves
    BY <1>3, <1>4
  <2>. QED
    BY <1>1, <2>1, <2>2 DEF SameMoves
<1>5. CASE WriteOrder /\ sim.todo = {}
  <2>1. HedgeOrders' /\ Pending' \subseteq Pending /\ pos'[HedgeSide] = Owed /\ Owed' = Owed
    BY <1>1, <1>5, TickPays
  <2>2. SameMoves
    BY <1>3, <1>5
  <2>. QED
    BY <1>1, <2>1, <2>2 DEF SameMoves
<1>. QED
  BY <1>2, <1>4, <1>5 DEF Aside

(* Such a step leaves the invariant alone.                                 *)
LEMMA AsideKept ==
  ASSUME GridInv, HedgeInv, Aside
  PROVE  HedgeInv'
<1>. USE DEF GridInv, BotInv
<1>1. /\ HedgeOrders' /\ Owed' = Owed /\ pos'[HedgeSide] \in {pos[HedgeSide], Owed}
      /\ \A i \in Pending' : \/ i \in Pending /\ Moved(HedgeSide)'[i] = Moved(HedgeSide)[i]
                             \/ Moved(HedgeSide)'[i] = 0
  BY AsideOwes
<1>2. hedges' = hedges /\ closing' = closing
  BY DEF Aside, risk
<1>3. MockStep
  BY DEF Aside, MockStep
<1>4. mode' = mode /\ \A i \in DOMAIN book : i \in DOMAIN book' /\ book'[i].type = book[i].type
  BY <1>3, ModeKept
<1>5. \/ th'[Monitor] = th[Monitor]
      \/ /\ th[Monitor].pc \notin Stopping /\ th'[Monitor].pc \notin Stopping
         /\ th'[Monitor].pc = "halt" =>
              \A i \in th'[Monitor].todo : i \in DOMAIN book /\ book[i].type = "LIMIT"
  BY DEF Aside
<1>6. StressOnly' /\ HaltTodo'
  <2>1. StressOnly'
    BY <1>4, <1>5 DEF HedgeInv, StressOnly, Stopping, Monitor
  <2>2. HaltTodo'
    BY <1>4, <1>5 DEF HedgeInv, HaltTodo, Monitor
  <2>. QED
    BY <2>1, <2>2
<1>7. HedgeOwes'
  <2>1. /\ hedges.opened \in Int /\ hedges.closed \in Int /\ Owed \in Int
        /\ closing \in {"no", "orders", "zeroed"}
    BY OwedType DEF BotTypes, MockInv
  <2>. QED
    BY <1>1, <1>2, <2>1 DEF HedgeInv, HedgeOwes, HedgeSide
<1>8. HedgeStops'
  <2>1. CASE closing = "no"
    BY <1>2, <2>1 DEF HedgeStops
  <2>2. CASE closing # "no"
    <3>1. th'[Monitor] = th[Monitor]
      BY <1>5, <2>2 DEF HedgeInv, HedgeStops, Stopping
    <3>. QED
      BY <1>1, <1>2, <3>1 DEF HedgeInv, HedgeStops, HedgeSide, Monitor
  <2>. QED
    BY <2>1, <2>2
<1>. QED
  BY <1>1, <1>6, <1>7, <1>8 DEF HedgeInv

(* Opening and closing a hedge.                                            *)
LEMMA HedgingKept ==
  ASSUME GridInv, HedgeInv, OpenHedge \/ CloseHedge
  PROVE  HedgeInv'
<1>. USE DEF GridInv, BotInv
<1>1. /\ th[Monitor].pc = "risk" /\ th' = th /\ closing' = closing
      /\ hedges \in [opened : 0 .. MaxHedges, closed : 0 .. MaxHedges]
  BY DEF OpenHedge, CloseHedge, AtRisk, BotTypes
<1>2. closing = "no" /\ Owed \in Int /\ Owed = hedges.closed - hedges.opened
      /\ hedges.closed <= hedges.opened /\ pos[HedgeSide] <= 0
  BY <1>1, OwedType DEF HedgeInv, HedgeStops, HedgeOwes, MockInv
<1>3. ASSUME NEW side \in {"BUY", "SELL"}, NEW r \in BOOLEAN, side = "BUY" => r,
             PlaceOrder(Market(side, HedgeSide, 1, r))
      PROVE  /\ HedgeOrders' /\ pos' = pos /\ Owed' = Owed + Signed(side, 1)
             /\ mode' = mode
  <2>. DEFINE o == Market(side, HedgeSide, 1, r)
  <2>1. o \in NewOrder /\ o.posSide = HedgeSide /\ o.side = side /\ o.qty = 1 /\ o.reduce = r
    BY OrderTypes DEF Market, HedgeSide, Sides
  <2>. HIDE DEF o
  <2>2. Placeable(o)
    BY <1>3, <2>1 DEF Placeable, HedgeSide
  <2>3. PlaceOrder(o)
    BY <1>3 DEF o
  <2>4. /\ HedgeOrders' /\ pos' = pos
        /\ Owed' = Owed + IF o.posSide = HedgeSide THEN Signed(o.side, o.qty) ELSE 0
    BY <2>2, <2>3, PlacedPends DEF HedgeInv
  <2>5. mode' = mode
    BY <2>3 DEF PlaceOrder
  <2>. QED
    BY <2>1, <2>4, <2>5
<1>4. /\ HedgeOrders' /\ pos' = pos /\ mode' = mode
      /\ hedges'.closed <= hedges'.opened /\ Owed' = hedges'.closed - hedges'.opened
  <2>1. CASE OpenHedge
    <3>1. Owed' = Owed + Signed("SELL", 1) /\ HedgeOrders' /\ pos' = pos /\ mode' = mode
      BY <1>3, <2>1 DEF OpenHedge
    <3>2. hedges'.opened = hedges.opened + 1 /\ hedges'.closed = hedges.closed
      BY <1>1, <2>1 DEF OpenHedge
    <3>. QED
      BY <1>1, <1>2, <3>1, <3>2 DEF Signed
  <2>2. CASE CloseHedge
    <3>1. Owed' = Owed + Signed("BUY", 1) /\ HedgeOrders' /\ pos' = pos /\ mode' = mode
      BY <1>3, <2>2 DEF CloseHedge
    <3>2. hedges'.opened = hedges.opened /\ hedges'.closed = hedges.closed + 1
          /\ hedges.closed < hedges.opened
      BY <1>1, <2>2 DEF CloseHedge
    <3>. QED
      BY <1>1, <1>2, <3>1, <3>2 DEF Signed
  <2>. QED
    BY <2>1, <2>2
<1>5. HedgeOwes' /\ HedgeStops' /\ StressOnly' /\ HaltTodo'
  BY <1>1, <1>2, <1>4 DEF HedgeOwes, HedgeStops, StressOnly, HaltTodo, HedgeSide, Monitor
<1>. QED
  BY <1>4, <1>5 DEF HedgeInv

(* The liquidation.                                                        *)
LEMMA LiquidationKept ==
  ASSUME GridInv, HedgeInv, LiquidateAndStop
  PROVE  HedgeInv'
<1>. USE DEF GridInv, BotInv
<1>1. /\ Monitor \in Thread /\ th[Monitor] \in ThreadType /\ th \in [Thread -> ThreadType]
      /\ MockInv /\ MockTypeOK /\ closing \in {"no", "orders", "zeroed"}
      /\ hedges.opened \in Int /\ hedges.closed \in Int
  BY DEF Thread, BotTypes, MockInv
<1>2. HedgeSide \in Sides /\ pos[HedgeSide] \in Int /\ Owed \in Int /\ Pending \in SUBSET DOMAIN book
  BY <1>1, OwedType
<1>3. UNCHANGED mock => /\ HedgeOrders' /\ Owed' = Owed /\ pos' = pos /\ mode' = mode
                        /\ Pending' = Pending /\ Moved(HedgeSide)' = Moved(HedgeSide)
  BY DEF HedgeInv, HedgeOrders, AllFill, NeverLong, ReduceBuys, Owed, Pending, Settled, Moved,
         LockFree, mock, HedgeSide
<1>4. CASE BeginLiquidation \/ Panic
  <2>1. /\ UNCHANGED mock /\ hedges' = hedges /\ closing' = closing
        /\ \/ /\ th[Monitor].pc = "risk" /\ mode = "bhls_stress_test"
              /\ th' = [th EXCEPT ![Monitor].pc = "readMain"]
           \/ th[Monitor].pc = "stop" /\ th' = [th EXCEPT ![Monitor].pc = "idle"]
    BY <1>4 DEF BeginLiquidation, Panic, AtRisk, InStressTest, GoTo, risk
  <2>2. \/ /\ th[Monitor].pc = "risk" /\ mode = "bhls_stress_test" /\ th'[Monitor].pc = "readMain"
        \/ th[Monitor].pc = "stop" /\ th'[Monitor].pc = "idle"
    BY <1>1, <2>1 DEF ThreadType
  <2>. QED
    BY <1>3, <2>1, <2>2
       DEF HedgeInv, HedgeOwes, HedgeStops, StressOnly, HaltTodo, HedgeSide, Monitor
<1>5. CASE ReadPosition("readMain", MainSide, "sellMain", "readHedge")
  <2>1. /\ UNCHANGED mock /\ hedges' = hedges /\ closing' = closing /\ th[Monitor].pc = "readMain"
        /\ th' = [th EXCEPT ![Monitor].amt = pos[MainSide],
                            ![Monitor].pc = IF pos[MainSide] = 0 THEN "readHedge" ELSE "sellMain"]
    BY <1>5 DEF ReadPosition, risk
  <2>2. th'[Monitor].pc \in {"readHedge", "sellMain"}
    BY <1>1, <2>1 DEF ThreadType
  <2>3. mode = "bhls_stress_test" /\ closing = "no"
    BY <2>1 DEF HedgeInv, StressOnly, HedgeStops
  <2>. QED
    BY <1>3, <2>1, <2>2, <2>3
       DEF HedgeInv, HedgeOwes, HedgeStops, StressOnly, HaltTodo, HedgeSide, Monitor
<1>6. CASE ClosePosition("sellMain", "long", "readHedge")
  <2>1. th[Monitor].pc = "sellMain" /\ mode = "bhls_stress_test"
    BY <1>6 DEF ClosePosition, HedgeInv, StressOnly
  <2>2. IsLiquidationTrigger(CloseOrder("long"))
    BY <2>1 DEF IsLiquidationTrigger, CloseOrder, Market
  <2>3. /\ Liquidate /\ closing' = "zeroed" /\ hedges' = hedges
        /\ th' = [th EXCEPT ![Monitor].pc = "readHedge"]
    BY <1>6, <2>2 DEF ClosePosition, GoTo
  <2>4. /\ HedgeOrders' /\ pos'[HedgeSide] = 0 /\ Owed' <= 0
        /\ \A i \in Pending' : Moved(HedgeSide)'[i] <= 0
    BY <1>1, <2>3, LiquidateLeaves DEF HedgeInv
  <2>5. th'[Monitor].pc = "readHedge"
    BY <1>1, <2>3 DEF ThreadType
  <2>6. HedgeOwes' /\ HedgeStops'
    BY <2>3, <2>4, <2>5 DEF HedgeInv, HedgeOwes, HedgeStops, HedgeSide, Monitor
  <2>. QED
    BY <2>4, <2>5, <2>6 DEF HedgeInv, StressOnly, HaltTodo, Monitor
<1>7. CASE ReadPosition("readHedge", HedgeSide, "buyHedge", "stop")
  <2>1. /\ UNCHANGED mock /\ hedges' = hedges /\ closing' = closing /\ th[Monitor].pc = "readHedge"
        /\ th' = [th EXCEPT ![Monitor].amt = pos[HedgeSide],
                            ![Monitor].pc = IF pos[HedgeSide] = 0 THEN "stop" ELSE "buyHedge"]
    BY <1>7 DEF ReadPosition, risk
  <2>2. th'[Monitor].pc \in {"stop", "buyHedge"} /\ th'[Monitor].amt = pos[HedgeSide]
    BY <1>1, <2>1 DEF ThreadType
  <2>3. closing = "zeroed" => Owed <= pos[HedgeSide] /\ pos[HedgeSide] <= 0
    <3>1. SUFFICES ASSUME closing = "zeroed" PROVE Owed <= pos[HedgeSide] /\ pos[HedgeSide] <= 0
      OBVIOUS
    <3>2. (\A i \in Pending : Moved(HedgeSide)[i] <= 0) /\ pos[HedgeSide] <= 0
      BY <2>1, <3>1 DEF HedgeInv, HedgeStops, HedgeOwes
    <3>3. SumOf(Moved(HedgeSide), Pending) \in Int /\ SumOf(Moved(HedgeSide), Pending) <= 0
      BY <1>1, <1>2, <3>2, PendingSells
    <3>. QED
      BY <1>2, <3>2, <3>3 DEF Owed
  <2>4. HedgeStops'
    BY <1>3, <2>1, <2>2, <2>3 DEF HedgeInv, HedgeStops, HedgeSide, Monitor
  <2>. QED
    BY <1>3, <2>1, <2>2, <2>4 DEF HedgeInv, HedgeOwes, StressOnly, HaltTodo, HedgeSide, Monitor
<1>8. CASE ClosePosition("buyHedge", HedgeSide, "stop")
  <2>. DEFINE o == CloseOrder(HedgeSide)
  <2>1. /\ th[Monitor].pc = "buyHedge" /\ hedges' = hedges /\ th' = [th EXCEPT ![Monitor].pc = "stop"]
        /\ o.posSide # "long"
    BY <1>8 DEF ClosePosition, GoTo, CloseOrder, Market, HedgeSide
  <2>2. th'[Monitor].pc = "stop"
    BY <1>1, <2>1 DEF ThreadType
  <2>3. StressOnly' /\ HaltTodo' /\ HedgeStops'
    BY <2>2 DEF StressOnly, HaltTodo, HedgeStops, Monitor
  <2>4. CASE NextId \notin OrderId
    <3>1. UNCHANGED <<mock, closing>>
      BY <1>8, <2>1, <2>4 DEF ClosePosition, IsLiquidationTrigger
    <3>. QED
      BY <1>3, <2>1, <2>3, <3>1 DEF HedgeInv, HedgeOwes, HedgeSide
  <2>5. CASE NextId \in OrderId
    <3>1. PlaceOrder(o) /\ closing' = IF closing = "no" THEN "orders" ELSE closing
      BY <1>8, <2>1, <2>5 DEF ClosePosition, IsLiquidationTrigger
    <3>2. th[Monitor].amt \in Int /\ Magnitude(th[Monitor].amt) \in Nat
      BY <1>1 DEF ThreadType, Magnitude
    <3>3. /\ o \in NewOrder /\ o.posSide = HedgeSide /\ o.reduce
          /\ o.side = (IF th[Monitor].amt > 0 THEN "SELL" ELSE "BUY")
          /\ o.qty = Magnitude(th[Monitor].amt)
      BY <3>2, OrderTypes DEF CloseOrder, Market
    <3>. HIDE DEF o
    <3>4. Placeable(o)
      BY <3>3 DEF Placeable, HedgeSide
    <3>5. /\ HedgeOrders' /\ pos' = pos
          /\ Owed' = Owed + IF o.posSide = HedgeSide THEN Signed(o.side, o.qty) ELSE 0
      BY <1>1, <3>1, <3>4, PlacedPends DEF HedgeInv
    <3>6. closing' = "zeroed" => Owed' <= 0
      <4>1. SUFFICES ASSUME closing = "zeroed" PROVE Owed' <= 0
        BY <1>1, <3>1
      <4>2. Owed <= th[Monitor].amt /\ th[Monitor].amt <= 0
        BY <2>1, <4>1 DEF HedgeInv, HedgeStops
      <4>3. Signed(o.side, o.qty) = -th[Monitor].amt
        BY <3>2, <3>3, <4>2 DEF Signed, Magnitude
      <4>. QED
        BY <1>2, <3>2, <3>3, <3>5, <4>2, <4>3
    <3>7. HedgeOwes'
      BY <1>1, <2>1, <3>1, <3>5, <3>6 DEF HedgeInv, HedgeOwes, HedgeSide
    <3>. QED
      BY <2>3, <3>5, <3>7 DEF HedgeInv
  <2>. QED
    BY <2>4, <2>5
<1>. QED
  BY <1>4, <1>5, <1>6, <1>7, <1>8 DEF LiquidateAndStop

(* Every step keeps what the hedge owes.                                   *)
LEMMA HedgeInvKept ==
  ASSUME GridInv, HedgeInv, [Next]_vars
  PROVE  HedgeInv'
<1>1. CASE UNCHANGED vars
  BY <1>1 DEF vars, mock, risk, HedgeInv, HedgeOrders, AllFill, NeverLong, ReduceBuys, StressOnly,
              HaltTodo, HedgeOwes, HedgeStops, Owed, Pending, Settled, Moved, LockFree
<1>2. CASE Next
  BY <1>2, AsideSteps, AsideKept, HedgingKept, LiquidationKept DEF HedgeInv
<1>. QED
  BY <1>1, <1>2

(* Nothing is owed in the initial states.                                  *)
LEMMA HedgeStarts ==
  ASSUME Init
  PROVE  HedgeInv
<1>1. MockInv /\ DOMAIN book = {} /\ \A s \in Sides : pos[s] = 0
  BY MockStarts DEF Init
<1>2. hedges = [opened |-> 0, closed |-> 0] /\ closing = "no" /\ th[Monitor].pc = "init"
  BY DEF Init, Idle, Thread, Monitor
<1>3. Pending = {}
  BY <1>1 DEF Pending
<1>4. Owed = 0 /\ pos[HedgeSide] = 0
  BY <1>1, <1>3, SumEmpty DEF Owed, HedgeSide, Sides
<1>5. HedgeOrders
  BY <1>1, <1>3 DEF HedgeOrders, AllFill, NeverLong, ReduceBuys
<1>. QED
  BY <1>2, <1>4, <1>5 DEF HedgeInv, HedgeOwes, HedgeStops, StressOnly, HaltTodo

(* What the grid sells it has bought, whichever goroutine sells and while  *)
(* whatever number of fills waits to be booked; and a hedge is bought back *)
(* at most once, whatever is still pending of it when it is liquidated:    *)
(* neither position ever changes its sign, before a liquidation and after  *)
(* one that zeroes the positions.                                          *)
THEOREM PositionsAlwaysKeepSign == Spec => []PositionsKeepSign
<1>. DEFINE I == /\ GridInv /\ InitTodo /\ Backed /\ Bounded /\ QtyBooked
                 /\ NoLong /\ Balanced /\ HedgeInv
<1>1. Init => I
  BY UnitsStart, BotStarts, HedgeStarts, BooksStart
<1>2. I /\ [Next]_vars => I'
  BY GridInvKept, UnitsKept, QtyBookedKept, BalancedKept, HedgeInvKept DEF GridInv
<1>3. I => PositionsKeepSign
  BY MainNotShort DEF HedgeInv, HedgeOwes, PositionsKeepSign
<1>. QED
  BY <1>1, <1>2, <1>3, PTL DEF Spec

-----------------------------------------------------------------------------
(* The cash.                                                               *)

(* That a fraction is worth a of the parts of which D make a whole.        *)
Of(x, a, D) == x.n * D = a * x.d

(* Numbers are multiplied in any order, and what they have in common is    *)
(* struck out.                                                             *)
LEMMA Products ==
  /\ \A a \in Int, b \in Int : a * b \in Int /\ a * b = b * a
  /\ \A a \in Int, b \in Int, c \in Int : (a * b) * c = a * (b * c)
  /\ \A a \in Int, b \in Int, c \in Int : (a + b) * c = a * c + b * c
  /\ \A a \in Int, b \in Int, g \in Int \ {0} : g * a = g * b => a = b
BY SMT

(* Lowest terms are worth the same.                                        *)
LEMMA RatioOf ==
  ASSUME NEW n \in Int, NEW d \in Nat \ {0}, NEW a \in Int, NEW D \in Nat \ {0}, n * D = a * d
  PROVE  Of(Ratio(n, d), a, D)
<1>. DEFINE x == [n |-> n, d |-> d]
<1>1. x \in Fraction /\ x.n = n /\ x.d = d
  BY DEF Fraction
<1>. HIDE DEF x
<1>2. PICK g \in 1 .. x.d : /\ Greatest(g, x)
                            /\ LowestTerms[x] = [n |-> x.n \div g, d |-> x.d \div g]
  BY <1>1, Reduced
<1>3. Divides(g, n) /\ Divides(g, d) /\ g \in 1 .. d
  BY <1>1, <1>2 DEF Greatest, CommonDivisor
<1>. DEFINE m == n \div g
            e == d \div g
<1>4. m \in Int /\ n = g * m /\ e \in Nat \ {0} /\ d = g * e
  BY <1>3, Divided
<1>5. Ratio(n, d).n = m /\ Ratio(n, d).d = e
  BY <1>1, <1>2 DEF Ratio, x
<1>. HIDE DEF m, e
<1>6. g * (m * D) = g * (a * e)
  <2>1. (g * m) * D = a * (g * e)
    BY <1>4
  <2>2. g \in Int /\ D \in Int /\ e \in Int
    BY <1>3, <1>4
  <2>3. (g * m) * D = g * (m * D)
    BY <1>4, <2>2, Products
  <2>4. a * (g * e) = g * (a * e)
    BY <2>2, SMT
  <2>. QED
    BY <2>1, <2>3, <2>4
<1>7. m * D = a * e
  <2>1. g \in Int \ {0} /\ m * D \in Int /\ a * e \in Int
    BY <1>3, <1>4, Products
  <2>. QED
    BY <1>6, <2>1, Products
<1>. QED
  BY <1>5, <1>7 DEF Of

(* The sum of two.                                                         *)
LEMMA PlusOf ==
  ASSUME NEW x \in Fraction, NEW y \in Fraction, NEW a \in Int, NEW b \in Int, NEW D \in Nat \ {0},
         Of(x, a, D), Of(y, b, D)
  PROVE  Of(Plus(x, y), a + b, D)
<1>1. x.n \in Int /\ x.d \in Nat \ {0} /\ y.n \in Int /\ y.d \in Nat \ {0}
  BY DEF Fraction
<1>2. x.n * D = a * x.d /\ y.n * D = b * y.d
  BY DEF Of
<1>. DEFINE m == x.n
            e == x.d
            k == y.n
            f == y.d
<1>3. m \in Int /\ e \in Nat \ {0} /\ k \in Int /\ f \in Nat \ {0}
  BY <1>1
<1>4. m * D = a * e /\ k * D = b * f
  BY <1>2
<1>5. Plus(x, y) = Ratio(m * f + k * e, e * f)
  BY DEF Plus, Added
<1>. HIDE DEF m, e, k, f
<1>6. m * f + k * e \in Int /\ e * f \in Nat \ {0}
  BY <1>3, SMT
<1>7. (m * f + k * e) * D = (a + b) * (e * f)
  <2>1. (m * f) * D = (m * D) * f /\ (k * e) * D = (k * D) * e
    BY <1>3, SMT
  <2>2. (m * D) * f = (a * e) * f /\ (k * D) * e = (b * f) * e
    BY <1>4
  <2>3. (a * e) * f = a * (e * f) /\ (b * f) * e = b * (e * f)
    BY <1>3, SMT
  <2>4. (m * f + k * e) * D = (m * f) * D + (k * e) * D
    BY <1>3, SMT
  <2>5. (a + b) * (e * f) = a * (e * f) + b * (e * f)
    BY <1>3, SMT
  <2>. QED
    BY <2>1, <2>2, <2>3, <2>4, <2>5
<1>. QED
  BY <1>5, <1>6, <1>7, RatioOf

(* A multiple.                                                             *)
LEMMA TimesOf ==
  ASSUME NEW x \in Fraction, NEW a \in Int, NEW k \in Int, NEW D \in Nat \ {0}, Of(x, a, D)
  PROVE  Of(Times(x, k), a * k, D)
<1>1. x.n \in Int /\ x.d \in Nat \ {0} /\ x.n * D = a * x.d
  BY DEF Fraction, Of
<1>. DEFINE m == x.n
            e == x.d
<1>2. m \in Int /\ e \in Nat \ {0} /\ m * D = a * e /\ Times(x, k) = Ratio(m * k, e)
  BY <1>1 DEF Times
<1>. HIDE DEF m, e
<1>3. m * k \in Int /\ a * k \in Int /\ (m * k) * D = (m * D) * k /\ (a * e) * k = (a * k) * e
  BY <1>2, SMT
<1>. QED
  BY <1>2, <1>3, RatioOf

(* A difference.                                                           *)
LEMMA MinusOf ==
  ASSUME NEW x \in Fraction, NEW y \in Fraction, NEW a \in Int, NEW b \in Int, NEW D \in Nat \ {0},
         Of(x, a, D), Of(y, b, D)
  PROVE  Of(Minus(x, y), a - b, D)
<1>1. Times(y, -1) \in Fraction /\ Of(Times(y, -1), -b, D)
  <2>. DEFINE k == -1
  <2>1. k \in Int /\ b * k = -b
    OBVIOUS
  <2>. HIDE DEF k
  <2>2. Times(y, k) \in Fraction
    BY <2>1, MoneyTypes
  <2>3. Of(Times(y, k), b * k, D)
    BY <2>1, TimesOf
  <2>. QED
    BY <2>1, <2>2, <2>3 DEF k
<1>2. Of(Plus(x, Times(y, -1)), a + (-b), D)
  BY <1>1, PlusOf
<1>3. a + (-b) = a - b
  OBVIOUS
<1>. QED
  BY <1>2, <1>3 DEF Minus

(* A part.                                                                 *)
LEMMA OverOf ==
  ASSUME NEW x \in Fraction, NEW a \in Int, NEW k \in Nat \ {0}, NEW D \in Nat \ {0}, Of(x, a * k, D)
  PROVE  Of(Over(x, k), a, D)
<1>1. x.n \in Int /\ x.d \in Nat \ {0} /\ x.n * D = (a * k) * x.d
  BY DEF Fraction, Of
<1>. DEFINE m == x.n
            e == x.d
<1>2. m \in Int /\ e \in Nat \ {0} /\ m * D = (a * k) * e /\ Over(x, k) = Ratio(m, e * k)
  BY <1>1 DEF Over
<1>. HIDE DEF m, e
<1>3. e * k \in Nat \ {0} /\ (a * k) * e = a * (e * k)
  BY <1>2, SMT
<1>. QED
  BY <1>2, <1>3, RatioOf

(* A whole number, in any parts.                                           *)
LEMMA WholeOf ==
  ASSUME NEW k \in Int, NEW D \in Nat \ {0}
  PROVE  Of(Whole(k), k * D, D)
BY DEF Whole, Of

(* What is worth a whole number is that number in lowest terms.            *)
LEMMA RatioWhole ==
  ASSUME NEW k \in Int, NEW d \in Nat \ {0}
  PROVE  Ratio(k * d, d) = Whole(k)
<1>. DEFINE x == [n |-> k * d, d |-> d]
<1>1. x \in Fraction /\ x.n = k * d /\ x.d = d
  BY DEF Fraction
<1>. HIDE DEF x
<1>2. PICK g \in 1 .. x.d : /\ Greatest(g, x)
                            /\ LowestTerms[x] = [n |-> x.n \div g, d |-> x.d \div g]
  BY <1>1, Reduced
<1>3. g = d
  <2>1. CommonDivisor(d, x)
    <3>1. (k * d) % d = 0 /\ d % d = 0
      BY SMT
    <3>. QED
      BY <1>1, <3>1 DEF CommonDivisor, Divides
  <2>2. g \in 1 .. d /\ \A j \in g + 1 .. d : j # d
    BY <1>1, <1>2, <2>1 DEF Greatest
  <2>. QED
    BY <2>2
<1>4. (k * d) \div d = k /\ d \div d = 1
  BY SMT
<1>. QED
  BY <1>1, <1>2, <1>3, <1>4 DEF Ratio, Whole, x

(* A sum that is worth a whole number is that number.                      *)
LEMMA PlusWhole ==
  ASSUME NEW x \in Fraction, NEW y \in Fraction, NEW a \in Int, NEW b \in Int, NEW D \in Nat \ {0},
         Of(x, a, D), Of(y, b, D), NEW k \in Int, a + b = k * D
  PROVE  Plus(x, y) = Whole(k)
<1>1. x.n \in Int /\ x.d \in Nat \ {0} /\ y.n \in Int /\ y.d \in Nat \ {0}
      /\ x.n * D = a * x.d /\ y.n * D = b * y.d
  BY DEF Fraction, Of
<1>. DEFINE m == x.n
            e == x.d
            l == y.n
            f == y.d
            ef == e * f
            n == m * f + l * e
<1>2. /\ m \in Int /\ e \in Nat \ {0} /\ l \in Int /\ f \in Nat \ {0}
      /\ m * D = a * e /\ l * D = b * f
  BY <1>1
<1>3. Plus(x, y) = Ratio(n, ef)
  BY DEF Plus, Added
<1>. HIDE DEF m, e, l, f
<1>4. ef \in Nat \ {0} /\ n \in Int
  BY <1>2, SMT
<1>5. n * D = (a + b) * ef
  <2>1. (m * f) * D = (m * D) * f /\ (l * e) * D = (l * D) * e
    BY <1>2, SMT
  <2>2. (m * D) * f = (a * e) * f /\ (l * D) * e = (b * f) * e
    BY <1>2
  <2>3. (a * e) * f = a * (e * f) /\ (b * f) * e = b * (e * f)
    BY <1>2, SMT
  <2>4. (m * f + l * e) * D = (m * f) * D + (l * e) * D
    BY <1>2, SMT
  <2>5. (a + b) * (e * f) = a * (e * f) + b * (e * f)
    BY <1>2, SMT
  <2>. QED
    BY <2>1, <2>2, <2>3, <2>4, <2>5
<1>. HIDE DEF n, ef
<1>6. D * n = D * (k * ef)
  <2>1. (k * D) * ef = D * (k * ef) /\ n * D = D * n
    BY <1>4, SMT
  <2>. QED
    BY <1>5, <2>1
<1>7. n = k * ef
  <2>1. D \in Int \ {0} /\ k * ef \in Int
    BY <1>4, Products
  <2>. QED
    BY <1>4, <1>6, <2>1, Products
<1>. QED
  BY <1>3, <1>4, <1>7, RatioWhole

(* Two fractions in common parts, as many as can be shared out.            *)
LEMMA CommonParts ==
  ASSUME NEW x \in Fraction, NEW y \in Fraction, NEW k \in Nat \ {0}
  PROVE  \E D \in Nat \ {0}, a \in Int, b \in Int : Of(x, a, D * k) /\ Of(y, b * k, D * k)
                                                    /\ D * k \in Nat \ {0}
<1>1. x.n \in Int /\ x.d \in Nat \ {0} /\ y.n \in Int /\ y.d \in Nat \ {0}
  BY DEF Fraction
<1>. DEFINE m == x.n
            e == x.d
            l == y.n
            f == y.d
            D == e * f
            a == m * (f * k)
            b == l * e
<1>2. m \in Int /\ e \in Nat \ {0} /\ l \in Int /\ f \in Nat \ {0}
  BY <1>1
<1>3. Of(x, a, D * k) <=> m * (D * k) = a * e
  BY DEF Of
<1>4. Of(y, b * k, D * k) <=> l * (D * k) = (b * k) * f
  BY DEF Of
<1>. HIDE DEF m, e, l, f
<1>5. D \in Nat \ {0} /\ a \in Int /\ b \in Int
  BY <1>2, SMT
<1>6. m * (D * k) = a * e /\ l * (D * k) = (b * k) * f
  BY <1>2, SMT
<1>. HIDE DEF D, a, b
<1>7. D * k \in Nat \ {0}
  BY <1>5, SMT
<1>. QED
  BY <1>3, <1>4, <1>5, <1>6, <1>7

(* The cash of an account, in such parts.                                  *)
LEMMA CashOf ==
  ASSUME NEW x \in Fraction, NEW y \in Fraction, NEW q \in Int,
         NEW D \in Nat \ {0}, NEW a \in Int, NEW b \in Int, Of(x, a, D), Of(y, b, D), NEW k \in Int
  PROVE  Minus(x, Times(y, q)) = Whole(k) <=> a - b * q = k * D
<1>. DEFINE t == Times(y, q)
            bq == b * q
            s == Times(t, -1)
<1>1. t \in Fraction /\ bq \in Int /\ Of(t, bq, D)
  <2>1. t \in Fraction
    BY MoneyTypes
  <2>2. Of(t, bq, D)
    BY TimesOf
  <2>3. bq \in Int
    BY SMT
  <2>. QED
    BY <2>1, <2>2, <2>3
<1>. HIDE DEF t, bq
<1>2. s \in Fraction /\ Of(s, -bq, D)
  <2>. DEFINE j == -1
  <2>1. j \in Int /\ bq * j = -bq
    BY <1>1
  <2>. HIDE DEF j
  <2>2. Times(t, j) \in Fraction
    BY <1>1, <2>1, MoneyTypes
  <2>3. Of(Times(t, j), bq * j, D)
    BY <1>1, <2>1, TimesOf
  <2>. QED
    BY <2>1, <2>2, <2>3 DEF j
<1>3. Minus(x, t) = Plus(x, s)
  BY DEF Minus
<1>. HIDE DEF s
<1>4. ASSUME a - bq = k * D PROVE Plus(x, s) = Whole(k)
  <2>1. -bq \in Int /\ a + (-bq) = k * D
    BY <1>1, <1>4
  <2>. QED
    BY <1>2, <2>1, PlusWhole
<1>5. ASSUME Plus(x, s) = Whole(k) PROVE a - bq = k * D
  <2>1. -bq \in Int /\ a + (-bq) \in Int
    BY <1>1
  <2>2. Of(Plus(x, s), a + (-bq), D)
    BY <1>2, <2>1, PlusOf
  <2>3. Of(Whole(k), a + (-bq), D)
    BY <1>5, <2>2
  <2>4. k * D = (a + (-bq)) * 1
    BY <2>3 DEF Of, Whole
  <2>. QED
    BY <1>1, <2>4
<1>. QED
  BY <1>3, <1>4, <1>5 DEF t, bq

(* A trade at a price, a unit bought or one of those held sold, changes    *)
(* the cash by that price.                                                 *)
LEMMA TradeCash ==
  ASSUME NEW acct \in AccountantType, acct.qty \in Nat, NEW side \in {"BUY", "SELL"},
         side = "SELL" => acct.qty > 0,
         NEW p \in Int, NEW k \in Int, BookCash(acct) = Whole(k)
  PROVE  BookCash(RecordTrade(acct, side, p, 1)) = Whole(k - Signed(side, p))
<1>. DEFINE q == acct.qty
            x == acct.realized
            y == acct.avg
<1>1. q \in Nat /\ x \in Fraction /\ y \in Fraction /\ q + 1 \in Nat \ {0} /\ q \in Int
  BY DEF AccountantType
<1>2. BookCash(acct) = Minus(x, Times(y, q))
  BY DEF BookCash
<1>. DEFINE new == RecordTrade(acct, side, p, 1)
<1>b. ASSUME side = "BUY"
      PROVE  /\ new.qty = q + 1 /\ new.realized = x
             /\ new.avg = Over(Plus(Times(y, q), Whole(p * 1)), q + 1)
  <2>1. ~IsClosingTrade(acct, side)
    <3>1. Signed(side, 1) = 1 /\ q * 1 = q
      BY <1>1, <1>b DEF Signed
    <3>. QED
      BY <1>1, <3>1 DEF IsClosingTrade
  <2>2. Magnitude(q) = q /\ Magnitude(q + 1) = q + 1 /\ q + Signed(side, 1) = q + 1 /\ q + 1 # 0
    BY <1>1, <1>b DEF Magnitude, Signed
  <2>. QED
    BY <2>1, <2>2 DEF RecordTrade, Realized, AverageCost
<1>s. ASSUME side = "SELL"
      PROVE  /\ new.qty = q - 1 /\ new.realized = Plus(x, Times(Minus(Whole(p), y), 1))
             /\ new.avg = IF q = 1 THEN Zero ELSE y
  <2>1. IsClosingTrade(acct, side) /\ ~(q < 0) /\ q >= 1
    <3>1. Signed(side, 1) = -1 /\ q * (-1) = -q
      BY <1>1, <1>s DEF Signed
    <3>. QED
      BY <1>1, <1>s, <3>1 DEF IsClosingTrade
  <2>2. QtyToClose(acct, 1) = 1 /\ q + Signed(side, 1) = q - 1
    BY <1>1, <1>s, <2>1 DEF QtyToClose, Magnitude, Signed
  <2>3. ~(q * (q - 1) < 0)
    BY <1>1, <2>1, SMT
  <2>4. q - 1 = 0 <=> q = 1
    BY <1>1
  <2>5. new.realized = Plus(x, Times(Minus(Whole(p), y), 1))
    BY <2>1, <2>2 DEF RecordTrade, Realized, UnitPNL
  <2>6. new.avg = IF q = 1 THEN Zero ELSE y
    BY <2>1, <2>2, <2>3, <2>4 DEF RecordTrade, AverageCost
  <2>. QED
    BY <2>2, <2>5, <2>6 DEF RecordTrade
<1>. HIDE DEF q, x, y, new
<1>3. PICK E \in Nat \ {0}, a \in Int, c \in Int :
        Of(x, a, E * (q + 1)) /\ Of(y, c * (q + 1), E * (q + 1)) /\ E * (q + 1) \in Nat \ {0}
  BY <1>1, CommonParts
<1>. DEFINE D == E * (q + 1)
            b == c * (q + 1)
<1>4. D \in Nat \ {0} /\ b \in Int /\ D = E * (q + 1) /\ b = c * (q + 1)
  BY <1>1, <1>3, SMT
<1>5. Of(x, a, D) /\ Of(y, b, D)
  BY <1>3
<1>. HIDE DEF D, b
<1>6. a - b * q = k * D
  <2>1. Minus(x, Times(y, q)) = Whole(k)
    BY <1>2
  <2>. QED
    BY <1>1, <1>4, <1>5, <2>1, CashOf
<1>7. CASE side = "BUY"
  <2>. DEFINE w == c * q + p * E
              v == Over(Plus(Times(y, q), Whole(p)), q + 1)
  <2>1. w \in Int /\ w * (q + 1) = b * q + p * D /\ p * D \in Int /\ b * q \in Int
    BY <1>1, <1>4, SMT
  <2>2. Times(y, q) \in Fraction /\ Of(Times(y, q), b * q, D)
    <3>1. Times(y, q) \in Fraction
      BY <1>1, MoneyTypes
    <3>2. Of(Times(y, q), b * q, D)
      BY <1>1, <1>4, <1>5, TimesOf
    <3>. QED
      BY <3>1, <3>2
  <2>3. Whole(p) \in Fraction /\ Of(Whole(p), p * D, D)
    <3>1. Whole(p) \in Fraction
      BY <1>1, MoneyTypes
    <3>2. Of(Whole(p), p * D, D)
      BY <1>4, WholeOf
    <3>. QED
      BY <3>1, <3>2
  <2>. DEFINE t == Times(y, q)
              sum == Plus(t, Whole(p))
  <2>4. sum \in Fraction /\ Of(sum, w * (q + 1), D)
    <3>. HIDE DEF w
    <3>1. sum \in Fraction
      <4>1. PICK y1 \in Fraction, y2 \in Fraction : sum = Plus(y1, y2)
        BY <2>2, <2>3
      <4>. HIDE DEF sum
      <4>. QED
        BY <1>1, <4>1, MoneyTypes
    <3>2. Of(sum, b * q + p * D, D)
      <4>1. t \in Fraction /\ Whole(p) \in Fraction /\ Of(t, b * q, D)
        BY <2>2, <2>3
      <4>. HIDE DEF t
      <4>. QED
        BY <1>4, <2>1, <2>3, <4>1, PlusOf
    <3>. QED
      BY <2>1, <3>1, <3>2
  <2>5. v \in Fraction /\ Of(v, w, D)
    <3>1. sum \in Fraction /\ w \in Int /\ Of(sum, w * (q + 1), D) /\ v = Over(sum, q + 1)
      BY <2>1, <2>4
    <3>. HIDE DEF sum, w, v
    <3>2. v \in Fraction
      <4>1. PICK j \in Int : j = q + 1 /\ j # 0
        BY <1>1
      <4>2. Over(sum, j) \in Fraction
        BY <3>1, <4>1, MoneyTypes
      <4>. QED
        BY <3>1, <4>1, <4>2
    <3>3. Of(v, w, D)
      BY <1>1, <1>4, <3>1, OverOf
    <3>. QED
      BY <3>2, <3>3
  <2>6. new.qty = q + 1 /\ new.realized = x /\ new.avg = v
    <3>1. p * 1 = p
      OBVIOUS
    <3>. QED
      BY <1>b, <1>7, <3>1
  <2>7. a - w * (q + 1) = (k - p) * D
    <3>1. (k - p) * D = k * D - p * D /\ k * D \in Int
      BY <1>4, SMT
    <3>. QED
      BY <1>6, <2>1, <3>1
  <2>. HIDE DEF w, v
  <2>8. k - p \in Int /\ q + 1 \in Int /\ v \in Fraction /\ Of(v, w, D) /\ w \in Int
    BY <1>1, <2>1, <2>5
  <2>9. Minus(x, Times(v, q + 1)) = Whole(k - p)
    BY <1>1, <1>4, <1>5, <2>7, <2>8, CashOf
  <2>. QED
    BY <1>7, <2>6, <2>9 DEF BookCash, Signed, new
<1>8. CASE side = "SELL"
  <2>. DEFINE u == Minus(Whole(p), y)
              gain == Plus(x, Times(u, 1))
              v == IF q = 1 THEN Zero ELSE y
              w == IF q = 1 THEN 0 ELSE b
              pD == p * D
  <2>1. pD \in Int /\ pD - b \in Int /\ (pD - b) * 1 = pD - b /\ a + (pD - b) \in Int
    BY <1>4, SMT
  <2>2. Of(Whole(p), pD, D)
    BY <1>4, WholeOf
  <2>3. Whole(p) \in Fraction /\ Zero \in Fraction
    BY DEF Whole, Fraction, Zero
  <2>. HIDE DEF pD
  <2>4. u \in Fraction /\ Of(u, pD - b, D)
    <3>1. u \in Fraction
      BY <1>1, <2>3, MoneyTypes
    <3>2. Of(u, pD - b, D)
      BY <1>1, <1>4, <1>5, <2>1, <2>2, <2>3, MinusOf
    <3>. QED
      BY <3>1, <3>2
  <2>. HIDE DEF u
  <2>. DEFINE g == Times(u, 1)
  <2>5. g \in Fraction /\ Of(g, pD - b, D)
    <3>. DEFINE one == 1
    <3>1. one \in Int /\ (pD - b) * one = pD - b
      BY <2>1
    <3>. HIDE DEF one
    <3>2. Times(u, one) \in Fraction
      BY <2>4, <3>1, MoneyTypes
    <3>3. Of(Times(u, one), (pD - b) * one, D)
      BY <1>4, <2>1, <2>4, <3>1, TimesOf
    <3>. QED
      BY <3>1, <3>2, <3>3 DEF one
  <2>6. gain \in Fraction /\ Of(gain, a + (pD - b), D)
    <3>1. gain = Plus(x, g)
      OBVIOUS
    <3>. HIDE DEF g, gain
    <3>2. gain \in Fraction
      BY <1>1, <2>5, <3>1, MoneyTypes
    <3>3. Of(gain, a + (pD - b), D)
      BY <1>1, <1>4, <1>5, <2>1, <2>5, <3>1, PlusOf
    <3>. QED
      BY <3>2, <3>3
  <2>7. v \in Fraction /\ w \in Int /\ Of(v, w, D)
    <3>1. Of(Zero, 0, D)
      BY <1>4 DEF Of, Zero, Whole
    <3>. QED
      BY <1>1, <1>4, <1>5, <2>3, <3>1
  <2>8. new.qty = q - 1 /\ new.realized = gain /\ new.avg = v
    BY <1>8, <1>s DEF u
  <2>9. (a + (pD - b)) - w * (q - 1) = (k + p) * D
    <3>1. w * (q - 1) = b * q - b
      <4>1. CASE q = 1
        BY <1>4, <4>1
      <4>2. CASE q # 1
        BY <1>1, <1>4, <4>2, SMT
      <4>. QED
        BY <4>1, <4>2
    <3>2. (k + p) * D = k * D + p * D /\ k * D \in Int /\ p * D \in Int /\ b * q \in Int
      BY <1>1, <1>4, SMT
    <3>. HIDE DEF w
    <3>. QED
      BY <1>4, <1>6, <2>1, <3>1, <3>2 DEF pD
  <2>. HIDE DEF gain, v, w
  <2>10. k + p \in Int /\ q - 1 \in Int
    BY <1>1
  <2>11. Minus(gain, Times(v, q - 1)) = Whole(k + p)
    <3>. DEFINE a1 == a + (pD - b)
                q1 == q - 1
                k1 == k + p
    <3>1. /\ a1 \in Int /\ q1 \in Int /\ k1 \in Int /\ a1 - w * q1 = k1 * D
          /\ gain \in Fraction /\ Of(gain, a1, D)
      BY <2>1, <2>6, <2>9, <2>10
    <3>. HIDE DEF a1, q1, k1
    <3>2. Minus(gain, Times(v, q1)) = Whole(k1)
      BY <1>4, <2>7, <3>1, CashOf
    <3>. QED
      BY <3>2 DEF q1, k1
  <2>12. k - Signed(side, p) = k + p
    BY <1>8 DEF Signed
  <2>. QED
    BY <2>8, <2>11, <2>12 DEF BookCash, new
<1>. QED
  BY <1>7, <1>8

-----------------------------------------------------------------------------
(* The accounts.                                                           *)

(* What every order brought in, and that the accounts stand at the sum.    *)
Paid == [i \in DOMAIN book |-> -Signed(book[i].side, book[i].exec * book[i].avg)]
CashBooked == BookCash(acc) = Whole(SumOf(Paid, booked))

(* These are numbers.                                                      *)
LEMMA PaidType ==
  ASSUME MockTypeOK, NEW T \in SUBSET DOMAIN book
  PROVE  Summable(Paid, T) /\ SumOf(Paid, T) \in Int
<1>1. IsFiniteSet(T)
  BY MovedType DEF Summable, HedgeSide, Sides
<1>2. \A i \in T : Paid[i] \in Int
  <2>. SUFFICES ASSUME NEW i \in T PROVE Paid[i] \in Int
    OBVIOUS
  <2>1. book[i] \in MockOrder /\ i \in DOMAIN book
    BY BookType
  <2>2. book[i].exec \in Int /\ book[i].avg \in Int
    BY <2>1, MockAssumption DEF MockOrder, Prices
  <2>3. PICK m \in Int : m = book[i].exec * book[i].avg
    BY <2>2, SMT
  <2>. QED
    BY <2>1, <2>3 DEF Paid, Signed
<1>3. Summable(Paid, T)
  BY <1>1, <1>2 DEF Summable
<1>. QED
  BY <1>3, SumType

(* Nothing was paid in the initial states.                                 *)
LEMMA CashStarts ==
  ASSUME Init
  PROVE  CashBooked
<1>1. acc.realized = Whole(0) /\ acc.avg = Whole(0) /\ acc.qty = 0 /\ booked = {}
  BY DEF Init, NewAccountant, Zero
<1>2. SumOf(Paid, booked) = 0
  BY <1>1, SumEmpty
<1>3. Whole(0) \in Fraction /\ Of(Whole(0), 0, 1)
  BY DEF Whole, Fraction, Of
<1>4. Minus(Whole(0), Times(Whole(0), 0)) = Whole(0)
  <2>. DEFINE z == 0
              one == 1
              w == Whole(0)
  <2>1. z \in Int /\ one \in Nat \ {0} /\ z - z * z = z * one /\ w \in Fraction /\ Of(w, z, one)
    BY <1>3
  <2>. HIDE DEF z, one, w
  <2>2. Minus(w, Times(w, z)) = Whole(z)
    BY <2>1, CashOf
  <2>. QED
    BY <2>2 DEF w, z
<1>. QED
  BY <1>1, <1>2, <1>4 DEF CashBooked, BookCash

(* Every booking adds what was paid, whatever else happens.                *)
LEMMA CashBookedKept ==
  ASSUME GridInv, InitTodo, Backed, Bounded, CashBooked, [Next]_vars
  PROVE  CashBooked'
<1>1. /\ booked \subseteq Settled /\ booked \in SUBSET DOMAIN book /\ MockTypeOK /\ MockInv
  BY BookedMoves DEF GridInv, BotInv, MockInv
<1>2. Summable(Paid, booked) /\ SumOf(Paid, booked) \in Int
  BY <1>1, PaidType
<1>3. CASE booked' = booked
  <2>1. acc' = acc
    BY <1>3, NothingBooked
  <2>2. CASE UNCHANGED vars
    BY <2>2 DEF vars, mock, grid, CashBooked, Paid
  <2>3. CASE Next
    <3>1. MockStep
      BY <2>3, BotMockStep DEF GridInv
    <3>2. \A i \in booked : i \in DOMAIN book' /\ book'[i] = book[i]
      BY <1>1, <3>1, BookKept DEF Settled
    <3>3. SumOf(Paid', booked) = SumOf(Paid, booked)
      <4>1. \A i \in booked : Paid[i] = Paid'[i]
        BY <1>1, <3>2 DEF Paid
      <4>2. PICK g, h : g = Paid /\ h = Paid'
        OBVIOUS
      <4>3. SumOf(g, booked) = SumOf(h, booked)
        BY <1>2, <4>1, <4>2, SumSame
      <4>. QED
        BY <4>2, <4>3
    <3>. QED
      BY <1>3, <2>1, <3>3 DEF CashBooked
  <2>. QED
    BY <2>2, <2>3
<1>4. CASE booked' # booked
  <2>1. PICK t \in Thread : Section(t)
    BY <1>4, OneBooked
  <2>. DEFINE i == th[t].order
              side == book[i].side
              p == book[i].avg
              k == SumOf(Paid, booked)
  <2>2. /\ i \in DOMAIN book /\ i \notin booked /\ booked' = booked \cup {i}
        /\ book[i].type = "LIMIT" /\ book[i].exec = 1
        /\ acc' = RecordTrade(acc, side, p, 1) /\ book' = book
    BY <1>4, <2>1, Books DEF mock
  <2>3. side \in {"BUY", "SELL"} /\ p \in Int
    <3>1. book[i] \in MockOrder
      BY <1>1, <2>2, BookType
    <3>. QED
      BY <3>1, MockAssumption DEF MockOrder, Prices
  <2>4. acc \in AccountantType /\ acc.qty \in Nat /\ Cardinality(Sells) \in 0 .. acc.qty
        /\ IsFiniteSet(Sells)
    BY HeldUnits, AllFinite DEF GridInv, BotInv, BotTypes, AccountantType
  <2>5. side = "SELL" => acc.qty > 0
    <3>1. SUFFICES ASSUME side = "SELL" PROVE acc.qty > 0
      OBVIOUS
    <3>2. i \in Sells
      BY <2>2, <3>1 DEF Sells
    <3>3. Cardinality(Sells) # 0
      BY <2>4, <3>2, FS_EmptySet
    <3>. QED
      BY <2>4, <3>3
  <2>6. Paid[i] = -Signed(side, p) /\ Paid' = Paid
    <3>1. book[i].exec * p = p
      BY <2>2, <2>3
    <3>. QED
      BY <2>2, <3>1 DEF Paid
  <2>7. SumOf(Paid, booked') = k + Paid[i]
    <3>1. booked' \in SUBSET DOMAIN book /\ booked' \ {i} = booked /\ i \in booked'
      BY <1>1, <2>2
    <3>. HIDE DEF i
    <3>2. Summable(Paid, booked')
      BY <1>1, <3>1, PaidType
    <3>. QED
      BY <3>1, <3>2, SumAdd
  <2>8. k \in Int /\ BookCash(acc) = Whole(k)
    BY <1>2 DEF CashBooked
  <2>. HIDE DEF side, p, k
  <2>9. BookCash(RecordTrade(acc, side, p, 1)) = Whole(k - Signed(side, p))
    BY <2>3, <2>4, <2>5, <2>8, TradeCash
  <2>10. k - Signed(side, p) = k + Paid[i]
    <3>1. Signed(side, p) \in Int
      BY <2>3 DEF Signed
    <3>. QED
      BY <2>6, <2>8, <3>1
  <2>. QED
    BY <2>2, <2>6, <2>7, <2>9, <2>10 DEF CashBooked
<1>. QED
  BY <1>3, <1>4

(* The two sums of the specification, as those of SumLemmas.               *)
LEMMA BookedQty ==
  ASSUME GridInv
  PROVE  MapThenSumSet(LAMBDA i : Signed(book[i].side, book[i].exec), booked)
           = SumOf(Moved(MainSide), booked)
<1>. DEFINE T == booked
<1>. DEFINE g == [i \in DOMAIN book |-> Signed(book[i].side, book[i].exec)]
            sum == CHOOSE f : f = [S \in SUBSET T |->
                     IF S = {} THEN 0
                     ELSE LET x == CHOOSE x \in S : TRUE
                          IN  Signed(book[x].side, book[x].exec) + f[S \ {x}]]
<1>0. T \in SUBSET DOMAIN book
  BY BookedMoves
<1>1. Summable(Moved(MainSide), T) /\ \A x \in T : Moved(MainSide)[x] = g[x]
  <2>1. Summable(Moved(MainSide), T) /\ booked \subseteq DOMAIN book
    BY BookedMoves
  <2>2. \A x \in booked : Moved(MainSide)[x] = Signed(book[x].side, book[x].qty)
    BY BookedMoves
  <2>3. \A x \in booked : book[x].exec = book[x].qty
    BY BookedMoves DEF Settled, GridInv, BotInv, MockInv, Statuses
  <2>. QED
    BY <1>0, <2>1, <2>2, <2>3
<1>2. Summable(g, T)
  BY <1>1 DEF Summable
<1>3. PICK f : Sums(f, g, T)
  <2>. HIDE DEF g
  <2>. QED
    BY <1>2, SumsExist
<1>4. \A S \in SUBSET T : S # {} => Pick(S) \in S
  BY Picked
<1>5. f = [S \in SUBSET T |->
             IF S = {} THEN 0
             ELSE LET x == CHOOSE x \in S : TRUE
                  IN  Signed(book[x].side, book[x].exec) + f[S \ {x}]]
  BY <1>0, <1>3, <1>4 DEF Sums, Pick
<1>6. sum = [S \in SUBSET T |->
               IF S = {} THEN 0
               ELSE LET x == CHOOSE x \in S : TRUE
                    IN  Signed(book[x].side, book[x].exec) + sum[S \ {x}]]
  <2>. DEFINE P(h) == h = [S \in SUBSET T |->
                       IF S = {} THEN 0
                       ELSE LET x == CHOOSE x \in S : TRUE
                            IN  Signed(book[x].side, book[x].exec) + h[S \ {x}]]
  <2>1. P(f) /\ sum = CHOOSE h : P(h)
    BY <1>5
  <2>. HIDE DEF P, sum
  <2>2. P(sum)
    BY <2>1
  <2>. QED
    BY <2>2 DEF P
<1>7. MapThenSumSet(LAMBDA i : Signed(book[i].side, book[i].exec), T) = sum[T]
  BY DEF MapThenSumSet, MapThenFoldSet
<1>. HIDE DEF sum
<1>8. Sums(sum, g, T)
  BY <1>0, <1>4, <1>6 DEF Sums, Pick
<1>. HIDE DEF g
<1>9. sum[T] = SumOf(g, T) /\ SumOf(g, T) = SumOf(Moved(MainSide), T)
  BY <1>1, <1>2, <1>8, SumIs, SumSame
<1>. QED
  BY <1>7, <1>9

(* The cash of the specification.                                          *)
LEMMA BookedCash ==
  ASSUME GridInv
  PROVE  MapThenSumSet(LAMBDA i : -Signed(book[i].side, book[i].exec * book[i].avg), booked)
           = SumOf(Paid, booked)
<1>. DEFINE T == booked
<1>. DEFINE g == [i \in DOMAIN book |-> -Signed(book[i].side, book[i].exec * book[i].avg)]
            sum == CHOOSE f : f = [S \in SUBSET T |->
                     IF S = {} THEN 0
                     ELSE LET x == CHOOSE x \in S : TRUE
                          IN  -Signed(book[x].side, book[x].exec * book[x].avg) + f[S \ {x}]]
<1>0. T \in SUBSET DOMAIN book
  BY BookedMoves
<1>1. Summable(Paid, T) /\ \A x \in T : Paid[x] = g[x]
  BY BookedMoves, PaidType DEF GridInv, BotInv, MockInv, Paid
<1>2. Summable(g, T)
  BY <1>1 DEF Summable
<1>3. PICK f : Sums(f, g, T)
  <2>. HIDE DEF g
  <2>. QED
    BY <1>2, SumsExist
<1>4. \A S \in SUBSET T : S # {} => Pick(S) \in S
  BY Picked
<1>5. f = [S \in SUBSET T |->
             IF S = {} THEN 0
             ELSE LET x == CHOOSE x \in S : TRUE
                  IN  -Signed(book[x].side, book[x].exec * book[x].avg) + f[S \ {x}]]
  BY <1>0, <1>3, <1>4 DEF Sums, Pick
<1>6. sum = [S \in SUBSET T |->
               IF S = {} THEN 0
               ELSE LET x == CHOOSE x \in S : TRUE
                    IN  -Signed(book[x].side, book[x].exec * book[x].avg) + sum[S \ {x}]]
  <2>. DEFINE P(h) == h = [S \in SUBSET T |->
                       IF S = {} THEN 0
                       ELSE LET x == CHOOSE x \in S : TRUE
                            IN  -Signed(book[x].side, book[x].exec * book[x].avg) + h[S \ {x}]]
  <2>1. P(f) /\ sum = CHOOSE h : P(h)
    BY <1>5
  <2>. HIDE DEF P, sum
  <2>2. P(sum)
    BY <2>1
  <2>. QED
    BY <2>2 DEF P
<1>7. MapThenSumSet(LAMBDA i : -Signed(book[i].side, book[i].exec * book[i].avg), T) = sum[T]
  BY DEF MapThenSumSet, MapThenFoldSet
<1>. HIDE DEF sum
<1>8. Sums(sum, g, T)
  BY <1>0, <1>4, <1>6 DEF Sums, Pick
<1>. HIDE DEF g
<1>9. sum[T] = SumOf(g, T) /\ SumOf(g, T) = SumOf(Paid, T)
  BY <1>1, <1>2, <1>8, SumIs, SumSame
<1>. QED
  BY <1>7, <1>9

(* The accountant's position is that of the fills it booked, each with the *)
(* quantity the exchange executed; and its profit, less what its position  *)
(* cost by its average, is to the last fraction of a cent what those fills *)
(* brought in.  Whichever goroutine books a fill, it books it once, and    *)
(* reads no quantity and no price that the simulator has not finished.     *)
THEOREM AccountsAlwaysAgree == Spec => []AccountsAgree
<1>. DEFINE I == GridInv /\ InitTodo /\ Backed /\ Bounded /\ QtyBooked /\ CashBooked
<1>1. Init => I
  BY UnitsStart, BooksStart, CashStarts
<1>2. I /\ [Next]_vars => I'
  BY GridInvKept, UnitsKept, QtyBookedKept, CashBookedKept
<1>3. I => AccountsAgree
  BY BookedQty, BookedCash DEF QtyBooked, CashBooked, AccountsAgree
<1>. QED
  BY <1>1, <1>2, <1>3, PTL DEF Spec
=============================================================================
