------------------------ MODULE CrossMarginPools_proofs ------------------------
(***************************************************************************)
(* What margin accounts do to the pools they borrow from, for all assets,  *)
(* amounts, curves and mints: the books of every pool stay in order, and   *)
(* every step is for every pool a step that LendingPool allows.            *)
(***************************************************************************)
EXTENDS CrossMargin_proofs

-----------------------------------------------------------------------------
(* The books of one pool: its reserve r and the shares p of all positions *)

Books(r, p) ==
  /\ r \in ReserveRecords
  /\ p \in [Margins -> Nat]
  /\ TotalOf(p) = r.total_borrow_shares
  /\ r.total_borrow_shares <= r.total_borrow_assets
  /\ r.total_borrow_shares = 0 => r.total_borrow_assets = 0

\* There are finitely many accounts and assets, so sums over them exist.
LEMMA Finite == IsFiniteSet(Margins) /\ IsFiniteSet(Assets)
BY CrossMarginAssumption

\* A position holds no more than all the shares.
LEMMA BooksBound ==
  ASSUME NEW r, NEW p, Books(r, p), NEW m \in Margins
  PROVE  /\ p[m] \in Nat /\ p[m] <= r.total_borrow_shares
         /\ r.total_borrow_shares \in Nat /\ r.total_borrow_assets \in Nat
<1>1. r.total_borrow_shares \in Nat /\ r.total_borrow_assets \in Nat
  BY DEF Books, ReserveRecords, U64
<1>2. p[m] <= TotalOf(p)
  BY TotalOfExcept, Finite, 0 \in Nat DEF Books
<1> QED
  BY <1>1, <1>2 DEF Books

\* Interest leaves the shares and the cash alone.
LEMMA BooksAccrue ==
  ASSUME NEW r, NEW p, Books(r, p), NEW t \in Nat, AccrualSucceeds(r, ReserveConfig, t)
  PROVE  /\ Books(accrue(r, ReserveConfig, t), p)
         /\ accrue(r, ReserveConfig, t).accounted_liquidity_assets = r.accounted_liquidity_assets
<1> DEFINE grown == accrue(r, ReserveConfig, t)
<1>1. r \in ReserveRecords /\ ReserveConfig \in ConfigRecords
  BY CrossMarginAssumption DEF Books
<1>2. /\ grown \in ReserveRecords
      /\ grown.accounted_liquidity_assets = r.accounted_liquidity_assets
      /\ grown.total_borrow_shares = r.total_borrow_shares
      /\ grown.total_borrow_assets >= r.total_borrow_assets
      /\ r.total_borrow_assets = 0 => grown.total_borrow_assets = 0
  BY <1>1, AccrualEffect
<1> HIDE DEF grown
<1>3. /\ grown.total_borrow_assets \in Nat /\ r.total_borrow_assets \in Nat
      /\ r.total_borrow_shares \in Nat
  BY <1>1, <1>2 DEF ReserveRecords, U64
<1> QED
  BY <1>2, <1>3 DEF Books, grown

\* A loan of x adds its shares to the position and to the total.
LEMMA BooksLend ==
  ASSUME NEW r, NEW p, Books(r, p), NEW m \in Margins, NEW x \in Nat \ {0},
         x <= r.accounted_liquidity_assets, r.total_borrow_assets + x \in U64
  PROVE  LET s == assets_to_debt_shares_up(x, r.total_borrow_shares, r.total_borrow_assets)
         IN  /\ s \in Nat \ {0}
             /\ Books(AfterBorrow(r, x, s), [p EXCEPT ![m] = @ + s])
<1> DEFINE S == r.total_borrow_shares
           T == r.total_borrow_assets
           s == assets_to_debt_shares_up(x, S, T)
           after == AfterBorrow(r, x, s)
           q == [p EXCEPT ![m] = @ + s]
<1>1. r \in ReserveRecords /\ p \in [Margins -> Nat] /\ TotalOf(p) = S /\ S <= T
  BY DEF Books
<1>2. S \in Nat /\ T \in Nat /\ T \in U64 /\ r.accounted_liquidity_assets \in U64
  BY <1>1 DEF ReserveRecords, U64
<1>3. s \in Nat \ {0} /\ s <= x
  <2> HIDE DEF S, T
  <2> QED
    BY <1>1, <1>2, SharesForLoan
<1> HIDE DEF s
<1>4. p[m] \in Nat /\ p[m] + s \in Nat /\ S + s \in Nat
  BY <1>1, <1>2, <1>3
<1>5. TotalOf(q) = S + s
  <2> DEFINE v == p[m] + s
  <2>1. q = [p EXCEPT ![m] = v]
    OBVIOUS
  <2>2. v \in Nat
    BY <1>4
  <2> HIDE DEF v, q
  <2>3. TotalOf(q) = TotalOf(p) - p[m] + v
    <3>1. TotalOf([p EXCEPT ![m] = v]) = TotalOf(p) - p[m] + v
      BY <1>1, <2>1, <2>2, TotalOfExcept, Finite
    <3> QED
      BY <3>1, <2>1
  <2> HIDE DEF S
  <2> QED
    BY <1>1, <1>2, <1>3, <1>4, <2>3 DEF v
<1>6. r.accounted_liquidity_assets - x \in U64
  BY <1>2, ReserveMathAssumption DEF U64
<1>7. /\ after \in ReserveRecords
      /\ after.total_borrow_shares = S + s
      /\ after.total_borrow_assets = T + x
  BY <1>1, <1>4, <1>6 DEF AfterBorrow, ReserveRecords
<1>8. q \in [Margins -> Nat]
  BY <1>1, <1>4
<1> HIDE DEF S, T, after, q
<1>9. S + s <= T + x /\ (S + s = 0 => T + x = 0)
  BY <1>1, <1>2, <1>3
<1>10. Books(after, q)
  BY <1>5, <1>7, <1>8, <1>9 DEF Books
<1> QED
  BY <1>3, <1>10 DEF s, after, q, S, T

\* A payment against k shares of a position takes what it burns from the
\* position and from the total.
LEMMA BooksPay ==
  ASSUME NEW r, NEW p, Books(r, p), NEW m \in Margins, NEW k \in 0..p[m], NEW received \in Nat,
         NEW owed,
         owed = debt_shares_to_assets_up(k, r.total_borrow_shares, r.total_borrow_assets),
         owed > 0, r.accounted_liquidity_assets + received \in U64
  PROVE  LET burned == DebtSharesBurned(r, k, owed, received)
             after  == AfterRepay(r, owed, received, burned)
         IN  /\ burned \in 0..k
             /\ received >= owed => burned = k
             /\ received < owed => burned < k
             /\ Books(after, [p EXCEPT ![m] = p[m] - burned])
             /\ after.accounted_liquidity_assets = r.accounted_liquidity_assets + received
<1> DEFINE burned == DebtSharesBurned(r, k, owed, received)
           after  == AfterRepay(r, owed, received, burned)
           q      == [p EXCEPT ![m] = p[m] - burned]
<1>1. r \in ReserveRecords /\ p \in [Margins -> Nat] /\ TotalOf(p) = r.total_borrow_shares
  BY DEF Books
<1>2. p[m] \in Nat /\ p[m] <= r.total_borrow_shares /\ r.total_borrow_shares \in Nat
  BY BooksBound
<1>3. k \in Nat /\ k <= r.total_borrow_shares
  BY <1>2
<1>4. /\ burned \in 0..k
      /\ received < owed => burned < k
      /\ received >= owed => burned = k
      /\ after.total_borrow_assets \in U64
      /\ after.total_borrow_shares = r.total_borrow_shares - burned
      /\ after.total_borrow_shares \in Nat
      /\ after.total_borrow_shares <= after.total_borrow_assets
      /\ after.total_borrow_shares = 0 => after.total_borrow_assets = 0
      /\ after.accounted_liquidity_assets = r.accounted_liquidity_assets + received
  BY <1>1, <1>3, RepaymentEffect DEF Books
<1> HIDE DEF burned
<1>5. after \in ReserveRecords
  <2>1. after.accounted_liquidity_assets \in U64
    BY <1>4
  <2> QED
    BY <1>1, <1>4, <2>1 DEF AfterRepay, ReserveRecords
<1> HIDE DEF after
<1>6. p[m] - burned \in Nat
  BY <1>2, <1>4
<1>7. TotalOf(q) = r.total_borrow_shares - burned
  <2> DEFINE v == p[m] - burned
  <2>1. v \in Nat /\ q = [p EXCEPT ![m] = v]
    BY <1>6
  <2> HIDE DEF v, q
  <2>2. TotalOf(q) = TotalOf(p) - p[m] + v
    <3>1. TotalOf([p EXCEPT ![m] = v]) = TotalOf(p) - p[m] + v
      BY <1>1, <2>1, TotalOfExcept, Finite
    <3> QED
      BY <3>1, <2>1
  <2>3. burned \in Int
    BY <1>4
  <2> QED
    BY <1>1, <1>2, <2>2, <2>3 DEF v
<1>8. q \in [Margins -> Nat]
  BY <1>1, <1>6
<1> HIDE DEF q
<1>9. Books(after, q)
  BY <1>4, <1>5, <1>7, <1>8 DEF Books
<1> QED
  BY <1>4, <1>9 DEF burned, after, q
-----------------------------------------------------------------------------
(* The ledger: the books of every pool, its cash, and who owes it *)

\* The debt shares of all positions against the pool of a.
SharesOf(a) == [m \in Margins |-> debtShares[m][a]]

LedgerTypes ==
  /\ now \in Nat
  /\ reserve \in [Assets -> ReserveRecords]
  /\ liquidity \in [Assets -> U64]
  /\ opened \in [Margins -> SUBSET Assets]
  /\ debtShares \in [Margins -> [Assets -> Nat]]
  /\ debtActive \in [Margins -> SUBSET Assets]

\* With idle lenders and no fees collected, the cash is what the reserve counts.
InOrder(a) ==
  /\ Books(reserve[a], SharesOf(a))
  /\ liquidity[a] = reserve[a].accounted_liquidity_assets
  /\ reserve[a].last_update_timestamp <= now
  /\ \A m \in Margins : /\ debtShares[m][a] > 0 <=> a \in debtActive[m]
                        /\ a \in debtActive[m] => a \in opened[m]

Ledger == LedgerTypes /\ \A a \in Assets : InOrder(a)

\* The books are in order before anybody has borrowed.
LEMMA InitLedger == Init => Ledger
<1> SUFFICES ASSUME Init PROVE Ledger
  OBVIOUS
<1>1. 0 \in U64 /\ Wad \in Nat /\ Supplied \in [Assets -> U64]
  BY ReserveMathAssumption, CrossMarginAssumption DEF U64
<1>2. reserve \in [Assets -> ReserveRecords]
  BY <1>1 DEF Init, ReserveRecords
<1>3. LedgerTypes
  BY <1>1, <1>2 DEF Init, LedgerTypes
<1>4. ASSUME NEW a \in Assets PROVE InOrder(a)
  <2>1. SharesOf(a) = [m \in Margins |-> 0]
    BY DEF Init, SharesOf
  <2>2. TotalOf(SharesOf(a)) = 0
    BY <2>1, TotalOfZero
  <2>3. /\ reserve[a] \in ReserveRecords
        /\ reserve[a].total_borrow_shares = 0 /\ reserve[a].total_borrow_assets = 0
        /\ reserve[a].accounted_liquidity_assets = Supplied[a]
        /\ reserve[a].last_update_timestamp = 0 /\ now = 0
    BY <1>2 DEF Init
  <2>4. Books(reserve[a], SharesOf(a))
    BY <2>1, <2>2, <2>3 DEF Books
  <2> QED
    BY <2>3, <2>4 DEF Init, InOrder
<1> QED
  BY <1>3, <1>4 DEF Ledger

\* The reserve of d becomes r, and m has k of its shares, the debts D and the
\* open positions O.
Moved(m, d, r, k, D, O) ==
  /\ reserve' = [reserve EXCEPT ![d] = r]
  /\ liquidity' = [liquidity EXCEPT ![d] = r.accounted_liquidity_assets]
  /\ debtShares' = [debtShares EXCEPT ![m][d] = k]
  /\ debtActive' = [debtActive EXCEPT ![m] = D]
  /\ opened' = [opened EXCEPT ![m] = O]
  /\ now' = now

\* A step that changes the reserve of d, its cash by as much, and the shares
\* of one position, keeps the ledger when the books of d are in order after it.
LEMMA LedgerMove ==
  ASSUME Ledger, NEW m \in Margins, NEW d \in Assets, NEW r, NEW k \in Nat,
         NEW D \in SUBSET Assets, NEW O \in SUBSET Assets,
         Moved(m, d, r, k, D, O), r.last_update_timestamp <= now,
         Books(r, [SharesOf(d) EXCEPT ![m] = k]),
         D \ {d} = debtActive[m] \ {d}, k > 0 <=> d \in D, D \subseteq O
  PROVE  Ledger'
<1>1. /\ now \in Nat /\ reserve \in [Assets -> ReserveRecords] /\ liquidity \in [Assets -> U64]
      /\ opened \in [Margins -> SUBSET Assets]
      /\ debtShares \in [Margins -> [Assets -> Nat]]
      /\ debtActive \in [Margins -> SUBSET Assets]
  BY DEF Ledger, LedgerTypes
<1>10. /\ reserve' = [reserve EXCEPT ![d] = r]
       /\ liquidity' = [liquidity EXCEPT ![d] = r.accounted_liquidity_assets]
       /\ debtShares' = [debtShares EXCEPT ![m][d] = k]
       /\ debtActive' = [debtActive EXCEPT ![m] = D]
       /\ opened' = [opened EXCEPT ![m] = O]
       /\ now' = now
  BY DEF Moved
<1>2. r \in ReserveRecords /\ r.accounted_liquidity_assets \in U64
  BY DEF Books, ReserveRecords
<1>3. debtShares' \in [Margins -> [Assets -> Nat]]
  <2>1. [debtShares[m] EXCEPT ![d] = k] \in [Assets -> Nat]
    BY <1>1
  <2>2. debtShares' = [debtShares EXCEPT ![m] = [debtShares[m] EXCEPT ![d] = k]]
    BY <1>10
  <2> QED
    BY <1>1, <1>10, <2>1, <2>2
<1>4. LedgerTypes'
  BY <1>1, <1>2, <1>3, <1>10 DEF LedgerTypes
<1>5. ASSUME NEW a \in Assets PROVE InOrder(a)'
  <2>1. InOrder(a)
    BY DEF Ledger
  <2>2. CASE a = d
    <3>1. reserve'[a] = r /\ liquidity'[a] = r.accounted_liquidity_assets
      BY <1>1, <1>10, <2>2
    <3>2. SharesOf(a)' = [SharesOf(d) EXCEPT ![m] = k]
      BY <1>1, <1>10, <2>2 DEF SharesOf
    <3>3. ASSUME NEW n \in Margins
          PROVE  /\ debtShares'[n][a] > 0 <=> a \in debtActive'[n]
                 /\ a \in debtActive'[n] => a \in opened'[n]
      <4>1. CASE n = m
        BY <1>1, <1>10, <2>2, <4>1
      <4>2. CASE n # m
        <5>1. /\ debtShares'[n][a] = debtShares[n][a] /\ debtActive'[n] = debtActive[n]
              /\ opened'[n] = opened[n]
          BY <1>1, <1>10, <4>2
        <5> QED
          BY <2>1, <5>1 DEF InOrder
      <4> QED
        BY <4>1, <4>2
    <3> QED
      BY <1>10, <3>1, <3>2, <3>3 DEF InOrder
  <2>3. CASE a # d
    <3>1. reserve'[a] = reserve[a] /\ liquidity'[a] = liquidity[a]
      BY <1>1, <1>10, <2>3
    <3>2. \A n \in Margins : debtShares'[n][a] = debtShares[n][a]
      BY <1>1, <1>10, <2>3
    <3>3. SharesOf(a)' = SharesOf(a)
      BY <3>2 DEF SharesOf
    <3>4. ASSUME NEW n \in Margins
          PROVE  /\ debtShares'[n][a] > 0 <=> a \in debtActive'[n]
                 /\ a \in debtActive'[n] => a \in opened'[n]
      <4>1. CASE n = m
        <5>1. a \in debtActive'[n] <=> a \in debtActive[n]
          BY <1>1, <1>10, <2>3, <4>1
        <5>2. a \in debtActive'[n] => a \in opened'[n]
          BY <1>1, <1>10, <4>1
        <5> QED
          BY <2>1, <3>2, <5>1, <5>2 DEF InOrder
      <4>2. CASE n # m
        <5>1. debtActive'[n] = debtActive[n] /\ opened'[n] = opened[n]
          BY <1>1, <1>10, <4>2
        <5> QED
          BY <2>1, <3>2, <5>1 DEF InOrder
      <4> QED
        BY <4>1, <4>2
    <3> QED
      BY <1>10, <2>1, <3>1, <3>3, <3>4 DEF InOrder
  <2> QED
    BY <2>2, <2>3
<1> QED
  BY <1>4, <1>5 DEF Ledger

\* So does a step that leaves reserves and positions alone, and takes no
\* account of a debt position away that an account still owes by.
LEMMA LedgerRest ==
  ASSUME Ledger, UNCHANGED <<pools, debtShares, debtActive>>,
         now' \in Nat, now <= now', opened' \in [Margins -> SUBSET Assets],
         \A m \in Margins : debtActive[m] \subseteq opened'[m]
  PROVE  Ledger'
<1>1. LedgerTypes'
  BY DEF Ledger, LedgerTypes, pools
<1>2. ASSUME NEW a \in Assets PROVE InOrder(a)'
  <2>1. InOrder(a)
    BY DEF Ledger
  <2>2. SharesOf(a)' = SharesOf(a)
    BY DEF SharesOf
  <2>3. reserve'[a].last_update_timestamp <= now'
    <3>1. /\ reserve[a].last_update_timestamp \in Nat /\ now \in Nat /\ reserve' = reserve
          /\ reserve[a].last_update_timestamp <= now
      BY <2>1 DEF Ledger, LedgerTypes, ReserveRecords, InOrder, pools
    <3> QED
      BY <3>1
  <2> QED
    BY <2>1, <2>2, <2>3 DEF InOrder, pools
<1> QED
  BY <1>1, <1>2 DEF Ledger
-----------------------------------------------------------------------------
(* The arithmetic of a pool is that of ReserveMath *)

\* The interest of a pool is that of ReserveMath.
LEMMA PoolAccrue ==
  ASSUME NEW a \in Assets
  PROVE  \A r, c, t : Pool(a)!accrue(r, c, t) = accrue(r, c, t)
<1>1. ASSUME NEW r, NEW c, NEW t PROVE Pool(a)!InterestDue(r, c, t) = InterestDue(r, c, t)
  <2>1. ASSUME NEW u PROVE Pool(a)!borrow_rate_per_second_wad(c, u) = borrow_rate_per_second_wad(c, u)
    <3>1. Pool(a)!WadSquare = WadSquare
      BY DEF Pool!WadSquare, WadSquare
    <3>2. Pool(a)!WadPow32(u) = WadPow32(u)
      BY <3>1 DEF Pool!WadPow32, WadPow32
    <3>3. Pool(a)!WadPow64(u) = WadPow64(u)
      BY <3>1, <3>2 DEF Pool!WadPow64, WadPow64
    <3> QED
      BY <3>2, <3>3 DEF Pool!borrow_rate_per_second_wad, borrow_rate_per_second_wad,
           Pool!mul_div_floor, mul_div_floor
  <2>2. ASSUME NEW l, NEW b PROVE Pool(a)!utilization_wad(l, b) = utilization_wad(l, b)
    BY DEF Pool!utilization_wad, utilization_wad, Pool!mul_div_floor, mul_div_floor
  <2> QED
    BY <2>1, <2>2 DEF Pool!InterestDue, InterestDue, Pool!mul_div_ceil, mul_div_ceil
<1>2. ASSUME NEW i, NEW c PROVE Pool(a)!ProtocolFee(i, c) = ProtocolFee(i, c)
  BY DEF Pool!ProtocolFee, ProtocolFee, Pool!mul_div_floor, mul_div_floor
<1>3. ASSUME NEW r, NEW t PROVE Pool(a)!GrownIndex(r, t) = GrownIndex(r, t)
  BY DEF Pool!GrownIndex, GrownIndex, Pool!mul_div_floor, mul_div_floor, Pool!MaxOf, MaxOf
<1>4. ASSUME NEW r, NEW c, NEW t PROVE Pool(a)!accrue(r, c, t) = accrue(r, c, t)
  BY <1>1, <1>2, <1>3 DEF Pool!accrue, accrue
<1> QED
  BY <1>4

\* So are its current totals, and whether they can be computed.
LEMMA PoolCurrent ==
  ASSUME NEW a \in Assets
  PROVE  /\ Pool(a)!Current = accrue(reserve[a], ReserveConfig, now)
         /\ Pool(a)!AccrualOK <=> AccrualSucceeds(reserve[a], ReserveConfig, now)
<1>1. ASSUME NEW r, NEW c, NEW t
      PROVE  Pool(a)!AccrualSucceeds(r, c, t) <=> AccrualSucceeds(r, c, t)
  BY PoolAccrue DEF Pool!AccrualSucceeds, AccrualSucceeds, Pool!U64, U64
<1> QED
  BY <1>1, PoolAccrue DEF Pool!Current, Pool!AccrualOK

\* What a position owes is a conversion of its shares.
LEMMA PoolOwed ==
  ASSUME NEW a \in Assets, NEW m \in Margins
  PROVE  Pool(a)!Owed(m) =
           debt_shares_to_assets_up(debtShares[m][a], Pool(a)!Current.total_borrow_shares,
                                    Pool(a)!Current.total_borrow_assets)
BY DEF Pool!Owed, Pool!debt_shares_to_assets_up, debt_shares_to_assets_up,
       Pool!mul_div_ceil, mul_div_ceil

\* The same after a step.
LEMMA PoolAfter ==
  ASSUME NEW a \in Assets, NEW m \in Margins
  PROVE  /\ Pool(a)!Current' = accrue(reserve'[a], ReserveConfig, now')
         /\ Pool(a)!Owed(m)' =
              debt_shares_to_assets_up(debtShares'[m][a], (Pool(a)!Current').total_borrow_shares,
                                       (Pool(a)!Current').total_borrow_assets)
<1>1. Pool(a)!Current' = accrue(reserve'[a], ReserveConfig, now')
  BY PoolAccrue DEF Pool!Current
<1>2. Pool(a)!Owed(m)' =
        debt_shares_to_assets_up(debtShares'[m][a], (Pool(a)!Current').total_borrow_shares,
                                 (Pool(a)!Current').total_borrow_assets)
  BY DEF Pool!Owed, Pool!debt_shares_to_assets_up, debt_shares_to_assets_up,
         Pool!mul_div_ceil, mul_div_ceil
<1> QED
  BY <1>1, <1>2

\* What a settlement is made of.
LEMMA PoolSettlement ==
  ASSUME NEW a \in Assets, NEW m \in Margins, NEW sent, NEW owed
  PROVE  LET r        == Pool(a)!Current
             received == sent - TransferFee(sent)
             burned   == DebtSharesBurned(r, debtShares[m][a], owed, received)
             s        == Pool(a)!Settlement(m, sent, owed)
         IN  /\ s.received = received
             /\ s.shares = debtShares[m][a] - burned
             /\ s.reserve = AfterRepay(r, owed, received, burned)
<1>1. ASSUME NEW r, NEW p, NEW o, NEW x
      PROVE  Pool(a)!DebtSharesBurned(r, p, o, x) = DebtSharesBurned(r, p, o, x)
  BY DEF Pool!DebtSharesBurned, DebtSharesBurned, Pool!MinOf, MinOf,
         Pool!mul_div_floor, mul_div_floor
<1>2. ASSUME NEW r, NEW o, NEW x, NEW b PROVE Pool(a)!AfterRepay(r, o, x, b) = AfterRepay(r, o, x, b)
  BY DEF Pool!AfterRepay, AfterRepay, Pool!SaturatingSub, SaturatingSub, Pool!MinOf, MinOf
<1> QED
  BY <1>1, <1>2 DEF Pool!Settlement, Pool!Delivered

\* The books of a pool with the interest to date.
LEMMA CurrentBooks ==
  ASSUME Ledger, NEW a \in Assets, Pool(a)!AccrualOK
  PROVE  /\ Books(Pool(a)!Current, SharesOf(a))
         /\ Pool(a)!Current.accounted_liquidity_assets = liquidity[a]
         /\ Pool(a)!Current.last_update_timestamp = now
<1>1. /\ Books(reserve[a], SharesOf(a)) /\ reserve[a] \in ReserveRecords /\ now \in Nat
      /\ AccrualSucceeds(reserve[a], ReserveConfig, now) /\ ReserveConfig \in ConfigRecords
      /\ liquidity[a] = reserve[a].accounted_liquidity_assets
  BY PoolCurrent, CrossMarginAssumption DEF Ledger, LedgerTypes, InOrder
<1> QED
  BY <1>1, BooksAccrue, AccrualEffect, PoolCurrent
-----------------------------------------------------------------------------
(* Loans *)

\* What a loan makes of the books of its pool.
LEMMA LoanBooks ==
  ASSUME Ledger, NEW m \in Margins, NEW a \in Assets, NEW x \in Nat \ {0}, Pool(a)!AccrualOK,
         x <= Pool(a)!Current.accounted_liquidity_assets,
         Pool(a)!Current.total_borrow_assets + x \in U64
  PROVE  LET loan == Loan(m, a, x)
         IN  /\ loan.position \in Nat /\ loan.position > debtShares[m][a]
             /\ Books(loan.reserve, [SharesOf(a) EXCEPT ![m] = loan.position])
             /\ loan.reserve.accounted_liquidity_assets = liquidity[a] - x
             /\ loan.reserve.last_update_timestamp = now
<1> DEFINE r == Pool(a)!Current
           s == assets_to_debt_shares_up(x, r.total_borrow_shares, r.total_borrow_assets)
           loan == Loan(m, a, x)
<1>1. /\ Books(r, SharesOf(a)) /\ r.accounted_liquidity_assets = liquidity[a]
      /\ r.last_update_timestamp = now /\ r \in ReserveRecords
  BY CurrentBooks DEF Books
<1>2. loan.position = debtShares[m][a] + s /\ loan.reserve = AfterBorrow(r, x, s)
  BY DEF Loan
<1>3. SharesOf(a)[m] = debtShares[m][a] /\ debtShares[m][a] \in Nat
  BY DEF SharesOf, Ledger, LedgerTypes
<1> HIDE DEF r, loan
<1>4. /\ s \in Nat \ {0}
      /\ Books(AfterBorrow(r, x, s), [SharesOf(a) EXCEPT ![m] = @ + s])
  BY <1>1, BooksLend DEF r
<1> HIDE DEF s
<1>5. Books(loan.reserve, [SharesOf(a) EXCEPT ![m] = loan.position])
  <2>1. [SharesOf(a) EXCEPT ![m] = @ + s] = [SharesOf(a) EXCEPT ![m] = loan.position]
    BY <1>2, <1>3
  <2> QED
    BY <1>2, <1>4, <2>1
<1>6. /\ loan.reserve.accounted_liquidity_assets = liquidity[a] - x
      /\ loan.reserve.last_update_timestamp = now
  BY <1>1, <1>2 DEF AfterBorrow, ReserveRecords
<1>7. loan.position \in Nat /\ loan.position > debtShares[m][a]
  BY <1>2, <1>3, <1>4
<1> QED
  BY <1>5, <1>6, <1>7 DEF loan

\* A loan keeps the ledger; the account of the position exists afterwards.
LEMMA LoanLedger ==
  ASSUME Ledger, NEW m \in Margins, NEW a \in Assets, NEW x \in Amounts, NEW B,
         LoanAllowed(a, x), TakeLoan(m, a, x, B), now' = now,
         opened' = [opened EXCEPT ![m] = @ \cup {a}]
  PROVE  /\ Ledger'
         /\ Moved(m, a, Loan(m, a, x).reserve, Loan(m, a, x).position,
                  debtActive[m] \cup {a}, opened[m] \cup {a})
<1> DEFINE loan == Loan(m, a, x)
<1>1. /\ x \in Nat \ {0} /\ Pool(a)!AccrualOK
      /\ x <= Pool(a)!Current.accounted_liquidity_assets
      /\ Pool(a)!Current.total_borrow_assets + x \in U64
  BY CrossMarginAssumption DEF LoanAllowed, LendingOpen, U64
<1>2. /\ loan.position \in Nat /\ loan.position > debtShares[m][a]
      /\ Books(loan.reserve, [SharesOf(a) EXCEPT ![m] = loan.position])
      /\ loan.reserve.accounted_liquidity_assets = liquidity[a] - x
      /\ loan.reserve.last_update_timestamp = now
  BY <1>1, LoanBooks
<1>3. /\ reserve' = [reserve EXCEPT ![a] = loan.reserve]
      /\ liquidity' = [liquidity EXCEPT ![a] = @ - x]
      /\ debtShares' = [debtShares EXCEPT ![m][a] = loan.position]
      /\ debtActive' = [debtActive EXCEPT ![m] = @ \cup {a}]
  BY DEF TakeLoan
<1> HIDE DEF loan
<1> DEFINE D == debtActive[m] \cup {a}
           O == opened[m] \cup {a}
<1>4. /\ debtActive[m] \in SUBSET Assets /\ opened[m] \in SUBSET Assets
      /\ debtActive[m] \subseteq opened[m]
      /\ debtShares[m][a] \in Nat /\ now \in Nat
  BY DEF Ledger, LedgerTypes, InOrder
<1>5. Moved(m, a, loan.reserve, loan.position, D, O) /\ loan.reserve.last_update_timestamp <= now
  BY <1>2, <1>3, <1>4 DEF Moved
<1>6. /\ D \in SUBSET Assets /\ O \in SUBSET Assets /\ D \subseteq O
      /\ D \ {a} = debtActive[m] \ {a} /\ (loan.position > 0 <=> a \in D)
  BY <1>2, <1>4
<1> HIDE DEF D, O
<1>7. Ledger'
  BY <1>2, <1>5, <1>6, LedgerMove
<1> QED
  BY <1>5, <1>7 DEF D, O, loan

-----------------------------------------------------------------------------
(* Settlements *)

\* What a payment of `sent` makes of the books of its pool.
LEMMA SettlementBooks ==
  ASSUME Ledger, NEW m \in Margins, NEW a \in Assets, NEW sent \in U64, Pool(a)!AccrualOK,
         Pool(a)!Owed(m) > 0,
         Pool(a)!SettlementSucceeds(m, Pool(a)!Settlement(m, sent, Pool(a)!Owed(m)))
  PROVE  LET s == Pool(a)!Settlement(m, sent, Pool(a)!Owed(m))
         IN  /\ s.shares \in Nat /\ s.shares <= debtShares[m][a]
             /\ s.received = sent - TransferFee(sent) /\ s.received \in Nat
             /\ Books(s.reserve, [SharesOf(a) EXCEPT ![m] = s.shares])
             /\ s.reserve.accounted_liquidity_assets = liquidity[a] + s.received
             /\ s.reserve.last_update_timestamp = now
<1> DEFINE r == Pool(a)!Current
           owed == Pool(a)!Owed(m)
           received == sent - TransferFee(sent)
           burned == DebtSharesBurned(r, debtShares[m][a], owed, received)
           s == Pool(a)!Settlement(m, sent, owed)
<1>1. /\ Books(r, SharesOf(a)) /\ r.accounted_liquidity_assets = liquidity[a]
      /\ r.last_update_timestamp = now /\ r \in ReserveRecords
  BY CurrentBooks DEF Books
<1>2. /\ s.received = received /\ s.shares = debtShares[m][a] - burned
      /\ s.reserve = AfterRepay(r, owed, received, burned)
  BY PoolSettlement
<1>3. SharesOf(a)[m] = debtShares[m][a] /\ debtShares[m][a] \in Nat
  BY DEF SharesOf, Ledger, LedgerTypes
<1>4. owed = debt_shares_to_assets_up(debtShares[m][a], r.total_borrow_shares, r.total_borrow_assets)
  BY PoolOwed
<1>5. received \in Nat
  BY CrossMarginAssumption DEF U64
<1>6. r.accounted_liquidity_assets + received \in U64
  <2>1. s.reserve.accounted_liquidity_assets \in U64
    BY DEF Pool!SettlementSucceeds, Pool!U64, U64
  <2>2. s.reserve.accounted_liquidity_assets = r.accounted_liquidity_assets + received
    BY <1>1, <1>2 DEF AfterRepay, ReserveRecords
  <2> QED
    BY <2>1, <2>2
<1>7. s.reserve.last_update_timestamp = now
  BY <1>1, <1>2 DEF AfterRepay, ReserveRecords
<1>8. owed > 0
  OBVIOUS
<1> DEFINE k == debtShares[m][a]
<1> HIDE DEF r, owed, received, s, k
<1>9. k \in 0..SharesOf(a)[m]
  BY <1>3 DEF k
<1>10. /\ burned \in 0..k
       /\ Books(AfterRepay(r, owed, received, burned), [SharesOf(a) EXCEPT ![m] = SharesOf(a)[m] - burned])
       /\ AfterRepay(r, owed, received, burned).accounted_liquidity_assets
            = r.accounted_liquidity_assets + received
  BY <1>1, <1>4, <1>5, <1>6, <1>8, <1>9, BooksPay DEF k
<1> HIDE DEF burned
<1>11. s.shares \in Nat /\ s.shares <= debtShares[m][a]
  BY <1>2, <1>3, <1>10 DEF k
<1>12. Books(s.reserve, [SharesOf(a) EXCEPT ![m] = s.shares])
  BY <1>2, <1>3, <1>10
<1>13. s.reserve.accounted_liquidity_assets = liquidity[a] + s.received
  BY <1>1, <1>2, <1>10
<1> QED
  BY <1>2, <1>5, <1>7, <1>11, <1>12, <1>13 DEF s, owed, received

\* A settlement lowers what its position owes by no more than it brings.
LEMMA SettlementPays ==
  ASSUME Ledger, NEW m \in Margins, NEW a \in Assets, NEW sent \in U64, Pool(a)!AccrualOK,
         Pool(a)!Owed(m) > 0
  PROVE  LET s == Pool(a)!Settlement(m, sent, Pool(a)!Owed(m))
         IN  debt_shares_to_assets_up(s.shares, s.reserve.total_borrow_shares,
                                      s.reserve.total_borrow_assets) + s.received
               >= Pool(a)!Owed(m)
<1> DEFINE r == Pool(a)!Current
           k == debtShares[m][a]
           owed == Pool(a)!Owed(m)
           received == sent - TransferFee(sent)
           burned == DebtSharesBurned(r, k, owed, received)
           s == Pool(a)!Settlement(m, sent, owed)
<1>1. Books(r, SharesOf(a)) /\ r \in ReserveRecords
  BY CurrentBooks DEF Books
<1>2. /\ s.received = received /\ s.shares = k - burned
      /\ s.reserve = AfterRepay(r, owed, received, burned)
  BY PoolSettlement
<1>3. SharesOf(a)[m] = k
  BY DEF SharesOf
<1>4. owed = debt_shares_to_assets_up(k, r.total_borrow_shares, r.total_borrow_assets)
  BY PoolOwed
<1>5. received \in Nat
  BY CrossMarginAssumption DEF U64
<1>6. owed > 0
  OBVIOUS
<1> HIDE DEF r, k, owed, received, s
<1>7. /\ r.total_borrow_shares <= r.total_borrow_assets
      /\ r.total_borrow_shares = 0 => r.total_borrow_assets = 0
      /\ k \in Nat /\ k <= r.total_borrow_shares /\ k <= k
  BY <1>1, <1>3, BooksBound DEF Books
<1>8. LET b == DebtSharesBurned(r, k, owed, received)
          f == AfterRepay(r, owed, received, b)
      IN  debt_shares_to_assets_up(k - b, f.total_borrow_shares, f.total_borrow_assets) + received
            >= debt_shares_to_assets_up(k, r.total_borrow_shares, r.total_borrow_assets)
  BY <1>1, <1>4, <1>5, <1>6, <1>7, PartPaymentCovers
<1> HIDE DEF burned
<1> QED
  BY <1>2, <1>4, <1>8 DEF burned, s, owed

\* Every settlement keeps the ledger.
LEMMA SettleLedger ==
  ASSUME Ledger, NEW m \in Margins, NEW a \in Assets, NEW sent \in U64, Pool(a)!AccrualOK,
         Pool(a)!Owed(m) > 0, Settle(m, a, Pool(a)!Settlement(m, sent, Pool(a)!Owed(m))),
         now' = now, opened' = opened
  PROVE  LET s == Pool(a)!Settlement(m, sent, Pool(a)!Owed(m))
         IN  /\ Ledger'
             /\ Moved(m, a, s.reserve, s.shares,
                      IF s.shares = 0 THEN debtActive[m] \ {a} ELSE debtActive[m], opened[m])
<1> DEFINE s == Pool(a)!Settlement(m, sent, Pool(a)!Owed(m))
<1>1. /\ reserve' = [reserve EXCEPT ![a] = s.reserve]
      /\ liquidity' = [liquidity EXCEPT ![a] = @ + s.received]
      /\ debtShares' = [debtShares EXCEPT ![m][a] = s.shares]
      /\ debtActive' = IF s.shares = 0 THEN [debtActive EXCEPT ![m] = @ \ {a}] ELSE debtActive
      /\ Pool(a)!SettlementSucceeds(m, s)
  BY DEF Settle
<1>2. /\ s.shares \in Nat /\ s.shares <= debtShares[m][a]
      /\ Books(s.reserve, [SharesOf(a) EXCEPT ![m] = s.shares])
      /\ s.reserve.accounted_liquidity_assets = liquidity[a] + s.received
      /\ s.reserve.last_update_timestamp = now
  BY <1>1, SettlementBooks
<1> HIDE DEF s
<1> DEFINE D == IF s.shares = 0 THEN debtActive[m] \ {a} ELSE debtActive[m]
           O == opened[m]
<1>3. /\ debtActive \in [Margins -> SUBSET Assets] /\ opened \in [Margins -> SUBSET Assets]
      /\ debtActive[m] \subseteq opened[m] /\ now \in Nat
      /\ debtShares[m][a] \in Nat /\ (debtShares[m][a] > 0 <=> a \in debtActive[m])
  BY DEF Ledger, LedgerTypes, InOrder
<1>4. Moved(m, a, s.reserve, s.shares, D, O) /\ s.reserve.last_update_timestamp <= now
  <2>1. debtActive' = [debtActive EXCEPT ![m] = D]
    BY <1>1, <1>3
  <2>2. opened' = [opened EXCEPT ![m] = O]
    BY <1>3
  <2>3. liquidity' = [liquidity EXCEPT ![a] = s.reserve.accounted_liquidity_assets]
    BY <1>1, <1>2
  <2>4. s.reserve.last_update_timestamp <= now
    BY <1>2, <1>3
  <2> HIDE DEF D, O
  <2> QED
    BY <1>1, <2>1, <2>2, <2>3, <2>4 DEF Moved
<1>5. /\ D \in SUBSET Assets /\ O \in SUBSET Assets /\ D \subseteq O
      /\ D \ {a} = debtActive[m] \ {a}
  BY <1>3
<1>6. s.shares > 0 <=> a \in D
  BY <1>2, <1>3
<1> HIDE DEF D, O
<1>7. Ledger'
  BY <1>2, <1>4, <1>5, <1>6, LedgerMove
<1> QED
  BY <1>4, <1>7 DEF D, O, s
-----------------------------------------------------------------------------
(* Every step keeps the ledger *)

\* What leaves a margin vault for a repayment is a token amount.
LEMMA RepaidType ==
  ASSUME IInv, NEW m \in Margins, NEW a \in Assets, NEW x \in Payments, Pool(a)!AccrualOK
  PROVE  MinOf(GrossUp(MinOf(x, Pool(a)!Owed(m))), vault[m][a]) \in U64
<1>1. Pool(a)!Owed(m) \in Nat /\ vault[m][a] \in U64
  BY OwedType DEF IInv, Types
<1>2. GrossUp(MinOf(x, Pool(a)!Owed(m))) \in Nat
  BY <1>1, PaymentType, CrossMarginAssumption
<1> QED
  BY <1>1, <1>2, PartOf

\* So is what a liquidator repays.
LEMMA LiquidatedType ==
  ASSUME IInv, NEW m \in Margins, NEW d \in Assets, NEW x \in Amounts, Pool(d)!AccrualOK
  PROVE  MinOf(MinOf(x, Pool(d)!Owed(m)), MaxOf(Pool(d)!Owed(m) \div 2, 1)) \in U64
<1> DEFINE owed == Pool(d)!Owed(m)
<1>1. owed \in Nat
  BY OwedType DEF IInv, Types
<1>2. MinOf(x, owed) \in U64
  BY <1>1, PaymentType DEF Payments
<1> HIDE DEF owed
<1>3. MaxOf(owed \div 2, 1) \in Nat
  <2>1. owed \div 2 \in Nat
    BY <1>1
  <2> QED
    BY <2>1 DEF MaxOf
<1>4. MinOf(MinOf(x, owed), MaxOf(owed \div 2, 1)) \in U64
  BY <1>2, <1>3, PartOf
<1> QED
  BY <1>4 DEF owed

\* Every instruction keeps the books of all pools: each loan and each
\* settlement changes the reserve and the position of one account together.
LEMMA LedgerStep == IInv /\ Ledger /\ MarginStep => Ledger'
<1> SUFFICES ASSUME IInv, Ledger, MarginStep PROVE Ledger'
  OBVIOUS
<1> DEFINE Still == UNCHANGED <<pools, debtShares, debtActive>>
<1>1. /\ opened \in [Margins -> SUBSET Assets] /\ now \in Nat
      /\ \A m \in Margins : debtActive[m] \subseteq opened[m]
  BY DEF Ledger, LedgerTypes, InOrder, IInv, Types
<1>2. ASSUME Still, UNCHANGED <<now, opened>> PROVE Ledger'
  BY <1>1, <1>2, LedgerRest
<1>3. ASSUME NEW m \in Margins, user_create_margin(m) \/ user_close_margin(m) PROVE Ledger'
  BY <1>2, <1>3 DEF user_create_margin, user_close_margin, world, registry, debtAccounts
<1>4. ASSUME NEW m \in Margins, NEW a \in Assets, user_open_debt_position(m, a) PROVE Ledger'
  <2>1. /\ opened' = [opened EXCEPT ![m] = @ \cup {a}]
        /\ UNCHANGED <<pools, debtShares, debtActive, now>>
    BY <1>4 DEF user_open_debt_position, world, registry
  <2>2. /\ opened' \in [Margins -> SUBSET Assets]
        /\ \A n \in Margins : debtActive[n] \subseteq opened'[n]
    BY <1>1, <2>1
  <2> QED
    BY <1>1, <2>1, <2>2, LedgerRest
<1>5. ASSUME NEW m \in Margins, NEW a \in Assets, user_close_debt_position(m, a) PROVE Ledger'
  <2>1. /\ opened' = [opened EXCEPT ![m] = @ \ {a}] /\ a \notin debtActive[m]
        /\ UNCHANGED <<pools, debtShares, debtActive, now>>
    BY <1>5 DEF user_close_debt_position, world, registry
  <2>2. /\ opened' \in [Margins -> SUBSET Assets]
        /\ \A n \in Margins : debtActive[n] \subseteq opened'[n]
    BY <1>1, <2>1
  <2> QED
    BY <1>1, <2>1, <2>2, LedgerRest
<1>6. ASSUME NEW m \in Margins, NEW a \in Assets, NEW x \in Amounts,
             user_deposit_collateral(m, a, x) \/ user_withdraw_collateral(m, a, x)
      PROVE  Ledger'
  BY <1>2, <1>6 DEF user_deposit_collateral, user_withdraw_collateral, world, debtAccounts
<1>7. ASSUME NEW m \in Margins, NEW a \in Assets, NEW x \in Amounts, user_borrow(m, a, x)
      PROVE  Ledger'
  <2>1. /\ LoanAllowed(a, x) /\ TakeLoan(m, a, x, collActive[m]) /\ now' = now /\ opened' = opened
        /\ a \in opened[m]
    BY <1>7 DEF user_borrow, world, debtAccounts
  <2>2. opened' = [opened EXCEPT ![m] = @ \cup {a}]
    BY <1>1, <2>1
  <2> QED
    BY <2>1, <2>2, LoanLedger
<1>8. ASSUME NEW m \in Margins, NEW c \in Assets, NEW a \in Assets,
             NEW x \in Amounts, NEW y \in Amounts, user_deposit_and_borrow(m, c, a, x, y)
      PROVE  Ledger'
  <2>1. /\ LoanAllowed(a, y) /\ TakeLoan(m, a, y, AfterDeposit(m, c)) /\ now' = now
        /\ opened' = [opened EXCEPT ![m] = @ \cup {a}]
    BY <1>8 DEF user_deposit_and_borrow, world
  <2> QED
    BY <2>1, LoanLedger
<1>9. ASSUME NEW m \in Margins, NEW a \in Assets, NEW x \in Payments, user_repay_from_margin(m, a, x)
      PROVE  Ledger'
  <2> DEFINE sent == MinOf(GrossUp(MinOf(x, Pool(a)!Owed(m))), vault[m][a])
  <2>1. /\ Pool(a)!AccrualOK /\ Pool(a)!Owed(m) > 0
        /\ Settle(m, a, Pool(a)!Settlement(m, sent, Pool(a)!Owed(m)))
        /\ now' = now /\ opened' = opened
    BY <1>9 DEF user_repay_from_margin, world, debtAccounts
  <2>2. sent \in U64
    BY <2>1, RepaidType
  <2> HIDE DEF sent
  <2> QED
    BY <2>1, <2>2, SettleLedger
<1>10. ASSUME NEW m \in Margins, NEW a \in Assets, NEW x \in Payments, public_repay_from_wallet(m, a, x)
       PROVE  Ledger'
  <2> DEFINE sent == GrossUp(MinOf(x, Pool(a)!Owed(m)))
  <2>1. /\ Pool(a)!AccrualOK /\ Pool(a)!Owed(m) > 0 /\ sent \in U64
        /\ Settle(m, a, Pool(a)!Settlement(m, sent, Pool(a)!Owed(m)))
        /\ now' = now /\ opened' = opened
    BY <1>10 DEF public_repay_from_wallet, world, debtAccounts
  <2> HIDE DEF sent
  <2> QED
    BY <2>1, SettleLedger
<1>11. ASSUME NEW m \in Margins, NEW c \in Assets, NEW d \in Assets, NEW x \in Amounts,
              public_liquidate(m, c, d, x)
       PROVE  Ledger'
  <2> DEFINE repay == MinOf(MinOf(x, Pool(d)!Owed(m)), MaxOf(Pool(d)!Owed(m) \div 2, 1))
  <2>1. /\ Pool(d)!AccrualOK /\ Pool(d)!Owed(m) > 0
        /\ Settle(m, d, Pool(d)!Settlement(m, repay, Pool(d)!Owed(m)))
        /\ now' = now /\ opened' = opened
    BY <1>11 DEF public_liquidate, world, debtAccounts
  <2>2. repay \in U64
    BY <2>1, LiquidatedType
  <2> HIDE DEF repay
  <2> QED
    BY <2>1, <2>2, SettleLedger
<1>12. ASSUME NEW m \in Margins, NEW c \in Assets, NEW a \in Assets,
              NEW x \in Amounts, NEW y \in Amounts, user_margin_swap(m, c, a, x, y)
       PROVE  Ledger'
  BY <1>2, <1>12 DEF user_margin_swap, world, debtAccounts
<1>13. ASSUME NEW m \in Margins, NEW a \in Assets, NEW x \in Donations, Donate(m, a, x) PROVE Ledger'
  BY <1>2, <1>13 DEF Donate, world, debtAccounts, registry
<1>14. ASSUME NEW md \in Modes, admin_set_operating_mode(md) PROVE Ledger'
  BY <1>2, <1>14 DEF admin_set_operating_mode, debtAccounts, registry
<1>15. ASSUME NEW a \in Assets, NEW p \in Prices[a], SetPrice(a, p) PROVE Ledger'
  BY <1>2, <1>15 DEF SetPrice, debtAccounts, registry
<1>16. ASSUME NEW a \in Assets, NEW c \in AssetConfigs[a], admin_update_asset_config(a, c) PROVE Ledger'
  BY <1>2, <1>16 DEF admin_update_asset_config, debtAccounts, registry
<1>17. CASE Tick
  <2>1. /\ now' = now + 1 /\ opened' = opened /\ UNCHANGED <<pools, debtShares, debtActive>>
    BY <1>17 DEF Tick, debtAccounts, registry
  <2>2. now' \in Nat /\ now <= now' /\ opened' \in [Margins -> SUBSET Assets]
        /\ \A m \in Margins : debtActive[m] \subseteq opened'[m]
    BY <1>1, <2>1
  <2> QED
    BY <2>1, <2>2, LedgerRest
<1> HIDE DEF Still
<1> QED
  BY <1>3, <1>4, <1>5, <1>6, <1>7, <1>8, <1>9, <1>10, <1>11, <1>12, <1>13, <1>14, <1>15, <1>16,
     <1>17 DEF MarginStep

-----------------------------------------------------------------------------
(* Accounts *)

\* What TypeOK says of the world and of the accounts beyond Types and LedgerTypes.
AccountTypes ==
  /\ mode \in Modes
  /\ \A a \in Assets : price[a] \in Prices[a]
  /\ exists \subseteq Margins
  /\ blank \in [Margins -> SUBSET Assets]
  /\ \A m \in Margins \ exists : collActive[m] = {} /\ debtActive[m] = {} /\ liteIndexes[m] = {}

\* What it says of Lite positions.
LiteTypes ==
  /\ \A m \in Margins : /\ DOMAIN lite[m] \subseteq Places
                        /\ \A p \in DOMAIN lite[m] : lite[m][p] \in LiteRecords
  /\ liteIndexes \in [Margins -> SUBSET Assets]
  /\ receipts \in [Margins -> [Assets -> U64]]
  /\ rate \in [Assets -> Rates]
\* The parts of the invariant make up the type.
LEMMA TypesTogether ==
  ASSUME IInv, Ledger, AccountTypes, LiteTypes
  PROVE  TypeOK
BY DEF TypeOK, IInv, Types, Ledger, LedgerTypes, AccountTypes, LiteTypes

\* No account exists to begin with.
LEMMA InitAccounts == Init => AccountTypes /\ LiteTypes
<1> SUFFICES ASSUME Init PROVE AccountTypes /\ LiteTypes
  OBVIOUS
<1>1. \A a \in Assets : price[a] \in Prices[a]
  BY DEF Init, Selections
<1>2. 0 \in U64
  BY ReserveMathAssumption DEF U64
<1> QED
  BY <1>1, <1>2 DEF Init, AccountTypes, LiteTypes

\* Only accounts that exist take slots, and only empty ones are closed.
LEMMA AccountsStep == IInv /\ AccountTypes /\ MarginStep /\ UNCHANGED liteIndexes => AccountTypes'
<1> SUFFICES ASSUME IInv, AccountTypes, MarginStep, UNCHANGED liteIndexes PROVE AccountTypes'
  OBVIOUS
<1> DEFINE None(m) == collActive[m] = {} /\ debtActive[m] = {} /\ liteIndexes[m] = {}
           Same == UNCHANGED <<mode, price, exists, blank>>
<1>1. /\ mode \in Modes /\ \A a \in Assets : price[a] \in Prices[a]
      /\ exists \subseteq Margins /\ blank \in [Margins -> SUBSET Assets]
      /\ \A m \in Margins \ exists : None(m)
      /\ collActive \in [Margins -> SUBSET Assets] /\ debtActive \in [Margins -> SUBSET Assets]
      /\ price \in [Assets -> Nat]
  BY DEF AccountTypes, IInv, Types
\* One account, which exists, may have other slots.
<1>2. ASSUME Same, NEW m \in exists,
             \A n \in Margins \ {m} : collActive'[n] = collActive[n] /\ debtActive'[n] = debtActive[n]
      PROVE  AccountTypes'
  BY <1>1, <1>2 DEF AccountTypes
<1>3. ASSUME UNCHANGED <<exists, blank, collActive, debtActive>>, mode' \in Modes,
             \A a \in Assets : price'[a] \in Prices[a]
      PROVE  AccountTypes'
  BY <1>1, <1>3 DEF AccountTypes
<1>4. ASSUME NEW m \in Margins, user_create_margin(m) \/ user_close_margin(m) PROVE AccountTypes'
  BY <1>1, <1>4 DEF user_create_margin, user_close_margin, AccountTypes, world, registry, debtAccounts
<1>5. ASSUME NEW m \in Margins, NEW a \in Assets,
             user_open_debt_position(m, a) \/ user_close_debt_position(m, a)
      PROVE  AccountTypes'
  BY <1>1, <1>3, <1>5 DEF user_open_debt_position, user_close_debt_position, world, registry
<1>6. ASSUME NEW m \in Margins, NEW a \in Assets, NEW x \in Amounts,
             \/ user_deposit_collateral(m, a, x)
             \/ user_withdraw_collateral(m, a, x)
             \/ user_borrow(m, a, x)
      PROVE  AccountTypes'
  <2>1. m \in exists /\ Same
    BY <1>6 DEF user_deposit_collateral, user_withdraw_collateral, user_borrow, world, debtAccounts
  <2>2. \A n \in Margins \ {m} : collActive'[n] = collActive[n] /\ debtActive'[n] = debtActive[n]
    BY <1>1, <1>6 DEF user_deposit_collateral, user_withdraw_collateral, user_borrow, TakeLoan
  <2> QED
    BY <1>2, <2>1, <2>2
<1>7. ASSUME NEW m \in Margins, NEW a \in Assets, NEW x \in Payments,
             user_repay_from_margin(m, a, x) \/ public_repay_from_wallet(m, a, x)
      PROVE  AccountTypes'
  <2>1. m \in exists /\ Same
    BY <1>7 DEF user_repay_from_margin, public_repay_from_wallet, world, debtAccounts
  <2>2. \A n \in Margins \ {m} : collActive'[n] = collActive[n] /\ debtActive'[n] = debtActive[n]
    BY <1>1, <1>7 DEF user_repay_from_margin, public_repay_from_wallet, Settle
  <2> QED
    BY <1>2, <2>1, <2>2
<1>8. ASSUME NEW m \in Margins, NEW c \in Assets, NEW a \in Assets,
             NEW x \in Amounts, NEW y \in Amounts, user_deposit_and_borrow(m, c, a, x, y)
      PROVE  AccountTypes'
  <2>1. /\ exists' = exists \cup {m} /\ blank' = [blank EXCEPT ![m] = @ \ {a}]
        /\ UNCHANGED <<mode, price>>
    BY <1>8 DEF user_deposit_and_borrow, world
  <2>2. \A n \in Margins \ {m} : collActive'[n] = collActive[n] /\ debtActive'[n] = debtActive[n]
    BY <1>1, <1>8 DEF user_deposit_and_borrow, TakeLoan
  <2> QED
    BY <1>1, <2>1, <2>2 DEF AccountTypes
<1>9. ASSUME NEW m \in Margins, NEW c \in Assets, NEW a \in Assets,
             NEW x \in Amounts, NEW y \in Amounts, user_margin_swap(m, c, a, x, y)
      PROVE  AccountTypes'
  <2>1. m \in exists /\ Same /\ debtActive' = debtActive
    BY <1>9 DEF user_margin_swap, world, debtAccounts
  <2>2. \A n \in Margins \ {m} : collActive'[n] = collActive[n]
    BY <1>1, <1>9 DEF user_margin_swap, SwapSlots
  <2> QED
    BY <1>2, <2>1, <2>2
<1>10. ASSUME NEW m \in Margins, NEW c \in Assets, NEW d \in Assets, NEW x \in Amounts,
              public_liquidate(m, c, d, x)
       PROVE  AccountTypes'
  <2>1. m \in exists /\ Same
    BY <1>10 DEF public_liquidate, world, debtAccounts
  <2>2. \A n \in Margins \ {m} : debtActive'[n] = debtActive[n]
    BY <1>1, <1>10 DEF public_liquidate, Settle
  <2>3. \A n \in Margins \ {m} : collActive'[n] = collActive[n]
    BY <1>1, <1>10 DEF public_liquidate
  <2> QED
    BY <1>2, <2>1, <2>2, <2>3
<1>11. ASSUME NEW m \in Margins, NEW a \in Assets, NEW x \in Donations, Donate(m, a, x)
       PROVE  AccountTypes'
  BY <1>1, <1>3, <1>11 DEF Donate, world, registry, debtAccounts
<1>12. ASSUME NEW md \in Modes, admin_set_operating_mode(md) PROVE AccountTypes'
  BY <1>1, <1>3, <1>12 DEF admin_set_operating_mode, registry, debtAccounts
<1>13. ASSUME NEW a \in Assets, NEW p \in Prices[a], SetPrice(a, p) PROVE AccountTypes'
  <2>1. \A b \in Assets : price'[b] \in Prices[b]
    BY <1>1, <1>13 DEF SetPrice
  <2> QED
    BY <1>1, <1>3, <1>13, <2>1 DEF SetPrice, registry, debtAccounts
<1>14. ASSUME NEW a \in Assets, NEW c \in AssetConfigs[a], admin_update_asset_config(a, c)
       PROVE  AccountTypes'
  BY <1>1, <1>3, <1>14 DEF admin_update_asset_config, registry, debtAccounts
<1>15. CASE Tick
  BY <1>1, <1>3, <1>15 DEF Tick, registry, debtAccounts
<1> HIDE DEF Same, None
<1> QED
  BY <1>4, <1>5, <1>6, <1>7, <1>8, <1>9, <1>10, <1>11, <1>12, <1>13, <1>14, <1>15 DEF MarginStep

\* The inductive invariant of pools, accounts and slots.
PoolsInv == IInv /\ Ledger /\ AccountTypes /\ LiteTypes

\* The inductive invariant holds to begin with,
LEMMA InitPools == Init => PoolsInv
BY InitEstablishes, InitLedger, InitAccounts DEF PoolsInv

\* every instruction keeps it,
LEMMA NextPools == PoolsInv /\ [Next]_vars => PoolsInv'
<1> SUFFICES ASSUME PoolsInv, [Next]_vars PROVE PoolsInv'
  OBVIOUS
<1>1. IInv'
  BY EveryStep DEF Keeps, PoolsInv
<1>2. LiteTypes'
  BY DEF PoolsInv, Next, liteState, vars, LiteTypes
<1>3. CASE MarginStep /\ UNCHANGED liteState
  BY <1>1, <1>2, <1>3, LedgerStep, AccountsStep DEF PoolsInv, liteState
<1>4. CASE UNCHANGED vars
  <2>1. AccountTypes'
    BY <1>4 DEF PoolsInv, AccountTypes, vars, world, registry, debtAccounts, liteState
  <2>2. Ledger'
    <3>1. /\ opened \in [Margins -> SUBSET Assets] /\ now \in Nat
          /\ \A m \in Margins : debtActive[m] \subseteq opened[m]
      BY DEF PoolsInv, Ledger, LedgerTypes, InOrder, IInv, Types
    <3>2. UNCHANGED <<pools, debtShares, debtActive, opened, now>>
      BY <1>4 DEF vars, world, registry, debtAccounts
    <3> QED
      BY <3>1, <3>2, LedgerRest DEF PoolsInv
  <2> QED
    BY <1>1, <1>2, <2>1, <2>2 DEF PoolsInv
<1> QED
  BY <1>3, <1>4 DEF Next

\* and so it always holds.
LEMMA PoolsInvariance == Spec => []PoolsInv
<1> QED
  BY InitPools, NextPools, PTL DEF Spec

-----------------------------------------------------------------------------
(* The theorems *)

\* Every variable keeps to its type through every instruction: balances, shares
\* and reserves stay in range however loans, interest, repayments and
\* liquidations follow one another, and an account that does not exist has
\* nothing in its registries.
THEOREM TypesAlwaysCorrect == Spec => []TypeOK
<1>1. PoolsInv => TypeOK
  BY TypesTogether DEF PoolsInv
<1> QED
  BY <1>1, PoolsInvariance, PTL
-----------------------------------------------------------------------------
(* Every step is a step of the pools *)

\* The pools know every amount: the balance a repayment finds in a margin
\* vault, which is what it is capped at, may be any.
EveryAmount == U64 \subseteq Amounts \cup Balances

\* What pool a sees of a step.
PoolStep(a) == UNCHANGED Pool(a)!vars \/ Pool(a)!Next

\* The accounts that owe a, and those with a position in it.
Owing(a)   == {m \in Margins : a \in debtActive[m]}
Holding(a) == {m \in Margins : a \in opened[m]}

\* A pool sees nothing of a step that leaves its reserve, its cash and its
\* positions alone.
LEMMA Unseen ==
  ASSUME NEW a \in Assets, UNCHANGED <<mode, now>>, reserve'[a] = reserve[a],
         liquidity'[a] = liquidity[a], SharesOf(a)' = SharesOf(a), Owing(a)' = Owing(a),
         Holding(a)' = Holding(a)
  PROVE  PoolStep(a)
BY DEF PoolStep, Pool!vars, Pool!lenders, Pool!margins, Pool!admin, SharesOf, Owing, Holding

\* So it sees nothing of a step that changes neither pools nor positions.
LEMMA UnseenRest ==
  ASSUME UNCHANGED <<mode, now, pools, debtShares, debtActive, opened>>, NEW a \in Assets
  PROVE  PoolStep(a)
<1>1. /\ reserve'[a] = reserve[a] /\ liquidity'[a] = liquidity[a]
      /\ SharesOf(a)' = SharesOf(a) /\ Owing(a)' = Owing(a) /\ Holding(a)' = Holding(a)
  BY DEF SharesOf, Owing, Holding, pools
<1> QED
  BY <1>1, Unseen

\* An instruction moves the pool of d and one position there: its slots of
\* other assets stay, and the mode.
MovesOnly(m, d, r, k, D, O) ==
  /\ LedgerTypes /\ Moved(m, d, r, k, D, O) /\ mode' = mode
  /\ k \in Nat /\ D \in SUBSET Assets /\ O \in SUBSET Assets
  /\ D \ {d} = debtActive[m] \ {d} /\ O \ {d} = opened[m] \ {d}

\* What the pools see of such a move: the one of d the change, the others
\* nothing.
SeenMove(m, d, r, k, D, O) ==
  /\ \A a \in Assets \ {d} : PoolStep(a)
  /\ reserve'[d] = r /\ liquidity'[d] = r.accounted_liquidity_assets
  /\ SharesOf(d)' = [SharesOf(d) EXCEPT ![m] = k]
  /\ Owing(d)' = IF d \in D THEN Owing(d) \cup {m} ELSE Owing(d) \ {m}
  /\ Holding(d)' = IF d \in O THEN Holding(d) \cup {m} ELSE Holding(d) \ {m}

\* They see all of it.
LEMMA MoveSeen ==
  ASSUME NEW m \in Margins, NEW d \in Assets, NEW r, NEW k, NEW D, NEW O, MovesOnly(m, d, r, k, D, O)
  PROVE  SeenMove(m, d, r, k, D, O)
<1>1. /\ reserve \in [Assets -> ReserveRecords] /\ liquidity \in [Assets -> U64]
      /\ opened \in [Margins -> SUBSET Assets]
      /\ debtShares \in [Margins -> [Assets -> Nat]]
      /\ debtActive \in [Margins -> SUBSET Assets]
  BY DEF MovesOnly, LedgerTypes
<1>2. /\ reserve' = [reserve EXCEPT ![d] = r]
      /\ liquidity' = [liquidity EXCEPT ![d] = r.accounted_liquidity_assets]
      /\ debtShares' = [debtShares EXCEPT ![m][d] = k]
      /\ debtActive' = [debtActive EXCEPT ![m] = D]
      /\ opened' = [opened EXCEPT ![m] = O]
      /\ now' = now /\ mode' = mode
      /\ k \in Nat /\ D \in SUBSET Assets /\ O \in SUBSET Assets
      /\ D \ {d} = debtActive[m] \ {d} /\ O \ {d} = opened[m] \ {d}
  BY DEF MovesOnly, Moved
<1>3. ASSUME NEW a \in Assets \ {d} PROVE PoolStep(a)
  <2>1. reserve'[a] = reserve[a] /\ liquidity'[a] = liquidity[a]
    BY <1>1, <1>2
  <2>2. SharesOf(a)' = SharesOf(a)
    <3>1. \A n \in Margins : debtShares'[n][a] = debtShares[n][a]
      BY <1>1, <1>2
    <3> QED
      BY <3>1 DEF SharesOf
  <2>3. Owing(a)' = Owing(a) /\ Holding(a)' = Holding(a)
    <3>1. ASSUME NEW n \in Margins
          PROVE  (a \in debtActive'[n] <=> a \in debtActive[n]) /\ (a \in opened'[n] <=> a \in opened[n])
      BY <1>1, <1>2
    <3> QED
      BY <3>1 DEF Owing, Holding
  <2> QED
    BY <1>2, <2>1, <2>2, <2>3, Unseen
<1>4. reserve'[d] = r /\ liquidity'[d] = r.accounted_liquidity_assets
  BY <1>1, <1>2
<1>5. SharesOf(d)' = [SharesOf(d) EXCEPT ![m] = k]
  BY <1>1, <1>2 DEF SharesOf
<1>6. /\ Owing(d)' = IF d \in D THEN Owing(d) \cup {m} ELSE Owing(d) \ {m}
      /\ Holding(d)' = IF d \in O THEN Holding(d) \cup {m} ELSE Holding(d) \ {m}
  <2>1. /\ debtActive'[m] = D /\ opened'[m] = O
        /\ \A n \in Margins \ {m} : debtActive'[n] = debtActive[n] /\ opened'[n] = opened[n]
    BY <1>1, <1>2
  <2> QED
    BY <2>1 DEF Owing, Holding
<1> QED
  BY <1>3, <1>4, <1>5, <1>6 DEF SeenMove

\* A loan is one to its pool.
LEMMA LoanSeen ==
  ASSUME PoolsInv, NEW m \in Margins, NEW a \in Assets, NEW x \in Amounts, NEW B,
         LoanAllowed(a, x), TakeLoan(m, a, x, B), UNCHANGED <<mode, now>>,
         opened' = [opened EXCEPT ![m] = @ \cup {a}],
         a \in opened[m] \/ Pool(a)!ProtocolAllows("CollateralDeposit"), NEW b \in Assets
  PROVE  PoolStep(b)
<1> DEFINE loan == Loan(m, a, x)
           D == debtActive[m] \cup {a}
           O == opened[m] \cup {a}
           r == Pool(a)!Current
           shares == assets_to_debt_shares_up(x, r.total_borrow_shares, r.total_borrow_assets)
<1>1. LedgerTypes /\ debtActive[m] \in SUBSET Assets /\ opened[m] \in SUBSET Assets
  BY DEF PoolsInv, Ledger, LedgerTypes
<1>2. Moved(m, a, loan.reserve, loan.position, D, O)
  BY LoanLedger DEF PoolsInv
<1>3. /\ loan.position = debtShares[m][a] + shares
      /\ loan.reserve = AfterBorrow(r, x, shares)
  BY DEF Loan
<1>4. /\ x \in Nat \ {0} /\ Pool(a)!AccrualOK
      /\ x <= Pool(a)!Current.accounted_liquidity_assets
      /\ Pool(a)!Current.total_borrow_assets + x \in U64
  BY CrossMarginAssumption DEF LoanAllowed, LendingOpen, U64
<1>5. loan.position \in Nat /\ loan.reserve.accounted_liquidity_assets = liquidity[a] - x
  BY <1>4, LoanBooks DEF PoolsInv
<1>6. /\ \A c \in Assets \ {a} : PoolStep(c)
      /\ reserve'[a] = loan.reserve /\ liquidity'[a] = liquidity[a] - x
      /\ SharesOf(a)' = [SharesOf(a) EXCEPT ![m] = loan.position]
      /\ Owing(a)' = Owing(a) \cup {m} /\ Holding(a)' = Holding(a) \cup {m}
  <2>1. D \in SUBSET Assets /\ O \in SUBSET Assets /\ a \in D /\ a \in O
        /\ D \ {a} = debtActive[m] \ {a} /\ O \ {a} = opened[m] \ {a}
    BY <1>1
  <2>2. loan.reserve.accounted_liquidity_assets = liquidity[a] - x
    BY <1>5
  <2> HIDE DEF D, O, loan
  <2>3. PICK r1, k1, D1, O1 : r1 = loan.reserve /\ k1 = loan.position /\ D1 = D /\ O1 = O
    OBVIOUS
  <2>4. MovesOnly(m, a, r1, k1, D1, O1)
    BY <1>1, <1>2, <1>5, <2>1, <2>3 DEF MovesOnly
  <2>5. SeenMove(m, a, r1, k1, D1, O1)
    BY <2>4, MoveSeen
  <2> QED
    BY <2>1, <2>2, <2>3, <2>5 DEF SeenMove
<1>7. Pool(a)!Lend(m, x)
  <2>1. /\ Pool(a)!ProtocolAllows("Borrow") /\ Pool(a)!ReserveAllows("Borrow")
        /\ x > 0 /\ Pool(a)!AccrualOK
        /\ \/ ReserveConfig.borrow_cap = Pool(a)!Uncapped
           \/ r.total_borrow_assets + x <= ReserveConfig.borrow_cap
        /\ x <= r.accounted_liquidity_assets
        /\ r.total_borrow_assets + x \in Pool(a)!U64
        /\ x <= liquidity[a]
    BY DEF LoanAllowed, LendingOpen, Pool!Uncapped, Uncapped, Pool!U64, U64
  <2>2. SharesOf(a)[m] = 0 => m \notin Owing(a)
    BY DEF PoolsInv, Ledger, InOrder, LedgerTypes, SharesOf, Owing, TakeLoan
  <2>3. /\ Pool(a)!assets_to_debt_shares_up(x, r.total_borrow_shares, r.total_borrow_assets) = shares
        /\ Pool(a)!AfterBorrow(r, x, shares) = loan.reserve
    BY <1>3 DEF Pool!assets_to_debt_shares_up, assets_to_debt_shares_up, Pool!mul_div_ceil,
         mul_div_ceil, Pool!AfterBorrow, AfterBorrow
  <2>4. SharesOf(a)' = [SharesOf(a) EXCEPT ![m] = @ + shares]
    BY <1>3, <1>6 DEF SharesOf
  <2> HIDE DEF shares, loan, r
  <2> QED
    BY <1>6, <2>1, <2>2, <2>3, <2>4
       DEF Pool!Lend, Pool!lenders, Pool!admin, SharesOf, Owing, Holding, r
<1>8. Pool(a)!user_borrow(m, x) \/ Pool(a)!user_deposit_and_borrow(m, x)
  BY <1>7 DEF Pool!user_borrow, Pool!user_deposit_and_borrow
<1>9. PoolStep(a)
  BY <1>8 DEF PoolStep, Pool!Next
<1> QED
  BY <1>6, <1>9
\* A settlement is one to its pool.
LEMMA SettleSeen ==
  ASSUME PoolsInv, NEW m \in Margins, NEW a \in Assets, NEW sent \in U64, Pool(a)!AccrualOK,
         Pool(a)!Owed(m) > 0, Settle(m, a, Pool(a)!Settlement(m, sent, Pool(a)!Owed(m))),
         UNCHANGED <<mode, now>>, opened' = opened
  PROVE  /\ \A b \in Assets \ {a} : PoolStep(b)
         /\ Pool(a)!Settle(m, Pool(a)!Settlement(m, sent, Pool(a)!Owed(m)))
<1> DEFINE s == Pool(a)!Settlement(m, sent, Pool(a)!Owed(m))
           D == IF s.shares = 0 THEN debtActive[m] \ {a} ELSE debtActive[m]
           O == opened[m]
<1>1. LedgerTypes /\ debtActive[m] \in SUBSET Assets /\ opened[m] \in SUBSET Assets
  BY DEF PoolsInv, Ledger, LedgerTypes
<1>2. Moved(m, a, s.reserve, s.shares, D, O)
  BY SettleLedger DEF PoolsInv
<1>3. /\ Pool(a)!SettlementSucceeds(m, s)
      /\ liquidity' = [liquidity EXCEPT ![a] = @ + s.received]
  BY DEF Settle
<1>4. /\ s.shares \in Nat /\ s.shares <= debtShares[m][a]
      /\ s.reserve.accounted_liquidity_assets = liquidity[a] + s.received
  BY <1>3, SettlementBooks DEF PoolsInv
<1> HIDE DEF s
<1>5. /\ debtShares[m][a] \in Nat /\ (debtShares[m][a] > 0 <=> a \in debtActive[m])
      /\ a \in debtActive[m] => a \in opened[m]
  BY DEF PoolsInv, Ledger, LedgerTypes, InOrder
<1>6. D \in SUBSET Assets /\ O \in SUBSET Assets
      /\ D \ {a} = debtActive[m] \ {a} /\ O \ {a} = opened[m] \ {a}
  BY <1>1
<1>7. (a \in D <=> s.shares # 0 /\ m \in Owing(a)) /\ (a \in O <=> m \in Holding(a))
  BY DEF Owing, Holding
<1> HIDE DEF D, O
<1>8. /\ \A c \in Assets \ {a} : PoolStep(c)
      /\ reserve'[a] = s.reserve /\ liquidity'[a] = liquidity[a] + s.received
      /\ SharesOf(a)' = [SharesOf(a) EXCEPT ![m] = s.shares]
      /\ Owing(a)' = IF a \in D THEN Owing(a) \cup {m} ELSE Owing(a) \ {m}
      /\ Holding(a)' = IF a \in O THEN Holding(a) \cup {m} ELSE Holding(a) \ {m}
  <2>1. PICK r1, k1, D1, O1 : r1 = s.reserve /\ k1 = s.shares /\ D1 = D /\ O1 = O
    OBVIOUS
  <2>2. MovesOnly(m, a, r1, k1, D1, O1)
    BY <1>1, <1>2, <1>4, <1>6, <2>1 DEF MovesOnly
  <2>3. SeenMove(m, a, r1, k1, D1, O1)
    BY <2>2, MoveSeen
  <2> QED
    BY <1>4, <2>1, <2>3 DEF SeenMove
<1>9. Owing(a)' = (IF s.shares = 0 THEN Owing(a) \ {m} ELSE Owing(a)) /\ Holding(a)' = Holding(a)
  BY <1>7, <1>8
<1>10. Pool(a)!Settle(m, s)
  BY <1>3, <1>8, <1>9 DEF Pool!Settle, Pool!lenders, Pool!admin, SharesOf, Owing, Holding
<1> QED
  BY <1>8, <1>10 DEF s

\* A liquidation is one to the pool of the debt it repays.
LEMMA LiquidationSeen ==
  ASSUME PoolsInv, NEW m \in Margins, NEW c \in Assets, NEW a \in Assets, NEW x \in Amounts,
         public_liquidate(m, c, a, x), NEW b \in Assets
  PROVE  PoolStep(b)
<1> DEFINE repay == MinOf(MinOf(x, Pool(a)!Owed(m)), MaxOf(Pool(a)!Owed(m) \div 2, 1))
<1>1. /\ vault \in [Margins -> [Assets -> U64]]
      /\ debtShares \in [Margins -> [Assets -> Nat]] /\ IInv
  BY DEF PoolsInv, Ledger, LedgerTypes, IInv, Types
<1>2. /\ Pool(a)!AccrualOK /\ Pool(a)!Owed(m) > 0 /\ x > 0 /\ a \in opened[m]
      /\ UNCHANGED <<mode, now>> /\ opened' = opened
  BY DEF public_liquidate, world, debtAccounts
<1>3. repay \in U64
  BY <1>1, <1>2, LiquidatedType
<1>4. PICK sent \in U64 : sent = repay
  BY <1>3
<1>5. Settle(m, a, Pool(a)!Settlement(m, repay, Pool(a)!Owed(m)))
  BY DEF public_liquidate
<1> HIDE DEF repay
<1>6. Settle(m, a, Pool(a)!Settlement(m, sent, Pool(a)!Owed(m)))
  BY <1>4, <1>5 DEF Settle
<1>7. /\ \A e \in Assets \ {a} : PoolStep(e)
      /\ Pool(a)!Settle(m, Pool(a)!Settlement(m, sent, Pool(a)!Owed(m)))
  BY <1>2, <1>6, SettleSeen
<1>8. x \in Pool(a)!Payments
  BY DEF Pool!Payments
<1>9. sent = Pool(a)!MinOf(Pool(a)!MinOf(x, Pool(a)!Owed(m)), Pool(a)!MaxOf(Pool(a)!Owed(m) \div 2, 1))
  BY <1>4 DEF Pool!MinOf, MinOf, Pool!MaxOf, MaxOf, repay
<1>10. Pool(a)!Settle(m, Pool(a)!Settlement(m, Pool(a)!MinOf(Pool(a)!MinOf(x, Pool(a)!Owed(m)),
                                                         Pool(a)!MaxOf(Pool(a)!Owed(m) \div 2, 1)),
                                            Pool(a)!Owed(m)))
  BY <1>7, <1>9 DEF Pool!Settle
<1>11. Pool(a)!public_liquidate(m, x)
  BY <1>2, <1>10 DEF Pool!public_liquidate
<1>12. PoolStep(a)
  BY <1>8, <1>11 DEF PoolStep, Pool!Next
<1> QED
  BY <1>7, <1>12

\* Every pool sees a step of its own, or nothing.
LEMMA StepSeen ==
  ASSUME EveryAmount
  PROVE  PoolsInv /\ [Next]_vars => \A a \in Assets : PoolStep(a)
<1> SUFFICES ASSUME PoolsInv, [Next]_vars, NEW b \in Assets PROVE PoolStep(b)
  OBVIOUS
<1>0. /\ opened \in [Margins -> SUBSET Assets] /\ vault \in [Margins -> [Assets -> U64]]
      /\ debtShares \in [Margins -> [Assets -> Nat]] /\ IInv
  BY DEF PoolsInv, Ledger, LedgerTypes, IInv, Types
<1>1. ASSUME UNCHANGED <<mode, now, pools, debtShares, debtActive, opened>> PROVE PoolStep(b)
  BY <1>1, UnseenRest
<1>2. ASSUME NEW m \in Margins, user_create_margin(m) \/ user_close_margin(m) PROVE PoolStep(b)
  BY <1>1, <1>2 DEF user_create_margin, user_close_margin, world, registry, debtAccounts
<1>3. ASSUME NEW m \in Margins, NEW a \in Assets,
             user_open_debt_position(m, a) \/ user_close_debt_position(m, a)
      PROVE  PoolStep(b)
  <2>1. /\ UNCHANGED <<mode, now, pools, debtShares, debtActive>>
        /\ opened' = [opened EXCEPT ![m] = @ \cup {a}] \/ opened' = [opened EXCEPT ![m] = @ \ {a}]
    BY <1>3 DEF user_open_debt_position, user_close_debt_position, world, registry
  <2>2. /\ reserve'[b] = reserve[b] /\ liquidity'[b] = liquidity[b]
        /\ SharesOf(b)' = SharesOf(b) /\ Owing(b)' = Owing(b)
    BY <2>1 DEF SharesOf, Owing, pools
  <2>3. CASE a # b
    <3>1. Holding(b)' = Holding(b)
      <4>1. \A n \in Margins : b \in opened'[n] <=> b \in opened[n]
        <5>1. CASE opened' = [opened EXCEPT ![m] = @ \cup {a}]
          BY <1>0, <2>3, <5>1
        <5>2. CASE opened' = [opened EXCEPT ![m] = @ \ {a}]
          BY <1>0, <2>3, <5>2
        <5> QED
          BY <2>1, <5>1, <5>2
      <4> QED
        BY <4>1 DEF Holding
    <3> QED
      BY <2>1, <2>2, <3>1, Unseen
  <2>4. CASE a = b /\ user_open_debt_position(m, a)
    <3>1. Holding(b)' = Holding(b) \cup {m} /\ m \notin Holding(b)
      BY <1>0, <2>4 DEF Holding, user_open_debt_position
    <3>2. Pool(b)!user_open_debt_position(m)
      BY <2>1, <2>2, <3>1
         DEF Pool!user_open_debt_position, Pool!lenders, Pool!admin, SharesOf, Owing, Holding
    <3> QED
      BY <3>2 DEF PoolStep, Pool!Next
  <2>5. CASE a = b /\ user_close_debt_position(m, a)
    <3>1. /\ Holding(b)' = Holding(b) \ {m} /\ m \in Holding(b)
          /\ SharesOf(b)[m] = 0 /\ m \notin Owing(b)
      BY <1>0, <2>5 DEF Holding, SharesOf, Owing, user_close_debt_position
    <3>2. Pool(b)!user_close_debt_position(m)
      BY <2>1, <2>2, <3>1
         DEF Pool!user_close_debt_position, Pool!lenders, Pool!admin, SharesOf, Owing, Holding
    <3> QED
      BY <3>2 DEF PoolStep, Pool!Next
  <2> QED
    BY <1>3, <2>3, <2>4, <2>5
<1>4. ASSUME NEW m \in Margins, NEW a \in Assets, NEW x \in Amounts,
             user_deposit_collateral(m, a, x) \/ user_withdraw_collateral(m, a, x)
      PROVE  PoolStep(b)
  BY <1>1, <1>4 DEF user_deposit_collateral, user_withdraw_collateral, world, debtAccounts
<1>5. ASSUME NEW m \in Margins, NEW a \in Assets, NEW x \in Amounts, user_borrow(m, a, x)
      PROVE  PoolStep(b)
  <2>1. /\ LoanAllowed(a, x) /\ TakeLoan(m, a, x, collActive[m]) /\ UNCHANGED <<mode, now>>
        /\ opened' = opened /\ a \in opened[m]
    BY <1>5 DEF user_borrow, world, debtAccounts
  <2>2. opened' = [opened EXCEPT ![m] = @ \cup {a}]
    BY <1>0, <2>1
  <2> QED
    BY <2>1, <2>2, LoanSeen
<1>6. ASSUME NEW m \in Margins, NEW c \in Assets, NEW a \in Assets,
             NEW x \in Amounts, NEW y \in Amounts, user_deposit_and_borrow(m, c, a, x, y)
      PROVE  PoolStep(b)
  <2>1. /\ LoanAllowed(a, y) /\ TakeLoan(m, a, y, AfterDeposit(m, c)) /\ UNCHANGED <<mode, now>>
        /\ opened' = [opened EXCEPT ![m] = @ \cup {a}]
        /\ Pool(c)!ProtocolAllows("CollateralDeposit")
    BY <1>6 DEF user_deposit_and_borrow, world, DepositAllowed
  <2>2. Pool(a)!ProtocolAllows("CollateralDeposit")
    BY <2>1 DEF Pool!ProtocolAllows
  <2> QED
    BY <2>1, <2>2, LoanSeen
<1>7. ASSUME NEW m \in Margins, NEW a \in Assets, NEW x \in Payments, user_repay_from_margin(m, a, x)
      PROVE  PoolStep(b)
  <2> DEFINE sent == MinOf(GrossUp(MinOf(x, Pool(a)!Owed(m))), vault[m][a])
  <2>1. /\ Pool(a)!AccrualOK /\ Pool(a)!Owed(m) > 0 /\ sent > 0 /\ a \in opened[m]
        /\ Settle(m, a, Pool(a)!Settlement(m, sent, Pool(a)!Owed(m)))
        /\ UNCHANGED <<mode, now>> /\ opened' = opened
    BY <1>7 DEF user_repay_from_margin, world, debtAccounts
  <2>2. sent \in U64
    BY <1>0, <2>1, RepaidType
  <2>4. vault[m][a] \in Amounts \cup Balances /\ x \in Pool(a)!Payments
    BY <1>0 DEF EveryAmount, Payments, Pool!Payments
  <2> HIDE DEF sent
  <2>5. /\ \A c \in Assets \ {a} : PoolStep(c)
        /\ Pool(a)!Settle(m, Pool(a)!Settlement(m, sent, Pool(a)!Owed(m)))
    BY <2>1, <2>2, SettleSeen
  <2>6. Pool(a)!user_repay_from_margin(m, x, vault[m][a])
    BY <2>1, <2>5 DEF Pool!user_repay_from_margin, Pool!MinOf, MinOf, sent
  <2>7. PoolStep(a)
    BY <2>4, <2>6 DEF PoolStep, Pool!Next
  <2> QED
    BY <2>5, <2>7
<1>8. ASSUME NEW m \in Margins, NEW a \in Assets, NEW x \in Payments, public_repay_from_wallet(m, a, x)
      PROVE  PoolStep(b)
  <2> DEFINE target == MinOf(x, Pool(a)!Owed(m))
             sent == GrossUp(target)
  <2>1. /\ Pool(a)!AccrualOK /\ Pool(a)!Owed(m) > 0 /\ sent \in U64 /\ target > 0 /\ a \in opened[m]
        /\ Settle(m, a, Pool(a)!Settlement(m, sent, Pool(a)!Owed(m)))
        /\ UNCHANGED <<mode, now>> /\ opened' = opened
    BY <1>8 DEF public_repay_from_wallet, world, debtAccounts
  <2>2. target = Pool(a)!MinOf(x, Pool(a)!Owed(m)) /\ sent \in Pool(a)!U64
    BY <2>1 DEF Pool!MinOf, MinOf, Pool!U64, U64
  <2>3. x \in Pool(a)!Payments
    BY DEF Payments, Pool!Payments
  <2>4. /\ \A c \in Assets \ {a} : PoolStep(c)
        /\ Pool(a)!Settle(m, Pool(a)!Settlement(m, sent, Pool(a)!Owed(m)))
    <3> HIDE DEF sent
    <3> QED
      BY <2>1, SettleSeen
  <2> HIDE DEF target
  <2>5. Pool(a)!public_repay_from_wallet(m, x)
    BY <2>1, <2>2, <2>4 DEF Pool!public_repay_from_wallet, Pool!MinOf, MinOf, sent, target
  <2>6. PoolStep(a)
    BY <2>3, <2>5 DEF PoolStep, Pool!Next
  <2> QED
    BY <2>4, <2>6
<1>9. ASSUME NEW m \in Margins, NEW c \in Assets, NEW d \in Assets, NEW x \in Amounts,
             public_liquidate(m, c, d, x)
      PROVE  PoolStep(b)
  BY <1>9, LiquidationSeen
<1>10. ASSUME NEW m \in Margins, NEW c \in Assets, NEW a \in Assets,
              NEW x \in Amounts, NEW y \in Amounts, user_margin_swap(m, c, a, x, y)
       PROVE  PoolStep(b)
  BY <1>1, <1>10 DEF user_margin_swap, world, debtAccounts
<1>11. ASSUME NEW m \in Margins, NEW a \in Assets, NEW x \in Donations, Donate(m, a, x) PROVE PoolStep(b)
  BY <1>1, <1>11 DEF Donate, world, debtAccounts, registry
<1>12. ASSUME NEW md \in Modes, admin_set_operating_mode(md) PROVE PoolStep(b)
  <2>1. /\ mode' = md /\ UNCHANGED <<now, pools, opened, debtShares, debtActive>>
    BY <1>12 DEF admin_set_operating_mode, debtAccounts, registry
  <2>2. Pool(b)!admin_set_operating_mode(md)
    BY <2>1 DEF Pool!admin_set_operating_mode, Pool!lenders, Pool!margins, pools
  <2> QED
    BY <2>2 DEF PoolStep, Pool!Next
<1>13. ASSUME NEW a \in Assets, NEW p \in Prices[a], SetPrice(a, p) PROVE PoolStep(b)
  BY <1>1, <1>13 DEF SetPrice, debtAccounts, registry
<1>14. ASSUME NEW a \in Assets, NEW c \in AssetConfigs[a], admin_update_asset_config(a, c) PROVE PoolStep(b)
  BY <1>1, <1>14 DEF admin_update_asset_config, debtAccounts, registry
<1>15. CASE Tick
  <2>1. now < MaxTime /\ now' = now + 1 /\ UNCHANGED <<mode, pools, opened, debtShares, debtActive>>
    BY <1>15 DEF Tick, debtAccounts, registry
  <2>2. Pool(b)!Tick
    BY <2>1 DEF Pool!Tick, Pool!lenders, Pool!margins, Pool!admin, pools
  <2> QED
    BY <2>2 DEF PoolStep, Pool!Next
<1>16. CASE UNCHANGED vars
  BY <1>1, <1>16 DEF vars, world, debtAccounts, registry
<1>17. CASE MarginStep
  BY <1>2, <1>3, <1>4, <1>5, <1>6, <1>7, <1>8, <1>9, <1>10, <1>11, <1>12, <1>13, <1>14, <1>15,
     <1>17 DEF MarginStep
<1> QED
  BY <1>16, <1>17 DEF Next

\* To every pool each step of the margin accounts is a step that LendingPool
\* allows it, or nothing: no instruction on a margin account mints debt shares,
\* burns them, moves cash or closes a position in a way of its own.
THEOREM MarginStepsArePoolSteps ==
  ASSUME EveryAmount
  PROVE  Spec => StepsOfPools
<1>1. PoolsInv /\ [Next]_vars => [\A a \in Assets : UNCHANGED Pool(a)!vars \/ Pool(a)!Next]_vars
  BY StepSeen DEF PoolStep
<1> QED
  BY <1>1, PoolsInvariance, PTL DEF Spec, StepsOfPools
=============================================================================
