-------------------------- MODULE ReserveMath_proofs --------------------------
(***************************************************************************)
(* Lemmas about the operators of ReserveMath: what the two roundings bound, *)
(* what an accrual may change, what a loan and a repayment do to the price *)
(* of a debt share, and how a sum changes with one of its terms.           *)
(***************************************************************************)
EXTENDS ReserveMath, FiniteSetTheorems, FunctionTheorems, TLAPS

-----------------------------------------------------------------------------
(* Rounding *)

\* mul_div_floor never exceeds the exact quotient and misses it by less than one.
LEMMA FloorBounds ==
  ASSUME NEW a \in Nat, NEW b \in Nat, NEW d \in Nat \ {0}
  PROVE  /\ mul_div_floor(a, b, d) \in Nat
         /\ mul_div_floor(a, b, d) * d <= a * b
         /\ a * b < mul_div_floor(a, b, d) * d + d
<1>1. a * b \in Nat
  OBVIOUS
<1> QED
  BY <1>1 DEF mul_div_floor

\* mul_div_ceil is never below the exact quotient and exceeds it by less than one.
LEMMA CeilBounds ==
  ASSUME NEW a \in Nat, NEW b \in Nat, NEW d \in Nat \ {0}
  PROVE  /\ mul_div_ceil(a, b, d) \in Nat
         /\ mul_div_ceil(a, b, d) * d >= a * b
         /\ mul_div_ceil(a, b, d) * d < a * b + d
<1> DEFINE q == (a * b) \div d
           p == (a * b) % d
<1>1. a * b \in Nat
  OBVIOUS
<1>2. /\ q \in Nat
      /\ p \in 0..(d - 1)
      /\ a * b = q * d + p
  BY <1>1
<1>3. CASE p = 0
  BY <1>2, <1>3 DEF mul_div_ceil
<1>4. CASE p # 0
  <2>1. mul_div_ceil(a, b, d) = q + 1
    BY <1>4 DEF mul_div_ceil
  <2>2. (q + 1) * d = q * d + d
    BY <1>2
  <2> QED
    BY <1>2, <1>4, <2>1, <2>2
<1> QED
  BY <1>3, <1>4

\* Products are ordered like their factors.
LEMMA MulMonotone ==
  ASSUME NEW a \in Nat, NEW b \in Nat, NEW c \in Nat, a <= b
  PROVE  a * c <= b * c
  OBVIOUS

\* A common positive factor cancels from a weak inequality of products.
LEMMA MulCancel ==
  ASSUME NEW a \in Nat, NEW b \in Nat, NEW c \in Nat \ {0}, a * c <= b * c
  PROVE  a <= b
  OBVIOUS

\* A common positive factor cancels from a strict inequality of products.
LEMMA MulCancelStrict ==
  ASSUME NEW a \in Nat, NEW b \in Nat, NEW c \in Nat, a * c < b * c
  PROVE  a < b
  OBVIOUS

\* Scaling by a fraction of at most one, rounded down, does not increase.
LEMMA FloorShrinks ==
  ASSUME NEW a \in Nat, NEW b \in Nat, NEW d \in Nat \ {0}, b <= d
  PROVE  mul_div_floor(a, b, d) <= a
<1> DEFINE q == mul_div_floor(a, b, d)
<1>1. q \in Nat /\ q * d <= a * b
  BY FloorBounds
<1>2. a * b <= a * d
  OBVIOUS
<1>3. q * d <= a * d
  BY <1>1, <1>2
<1> HIDE DEF q
<1>4. q <= a
  BY <1>1, <1>3, MulCancel
<1> QED
  BY <1>4 DEF q

\* The same when the result is rounded up.
LEMMA CeilShrinks ==
  ASSUME NEW a \in Nat, NEW b \in Nat, NEW d \in Nat \ {0}, b <= d
  PROVE  mul_div_ceil(a, b, d) <= a
<1> DEFINE q == mul_div_ceil(a, b, d)
<1>1. q \in Nat /\ q * d < a * b + d
  BY CeilBounds
<1>2. a * b <= a * d
  OBVIOUS
<1>3. q * d < (a + 1) * d
  BY <1>1, <1>2
<1> HIDE DEF q
<1>4. q < a + 1
  BY <1>1, <1>3, MulCancelStrict
<1>5. q <= a
  BY <1>1, <1>4
<1> QED
  BY <1>5 DEF q

-----------------------------------------------------------------------------
(* Accrual *)

\* The utilisation is a natural number, also of an empty reserve.
LEMMA UtilizationType ==
  ASSUME NEW l \in Nat, NEW b \in Nat
  PROVE  utilization_wad(l, b) \in Nat
<1>1. CASE l + b = 0
  BY <1>1 DEF utilization_wad
<1>2. CASE l + b # 0
  <2>1. l + b \in Nat \ {0} /\ Wad \in Nat
    BY <1>2, ReserveMathAssumption
  <2> QED
    BY <2>1, <1>2, FloorBounds DEF utilization_wad
<1> QED
  BY <1>1, <1>2

\* Squaring a fixed-point number gives a natural number.
LEMMA WadSquareType ==
  ASSUME NEW x \in Nat
  PROVE  WadSquare[x] \in Nat
<1>1. Wad \in Nat \ {0}
  BY ReserveMathAssumption
<1>2. x * x + Wad \div 2 \in Nat
  BY <1>1
<1> QED
  BY <1>1, <1>2 DEF WadSquare

\* Every admissible curve gives a natural rate at every utilisation.
LEMMA RateType ==
  ASSUME NEW c \in ConfigRecords, NEW u \in Nat
  PROVE  borrow_rate_per_second_wad(c, u) \in Nat
<1>1. /\ Wad \in Nat \ {0}
      /\ SecondsPerYear \in Nat \ {0}
      /\ MaxRateCoeff \in Nat
  BY ReserveMathAssumption
<1>2. /\ c.linear_coeff_wad \in Nat
      /\ c.jump_coeff_wad \in Nat
      /\ c.rate_multiplier_wad \in Nat
  BY <1>1 DEF ConfigRecords
<1>3. WadPow32(u) \in Nat
  BY WadSquareType DEF WadPow32
<1>4. WadPow64(u) \in Nat
  BY <1>3, WadSquareType DEF WadPow64
<1> DEFINE p == mul_div_floor(u, c.linear_coeff_wad, Wad)
              + mul_div_floor(WadPow32(u), c.linear_coeff_wad, Wad)
              + mul_div_floor(WadPow64(u), c.jump_coeff_wad, Wad)
<1>5. p \in Nat
  <2>1. mul_div_floor(u, c.linear_coeff_wad, Wad) \in Nat
    BY <1>1, <1>2, FloorBounds
  <2>2. mul_div_floor(WadPow32(u), c.linear_coeff_wad, Wad) \in Nat
    BY <1>1, <1>2, <1>3, FloorBounds
  <2>3. mul_div_floor(WadPow64(u), c.jump_coeff_wad, Wad) \in Nat
    BY <1>1, <1>2, <1>4, FloorBounds
  <2> QED
    BY <2>1, <2>2, <2>3
<1>6. SecondsPerYear * Wad \in Nat \ {0}
  BY <1>1
<1> HIDE DEF p
<1>7. mul_div_floor(c.rate_multiplier_wad, p, SecondsPerYear * Wad) \in Nat
  BY <1>2, <1>5, <1>6, FloorBounds
<1> QED
  BY <1>7 DEF borrow_rate_per_second_wad, p

\* The interest of an accrual that does not go back in time is a natural number.
LEMMA InterestType ==
  ASSUME NEW r \in ReserveRecords, NEW c \in ConfigRecords, NEW now \in Nat,
         now >= r.last_update_timestamp
  PROVE  /\ InterestDue(r, c, now) \in Nat
         /\ ProtocolFee(InterestDue(r, c, now), c) \in 0..InterestDue(r, c, now)
<1> DEFINE u == utilization_wad(r.accounted_liquidity_assets, r.total_borrow_assets)
           g == borrow_rate_per_second_wad(c, u) * (now - r.last_update_timestamp)
           i == mul_div_ceil(r.total_borrow_assets, g, Wad)
<1>1. /\ r.accounted_liquidity_assets \in Nat
      /\ r.total_borrow_assets \in Nat
      /\ now - r.last_update_timestamp \in Nat
      /\ Wad \in Nat \ {0}
      /\ BasisPoints \in Nat \ {0}
      /\ c.reserve_factor_bps \in Nat
      /\ c.reserve_factor_bps <= BasisPoints
  BY ReserveMathAssumption DEF ReserveRecords, ConfigRecords, U64
<1>2. u \in Nat
  BY <1>1, UtilizationType
<1> HIDE DEF u
<1>3. borrow_rate_per_second_wad(c, u) \in Nat
  BY <1>2, RateType
<1>4. g \in Nat
  BY <1>1, <1>3
<1> HIDE DEF g
<1>5. i \in Nat
  BY <1>1, <1>4, CeilBounds
<1>6. InterestDue(r, c, now) = i
  BY DEF InterestDue, i, g, u
<1> HIDE DEF i
<1>7. ProtocolFee(i, c) \in 0..i
  <2>1. mul_div_floor(i, c.reserve_factor_bps, BasisPoints) \in Nat
    BY <1>1, <1>5, FloorBounds
  <2>2. mul_div_floor(i, c.reserve_factor_bps, BasisPoints) <= i
    BY <1>1, <1>5, FloorShrinks
  <2> QED
    BY <1>5, <2>1, <2>2 DEF ProtocolFee
<1> QED
  BY <1>5, <1>6, <1>7

\* An accrual brings the reserve to `now`.  It touches neither the cash nor the
\* debt shares; debt grows, and the fees take no more than the growth.
LEMMA AccrualEffect ==
  ASSUME NEW r \in ReserveRecords, NEW c \in ConfigRecords, NEW now \in Nat,
         AccrualSucceeds(r, c, now)
  PROVE  /\ accrue(r, c, now) \in ReserveRecords
         /\ accrue(r, c, now).accounted_liquidity_assets = r.accounted_liquidity_assets
         /\ accrue(r, c, now).total_borrow_shares = r.total_borrow_shares
         /\ accrue(r, c, now).total_borrow_assets >= r.total_borrow_assets
         /\ accrue(r, c, now).accrued_protocol_fees - r.accrued_protocol_fees
              <= accrue(r, c, now).total_borrow_assets - r.total_borrow_assets
         /\ r.total_borrow_assets = 0 => accrue(r, c, now).total_borrow_assets = 0
         /\ accrue(r, c, now).last_update_timestamp = now
<1> DEFINE interest == InterestDue(r, c, now)
           total == r.total_borrow_assets + interest
           grown == [r EXCEPT !.total_borrow_assets   = total,
                              !.accrued_protocol_fees = @ + ProtocolFee(interest, c),
                              !.borrow_index_wad      = GrownIndex(r, total),
                              !.last_update_timestamp = now]
<1>1. now >= r.last_update_timestamp
  BY DEF AccrualSucceeds
<1>2. /\ interest \in Nat
      /\ ProtocolFee(interest, c) \in 0..interest
  BY <1>1, InterestType
<1>3. CASE now = r.last_update_timestamp \/ r.total_borrow_assets = 0
  <2>1. accrue(r, c, now) = [r EXCEPT !.last_update_timestamp = now]
    BY <1>3 DEF accrue
  <2> QED
    BY <2>1 DEF ReserveRecords, U64
<1>4. CASE ~(now = r.last_update_timestamp \/ r.total_borrow_assets = 0)
  <2>1. accrue(r, c, now) = grown
    BY <1>4 DEF accrue
  <2>2. r.total_borrow_assets \in Nat \ {0} /\ r.borrow_index_wad \in Nat /\ Wad \in Nat
    BY <1>4, ReserveMathAssumption DEF ReserveRecords, U64
  <2>3. total \in Nat
    BY <1>2, <2>2
  <2> HIDE DEF interest
  <2>4. GrownIndex(r, total) \in Nat
    <3>1. mul_div_floor(r.borrow_index_wad, total, r.total_borrow_assets) \in Nat
      BY <2>2, <2>3, FloorBounds
    <3> QED
      BY <3>1, <2>2 DEF GrownIndex, MaxOf
  <2>5. /\ grown.total_borrow_assets = total
        /\ grown.accrued_protocol_fees = r.accrued_protocol_fees + ProtocolFee(interest, c)
        /\ grown.accounted_liquidity_assets = r.accounted_liquidity_assets
        /\ grown.total_borrow_shares = r.total_borrow_shares
        /\ grown.borrow_index_wad = GrownIndex(r, total)
        /\ grown.last_update_timestamp = now
    BY DEF ReserveRecords
  <2>6. grown.total_borrow_assets \in U64 /\ grown.accrued_protocol_fees \in U64
    BY <2>1 DEF AccrualSucceeds
  <2>7. grown \in ReserveRecords
    BY <2>4, <2>5, <2>6 DEF ReserveRecords
  <2>8. r.accrued_protocol_fees \in Nat
    BY DEF ReserveRecords, U64
  <2> HIDE DEF grown
  <2> QED
    BY <1>2, <2>1, <2>2, <2>5, <2>7, <2>8 DEF total
<1> QED
  BY <1>3, <1>4

-----------------------------------------------------------------------------
(* Sums *)

\* The units of a function to the naturals over a finite set are finitely many.
LEMMA UnitsFinite ==
  ASSUME NEW S, IsFiniteSet(S), NEW f \in [S -> Nat], NEW R \in SUBSET S
  PROVE  IsFiniteSet(UNION {UnitsOf(f, x) : x \in R})
<1> DEFINE T == {UnitsOf(f, x) : x \in R}
           g == [x \in R |-> UnitsOf(f, x)]
<1>1. IsFiniteSet(R)
  BY FS_Subset
<1>2. g \in Surjection(R, T)
  BY DEF Surjection
<1>3. IsFiniteSet(T)
  BY <1>1, <1>2, FS_Surjection
<1>4. ASSUME NEW x \in R
      PROVE  IsFiniteSet(UnitsOf(f, x))
  <2>1. f[x] \in Int /\ 1 \in Int
    OBVIOUS
  <2>2. IsFiniteSet(1..f[x])
    BY <2>1, FS_Interval
  <2>3. IsFiniteSet({x})
    BY FS_Singleton
  <2> QED
    BY <2>2, <2>3, FS_Product DEF UnitsOf
<1>5. \A U \in T : IsFiniteSet(U)
  BY <1>4
<1> QED
  BY <1>3, <1>5, FS_UNION

\* An entry contributes as many units as its value says.
LEMMA UnitsCounted ==
  ASSUME NEW S, NEW f \in [S -> Nat], NEW x \in S
  PROVE  /\ IsFiniteSet(UnitsOf(f, x))
         /\ Cardinality(UnitsOf(f, x)) = f[x]
<1>1. f[x] \in Nat
  OBVIOUS
<1>2. IsFiniteSet(1..f[x]) /\ Cardinality(1..f[x]) = f[x]
  BY <1>1, FS_Interval
<1>3. IsFiniteSet({x}) /\ Cardinality({x}) = 1
  BY FS_Singleton
<1>4. /\ IsFiniteSet({x} \X (1..f[x]))
      /\ Cardinality({x} \X (1..f[x])) = 1 * f[x]
  BY <1>2, <1>3, FS_Product
<1> QED
  BY <1>1, <1>4 DEF UnitsOf

\* A sum is one of its terms plus the units of all the others.
LEMMA TotalSplit ==
  ASSUME NEW S, IsFiniteSet(S), NEW f \in [S -> Nat], NEW x \in S
  PROVE  LET rest == UNION {UnitsOf(f, y) : y \in S \ {x}}
         IN  /\ Cardinality(rest) \in Nat
             /\ TotalOf(f) = Cardinality(rest) + f[x]
<1> DEFINE rest == UNION {UnitsOf(f, y) : y \in S \ {x}}
           all  == UNION {UnitsOf(f, y) : y \in S}
<1>1. IsFiniteSet(rest) /\ Cardinality(rest) \in Nat
  <2>1. IsFiniteSet(rest)
    BY UnitsFinite
  <2> QED
    BY <2>1, FS_CardinalityType
<1>2. IsFiniteSet(UnitsOf(f, x)) /\ Cardinality(UnitsOf(f, x)) = f[x]
  BY UnitsCounted
<1>3. all = rest \cup UnitsOf(f, x)
  OBVIOUS
<1>4. rest \cap UnitsOf(f, x) = {}
  BY DEF UnitsOf
<1>5. Cardinality(rest \cap UnitsOf(f, x)) = 0
  BY <1>4, FS_EmptySet
<1>6. Cardinality(all) = Cardinality(rest) + Cardinality(UnitsOf(f, x))
                           - Cardinality(rest \cap UnitsOf(f, x))
  BY <1>1, <1>2, <1>3, FS_Union
<1> HIDE DEF rest
<1>7. TotalOf(f) = Cardinality(all)
  BY DEF TotalOf
<1>8. f[x] \in Nat
  OBVIOUS
<1>9. TotalOf(f) = Cardinality(rest) + f[x] - 0
  BY <1>2, <1>5, <1>6, <1>7
<1>10. TotalOf(f) = Cardinality(rest) + f[x]
  BY <1>1, <1>8, <1>9
<1> QED
  BY <1>1, <1>10 DEF rest

\* Changing one entry changes the sum by as much.
LEMMA TotalOfExcept ==
  ASSUME NEW S, IsFiniteSet(S), NEW f \in [S -> Nat], NEW x \in S, NEW v \in Nat
  PROVE  /\ TotalOf([f EXCEPT ![x] = v]) = TotalOf(f) - f[x] + v
         /\ TotalOf(f) \in Nat
         /\ f[x] <= TotalOf(f)
<1> DEFINE g == [f EXCEPT ![x] = v]
           rest(h) == UNION {UnitsOf(h, y) : y \in S \ {x}}
<1>1. g \in [S -> Nat] /\ g[x] = v
  OBVIOUS
<1>2. rest(g) = rest(f)
  BY DEF UnitsOf
<1>3. Cardinality(rest(f)) \in Nat /\ TotalOf(f) = Cardinality(rest(f)) + f[x]
  BY TotalSplit
<1>4. TotalOf(g) = Cardinality(rest(g)) + g[x]
  BY <1>1, TotalSplit
<1>5. f[x] \in Nat
  OBVIOUS
<1> HIDE DEF g, rest
<1>6. TotalOf(g) = TotalOf(f) - f[x] + v
  BY <1>1, <1>2, <1>3, <1>4, <1>5
<1> QED
  BY <1>3, <1>5, <1>6 DEF g

\* A sum of zeros is zero.
LEMMA TotalOfZero ==
  ASSUME NEW S
  PROVE  TotalOf([x \in S |-> 0]) = 0
<1> DEFINE z == [x \in S |-> 0]
<1>1. ASSUME NEW x \in S PROVE UnitsOf(z, x) = {}
  BY DEF UnitsOf
<1>2. UNION {UnitsOf(z, x) : x \in DOMAIN z} = {}
  BY <1>1
<1> QED
  BY <1>2, FS_EmptySet DEF TotalOf

-----------------------------------------------------------------------------
(* Debt shares.  S shares stand for T assets, at least one asset a share.  *)

\* A loan creates at least one share and no more shares than assets.
LEMMA SharesForLoan ==
  ASSUME NEW S \in Nat, NEW T \in Nat, S <= T, NEW a \in Nat \ {0}
  PROVE  /\ assets_to_debt_shares_up(a, S, T) \in Nat \ {0}
         /\ assets_to_debt_shares_up(a, S, T) <= a
<1>1. CASE S = 0 \/ T = 0
  BY <1>1 DEF assets_to_debt_shares_up
<1>2. CASE ~(S = 0 \/ T = 0)
  <2> DEFINE n == mul_div_ceil(a, S, T)
  <2>1. assets_to_debt_shares_up(a, S, T) = n
    BY <1>2 DEF assets_to_debt_shares_up
  <2>2. n \in Nat /\ n * T >= a * S
    BY <1>2, CeilBounds
  <2>3. n <= a
    BY <1>2, CeilShrinks
  <2> HIDE DEF n
  <2>4. a * S > 0
    BY <1>2
  <2>5. n # 0
    BY <1>2, <2>2, <2>4
  <2> QED
    BY <2>1, <2>2, <2>3, <2>5
<1> QED
  BY <1>1, <1>2

\* A position owes at least its share count and at most the whole debt, and
\* the only position there is owes the whole debt.
LEMMA OwedBounds ==
  ASSUME NEW S \in Nat, NEW T \in Nat, S <= T, NEW p \in Nat, p <= S
  PROVE  /\ debt_shares_to_assets_up(p, S, T) \in Nat
         /\ debt_shares_to_assets_up(p, S, T) >= p
         /\ debt_shares_to_assets_up(p, S, T) <= T
         /\ S # 0 => /\ debt_shares_to_assets_up(p, S, T) * S >= p * T
                     /\ debt_shares_to_assets_up(p, S, T) * S < p * T + S
         /\ p = S /\ S # 0 => debt_shares_to_assets_up(p, S, T) = T
<1>1. CASE S = 0
  BY <1>1 DEF debt_shares_to_assets_up
<1>2. CASE S # 0
  <2> DEFINE o == mul_div_ceil(p, T, S)
  <2>1. debt_shares_to_assets_up(p, S, T) = o
    BY <1>2 DEF debt_shares_to_assets_up
  <2>2. o \in Nat /\ o * S >= p * T /\ o * S < p * T + S
    BY <1>2, CeilBounds
  <2> HIDE DEF o
  <2>3. p * T >= p * S
    OBVIOUS
  <2>4. o >= p
    BY <1>2, <2>2, <2>3, MulCancel
  <2>5. p * T <= S * T
    OBVIOUS
  <2>6. o * S < (T + 1) * S
    BY <2>2, <2>5
  <2>7. o < T + 1
    BY <2>2, <2>6, MulCancelStrict
  <2>8. ASSUME p = S PROVE o = T
    <3>1. o * S >= T * S
      BY <2>2, <2>8
    <3>2. o >= T
      BY <1>2, <2>2, <3>1, MulCancel
    <3> QED
      BY <2>2, <2>7, <3>2
  <2> QED
    BY <2>1, <2>2, <2>4, <2>7, <2>8
<1> QED
  BY <1>1, <1>2

\* A payment that does not cover a position leaves it shares, and takes no more
\* shares from the reserve than leave one asset behind each that remains.
LEMMA PartialRepayment ==
  ASSUME NEW S \in Nat \ {0}, NEW T \in Nat, S <= T, NEW p \in Nat, p <= S,
         NEW owed \in Nat, owed <= T, owed * S < p * T + S,
         NEW received \in Nat, received < owed
  PROVE  LET burned == mul_div_floor(received, S, T)
         IN  /\ burned \in Nat
             /\ burned < p
             /\ S - burned <= T - received
             /\ burned * T <= received * S
<1> DEFINE b == mul_div_floor(received, S, T)
<1>1. T \in Nat \ {0}
  OBVIOUS
<1>2. b \in Nat /\ b * T <= received * S /\ received * S < b * T + T
  BY <1>1, FloorBounds
<1> HIDE DEF b
<1>3. (received + 1) * S <= owed * S
  BY MulMonotone
<1>4. received * S < p * T
  BY <1>3
<1>5. b < p
  BY <1>2, <1>4, MulCancelStrict
<1>6. (T - received) * S <= (T - received) * T
  <2>1. T - received \in Nat
    OBVIOUS
  <2> QED
    BY <2>1
<1>7. (S - b) * T < (T - received + 1) * T
  <2>1. (S - b) * T < S * T - received * S + T
    BY <1>2
  <2>2. S * T - received * S = (T - received) * S
    OBVIOUS
  <2>3. (T - received + 1) * T = (T - received) * T + T
    OBVIOUS
  <2>4. (T - received) * S + T <= (T - received) * T + T
    BY <1>6
  <2>5. (S - b) * T < (T - received) * S + T
    BY <2>1, <2>2
  <2> DEFINE x == (S - b) * T
             y == (T - received) * S + T
             z == (T - received) * T + T
  <2>6. x \in Int /\ y \in Int /\ z \in Int
    BY <1>2
  <2>7. x < y /\ y <= z
    BY <2>4, <2>5
  <2> HIDE DEF x, y, z
  <2>8. x < z
    BY <2>6, <2>7
  <2> QED
    BY <2>3, <2>8 DEF x, z
<1>8. S - b \in Nat /\ T - received + 1 \in Nat
  BY <1>2, <1>5
<1>9. S - b < T - received + 1
  BY <1>7, <1>8, MulCancelStrict
<1> QED
  BY <1>2, <1>5, <1>9 DEF b

\* What any repayment does to the position and to the reserve's two totals.
LEMMA RepaymentEffect ==
  ASSUME NEW r \in ReserveRecords, NEW p \in Nat, NEW received \in Nat,
         r.total_borrow_shares <= r.total_borrow_assets,
         r.total_borrow_shares = 0 => r.total_borrow_assets = 0,
         p <= r.total_borrow_shares
  PROVE  LET owed   == debt_shares_to_assets_up(p, r.total_borrow_shares, r.total_borrow_assets)
             burned == DebtSharesBurned(r, p, owed, received)
             after  == AfterRepay(r, owed, received, burned)
         IN  owed > 0 =>
             /\ burned \in 0..p
             /\ received < owed => burned < p
             /\ received >= owed => burned = p
             /\ after.total_borrow_assets = r.total_borrow_assets - MinOf(received, owed)
             /\ after.total_borrow_assets \in U64
             /\ after.total_borrow_shares = r.total_borrow_shares - burned
             /\ after.total_borrow_shares \in Nat
             /\ after.total_borrow_shares <= after.total_borrow_assets
             /\ after.total_borrow_shares = 0 => after.total_borrow_assets = 0
             /\ after.accounted_liquidity_assets = r.accounted_liquidity_assets + received
             /\ after.accrued_protocol_fees = r.accrued_protocol_fees
             /\ after.borrow_index_wad = r.borrow_index_wad
             /\ after.last_update_timestamp = r.last_update_timestamp
<1> DEFINE S      == r.total_borrow_shares
           T      == r.total_borrow_assets
           owed   == debt_shares_to_assets_up(p, S, T)
           burned == DebtSharesBurned(r, p, owed, received)
           after  == AfterRepay(r, owed, received, burned)
<1> SUFFICES ASSUME owed > 0
             PROVE  /\ burned \in 0..p
                    /\ received < owed => burned < p
                    /\ received >= owed => burned = p
                    /\ after.total_borrow_assets = T - MinOf(received, owed)
                    /\ after.total_borrow_assets \in U64
                    /\ after.total_borrow_shares = S - burned
                    /\ after.total_borrow_shares \in Nat
                    /\ after.total_borrow_shares <= after.total_borrow_assets
                    /\ after.total_borrow_shares = 0 => after.total_borrow_assets = 0
                    /\ after.accounted_liquidity_assets = r.accounted_liquidity_assets + received
                    /\ after.accrued_protocol_fees = r.accrued_protocol_fees
                    /\ after.borrow_index_wad = r.borrow_index_wad
                    /\ after.last_update_timestamp = r.last_update_timestamp
  OBVIOUS
<1>1. /\ S \in Nat /\ T \in Nat /\ T <= MaxU64 /\ MaxU64 \in Nat
      /\ S <= T /\ p <= S /\ (S = 0 => T = 0)
  BY ReserveMathAssumption DEF ReserveRecords, U64
<1>2. /\ owed \in Nat /\ owed >= p /\ owed <= T
      /\ S # 0 => owed * S >= p * T /\ owed * S < p * T + S
      /\ p = S /\ S # 0 => owed = T
  BY <1>1, OwedBounds
<1>3. S # 0
  BY <1>1, <1>2
<1>4. /\ after.total_borrow_assets = SaturatingSub(T, MinOf(received, owed))
      /\ after.total_borrow_shares = SaturatingSub(S, burned)
      /\ after.accounted_liquidity_assets = r.accounted_liquidity_assets + received
      /\ after.accrued_protocol_fees = r.accrued_protocol_fees
      /\ after.borrow_index_wad = r.borrow_index_wad
      /\ after.last_update_timestamp = r.last_update_timestamp
  BY DEF AfterRepay, ReserveRecords
<1>5. CASE received >= owed
  <2>1. burned = p /\ MinOf(received, owed) = owed
    BY <1>2, <1>5 DEF DebtSharesBurned, MinOf
  <2> HIDE DEF S, T, owed, burned, after
  <2>2. S - p <= T - owed
    <3>1. (S - p) * T >= (S - p) * S
      BY <1>1
    <3>2. (T - owed) * S > S * T - p * T - S
      BY <1>1, <1>2, <1>3
    <3>3. (S - p) * S < (T - owed + 1) * S
      BY <1>1, <1>2, <3>1, <3>2
    <3>4. S - p \in Nat /\ T - owed + 1 \in Nat
      BY <1>1, <1>2
    <3>5. S - p < T - owed + 1
      BY <1>1, <3>3, <3>4, MulCancelStrict
    <3> QED
      BY <1>1, <1>2, <3>5
  <2>3. /\ after.total_borrow_assets = T - owed
        /\ after.total_borrow_shares = S - p
    BY <1>1, <1>2, <1>4, <2>1 DEF SaturatingSub
  <2>4. S - p = 0 => T - owed = 0
    BY <1>1, <1>2, <1>3
  <2>5. /\ T - owed \in 0..MaxU64
        /\ S - p \in Nat
        /\ p \in 0..p
    BY <1>1, <1>2
  <2> QED
    BY <1>1, <1>2, <1>4, <1>5, <2>1, <2>2, <2>3, <2>4, <2>5 DEF U64, S, T, owed, burned, after
<1>6. CASE received < owed
  <2> DEFINE b == mul_div_floor(received, S, T)
  <2>1. /\ b \in Nat
        /\ b < p
        /\ S - b <= T - received
    BY <1>1, <1>2, <1>3, <1>6, PartialRepayment
  <2>2. burned = b
    BY <1>1, <1>2, <1>6, <2>1 DEF DebtSharesBurned, MinOf
  <2>3. MinOf(received, owed) = received
    BY <1>2, <1>6 DEF MinOf
  <2> HIDE DEF S, T, owed, burned, after, b
  <2>4. /\ after.total_borrow_assets = T - received
        /\ after.total_borrow_shares = S - b
    BY <1>1, <1>2, <1>4, <1>6, <2>1, <2>2, <2>3 DEF SaturatingSub
  <2>5. /\ T - received \in 0..MaxU64
        /\ S - b \in Nat
        /\ S - b # 0
        /\ b \in 0..p
    BY <1>1, <1>2, <1>6, <2>1
  <2> QED
    BY <1>1, <1>2, <1>4, <1>6, <2>1, <2>2, <2>3, <2>4, <2>5 DEF U64, S, T, owed, burned, after
<1> QED
  BY <1>2, <1>5, <1>6
-----------------------------------------------------------------------------
(* What a position of p shares owes, before and after the totals change    *)

\* A reserve that has been accrued at `now` is accrued already.
LEMMA AccruedOnce ==
  ASSUME NEW r \in ReserveRecords, NEW c, NEW t, r.last_update_timestamp = t
  PROVE  accrue(r, c, t) = r
<1>1. accrue(r, c, t) = [r EXCEPT !.last_update_timestamp = t]
  BY DEF accrue
<1> QED
  BY <1>1 DEF ReserveRecords

\* An accrual that does not go back in time leaves a natural debt, no smaller
\* than before, even one that is too large for a token amount.
LEMMA AccruedDebt ==
  ASSUME NEW r \in ReserveRecords, NEW c \in ConfigRecords, NEW t \in Nat,
         r.last_update_timestamp <= t
  PROVE  /\ accrue(r, c, t).total_borrow_assets \in Nat
         /\ accrue(r, c, t).total_borrow_assets >= r.total_borrow_assets
         /\ accrue(r, c, t).total_borrow_shares = r.total_borrow_shares
         /\ r.total_borrow_assets = 0 => accrue(r, c, t).total_borrow_assets = 0
<1>1. r.total_borrow_assets \in Nat
  BY DEF ReserveRecords, U64
<1>2. InterestDue(r, c, t) \in Nat
  BY InterestType DEF ReserveRecords
<1>3. CASE t = r.last_update_timestamp \/ r.total_borrow_assets = 0
  <2>1. accrue(r, c, t) = [r EXCEPT !.last_update_timestamp = t]
    BY <1>3 DEF accrue
  <2> QED
    BY <1>1, <2>1 DEF ReserveRecords
<1>4. CASE ~(t = r.last_update_timestamp \/ r.total_borrow_assets = 0)
  <2>1. /\ accrue(r, c, t).total_borrow_assets = r.total_borrow_assets + InterestDue(r, c, t)
        /\ accrue(r, c, t).total_borrow_shares = r.total_borrow_shares
    BY <1>4 DEF accrue, ReserveRecords
  <2> QED
    BY <1>1, <1>2, <1>4, <2>1
<1> QED
  BY <1>3, <1>4

\* When a debt share does not become dearer, no position owes more.
LEMMA CheaperShares ==
  ASSUME NEW p \in Nat, NEW S \in Nat \ {0}, NEW T \in Nat,
         NEW S2 \in Nat \ {0}, NEW T2 \in Nat, T2 * S <= T * S2
  PROVE  debt_shares_to_assets_up(p, S2, T2) <= debt_shares_to_assets_up(p, S, T)
<1> DEFINE o  == mul_div_ceil(p, T, S)
           o2 == mul_div_ceil(p, T2, S2)
<1>1. o \in Nat /\ o * S >= p * T
  BY CeilBounds
<1>2. o2 \in Nat /\ o2 * S2 < p * T2 + S2
  BY CeilBounds
<1> HIDE DEF o, o2
<1> DEFINE a == o2 * S2 * S
           b == (p * T2 + S2) * S
           c == (p * T + S) * S2
           d == (o * S + S) * S2
           n == S2 * S
<1>3. /\ a \in Nat /\ b \in Nat /\ c \in Nat /\ d \in Nat /\ n \in Nat
      /\ a = o2 * n /\ d = (o + 1) * n
  BY <1>1, <1>2
<1>4. a < b
  BY <1>2
<1>5. b <= c
  <2>1. p * (T2 * S) <= p * (T * S2)
    OBVIOUS
  <2>2. b = p * (T2 * S) + S2 * S /\ c = p * (T * S2) + S * S2
    OBVIOUS
  <2> QED
    BY <2>1, <2>2
<1>6. c <= d
  BY <1>1
<1> HIDE DEF a, b, c, d, n
<1>7. o2 * n < (o + 1) * n
  BY <1>3, <1>4, <1>5, <1>6
<1>8. o2 < o + 1
  BY <1>1, <1>2, <1>3, <1>7, MulCancelStrict
<1>9. o2 <= o
  BY <1>1, <1>2, <1>8
<1> QED
  BY <1>9 DEF debt_shares_to_assets_up, o, o2

\* A common positive factor added to two ceilings: if position p of (S, T) is
\* worth no more than position p2 of (S2, T2) less `a`, it owes no more either.
LEMMA CeilingsApart ==
  ASSUME NEW p \in Nat, NEW S \in Nat \ {0}, NEW T \in Nat,
         NEW p2 \in Nat, NEW S2 \in Nat \ {0}, NEW T2 \in Nat, NEW a \in Int,
         (p * T + a * S) * S2 <= p2 * T2 * S
  PROVE  mul_div_ceil(p, T, S) + a <= mul_div_ceil(p2, T2, S2)
<1> DEFINE o  == mul_div_ceil(p, T, S)
           o2 == mul_div_ceil(p2, T2, S2)
<1>1. o \in Nat /\ o * S < p * T + S
  BY CeilBounds
<1>2. o2 \in Nat /\ o2 * S2 >= p2 * T2
  BY CeilBounds
<1> HIDE DEF o, o2
<1> SUFFICES ASSUME o + a > o2 PROVE FALSE
  BY <1>1, <1>2 DEF o, o2
<1>3. o2 * S <= (o + a - 1) * S
  <2>1. o2 <= o + a - 1
    BY <1>1, <1>2
  <2> QED
    BY <1>1, <1>2, <2>1
<1>4. o2 * S < p * T + a * S
  <2>1. (o + a - 1) * S = o * S + a * S - S
    BY <1>1
  <2> DEFINE x == o * S
             y == a * S
             z == p * T
             w == (o + a - 1) * S
             v == o2 * S
  <2>2. x \in Int /\ y \in Int /\ z \in Int /\ w \in Int /\ v \in Int
    BY <1>1, <1>2
  <2>3. w = x + y - S /\ x < z + S /\ v <= w
    BY <1>1, <1>3, <2>1
  <2> HIDE DEF x, y, z, w, v
  <2>4. v < z + y
    BY <2>2, <2>3
  <2> QED
    BY <2>4 DEF v, y, z
<1> DEFINE u == p * T + a * S
<1>5. u \in Int
  OBVIOUS
<1>6. o2 * S * S2 < u * S2
  <2>1. o2 * S \in Int /\ o2 * S < u
    BY <1>2, <1>4
  <2> HIDE DEF u
  <2> DEFINE k == o2 * S
  <2> HIDE DEF k
  <2>2. k \in Int /\ k < u
    BY <2>1 DEF k
  <2>3. k * S2 < u * S2
    BY <1>5, <2>2
  <2> QED
    BY <2>3 DEF k
<1>7. p2 * T2 * S <= o2 * S2 * S
  BY <1>2
<1> DEFINE q == p2 * T2 * S
           e == o2 * S * S2
           g == u * S2
<1>8. q \in Int /\ e \in Int /\ g \in Int /\ e = o2 * S2 * S
  BY <1>2, <1>5
<1>9. q <= e /\ e < g /\ g <= q
  BY <1>6, <1>7, <1>8
<1> HIDE DEF q, e, g
<1> QED
  BY <1>8, <1>9
\* A loan adds at least its amount to what the borrower owes, and nothing to
\* what anybody else owes.
LEMMA LoanCharges ==
  ASSUME NEW S \in Nat, NEW T \in Nat, S <= T, S = 0 => T = 0, NEW a \in Nat \ {0},
         NEW p \in Nat, p <= S
  PROVE  LET s == assets_to_debt_shares_up(a, S, T)
         IN  /\ debt_shares_to_assets_up(p + s, S + s, T + a)
                  >= debt_shares_to_assets_up(p, S, T) + a
             /\ debt_shares_to_assets_up(p, S + s, T + a) <= debt_shares_to_assets_up(p, S, T)
<1> DEFINE s == assets_to_debt_shares_up(a, S, T)
<1>1. s \in Nat \ {0}
  BY SharesForLoan
<1>2. CASE S = 0
  <2>1. s = a
    BY <1>2 DEF assets_to_debt_shares_up
  <2> HIDE DEF s
  <2>2. p = 0 /\ T = 0
    BY <1>2
  <2>3. debt_shares_to_assets_up(p, S, T) = 0
    BY <1>2 DEF debt_shares_to_assets_up
  <2>4. debt_shares_to_assets_up(p + s, S + s, T + a) = mul_div_ceil(a, a, a)
    <3>1. p + s = a /\ S + s = a /\ T + a = a /\ a # 0
      BY <1>2, <2>1, <2>2
    <3> QED
      BY <3>1 DEF debt_shares_to_assets_up
  <2>5. mul_div_ceil(a, a, a) >= a
    <3> DEFINE n == mul_div_ceil(a, a, a)
    <3>1. n \in Nat /\ n * a >= a * a
      BY CeilBounds
    <3> HIDE DEF n
    <3>2. n >= a
      BY <3>1, MulCancel
    <3> QED
      BY <3>2 DEF n
  <2>6. debt_shares_to_assets_up(p, S + s, T + a) = 0
    <3>1. mul_div_ceil(0, a, a) <= 0 /\ mul_div_ceil(0, a, a) \in Nat
      BY CeilShrinks, CeilBounds
    <3>2. S + s = a /\ T + a = a /\ a # 0
      BY <1>2, <2>1, <2>2
    <3>3. debt_shares_to_assets_up(p, S + s, T + a) = mul_div_ceil(0, a, a)
      BY <2>2, <3>2 DEF debt_shares_to_assets_up
    <3> QED
      BY <3>1, <3>3
  <2> QED
    BY <2>3, <2>4, <2>5, <2>6 DEF s
<1>3. CASE S # 0
  <2>1. s * T >= a * S
    <3>1. T \in Nat \ {0}
      BY <1>3
    <3>2. s = mul_div_ceil(a, S, T)
      BY <1>3, <3>1 DEF assets_to_debt_shares_up
    <3> QED
      BY <3>1, <3>2, CeilBounds
  <2> HIDE DEF s
  <2>2. S + s \in Nat \ {0} /\ p + s \in Nat /\ T + a \in Nat /\ S \in Nat \ {0}
    BY <1>1, <1>3
  <2>3. (T + a) * S <= T * (S + s)
    BY <1>1, <2>1
  <2>4. debt_shares_to_assets_up(p, S + s, T + a) <= debt_shares_to_assets_up(p, S, T)
    BY <2>2, <2>3, CheaperShares
  <2>5. (p * T + a * S) * (S + s) <= (p + s) * (T + a) * S
    <3> DEFINE x == (p * T + a * S) * (S + s)
               y == (p + s) * (T + a) * S
               z == (S - p) * (s * T - a * S)
    <3>1. y - x = z
      BY <1>1
    <3>2. z >= 0
      <4>1. S - p \in Nat /\ s * T - a * S \in Nat
        BY <1>1, <2>1
      <4> QED
        BY <4>1
    <3>3. x \in Int /\ y \in Int /\ z \in Int
      BY <1>1
    <3> HIDE DEF x, y, z
    <3>4. x <= y
      BY <3>1, <3>2, <3>3
    <3> QED
      BY <3>4 DEF x, y
  <2>6. mul_div_ceil(p, T, S) + a <= mul_div_ceil(p + s, T + a, S + s)
    <3>1. a \in Int
      OBVIOUS
    <3> QED
      BY <2>2, <2>5, <3>1, CeilingsApart
  <2>7. /\ mul_div_ceil(p, T, S) \in Nat
        /\ mul_div_ceil(p + s, T + a, S + s) \in Nat
    BY <2>2, CeilBounds
  <2> QED
    BY <1>1, <1>3, <2>2, <2>4, <2>6, <2>7 DEF debt_shares_to_assets_up, s
<1> QED
  BY <1>2, <1>3

\* A payment lowers what the payer owes by at most its amount, and does not
\* raise what anybody else owes.
LEMMA RepaymentCharges ==
  ASSUME NEW S \in Nat, NEW T \in Nat, S <= T, S = 0 => T = 0,
         NEW p \in Nat, p <= S, NEW received \in Nat, NEW burned \in Nat,
         NEW owed, owed = debt_shares_to_assets_up(p, S, T), owed > 0,
         burned = IF received >= owed THEN p ELSE mul_div_floor(received, S, T)
  PROVE  LET S2 == S - burned
             T2 == T - MinOf(received, owed)
         IN  /\ received < owed =>
                  debt_shares_to_assets_up(p - burned, S2, T2) + received >= owed
             /\ \A q \in Nat : q <= S =>
                  debt_shares_to_assets_up(q, S2, T2) <= debt_shares_to_assets_up(q, S, T)
<1>1. /\ owed \in Nat /\ owed <= T
      /\ S # 0 => owed * S >= p * T /\ owed * S < p * T + S
      /\ p = S /\ S # 0 => owed = T
  BY OwedBounds
<1>2. S \in Nat \ {0}
  BY <1>1 DEF debt_shares_to_assets_up
<1>3. owed = mul_div_ceil(p, T, S)
  BY <1>2 DEF debt_shares_to_assets_up
<1>4. CASE received >= owed
  <2>1. burned = p /\ MinOf(received, owed) = owed
    BY <1>1, <1>4 DEF MinOf
  <2>2. ASSUME NEW q \in Nat, q <= S
        PROVE  debt_shares_to_assets_up(q, S - p, T - owed) <= debt_shares_to_assets_up(q, S, T)
    <3>1. CASE S - p = 0
      <4>1. debt_shares_to_assets_up(q, S - p, T - owed) = 0
        BY <3>1 DEF debt_shares_to_assets_up
      <4>2. debt_shares_to_assets_up(q, S, T) \in Nat
        BY <2>2, OwedBounds
      <4> QED
        BY <4>1, <4>2
    <3>2. CASE S - p # 0
      <4>1. S - p \in Nat \ {0} /\ T - owed \in Nat
        BY <1>1, <3>2
      <4>2. (T - owed) * S <= T * (S - p)
        BY <1>1, <1>2
      <4> QED
        BY <1>2, <4>1, <4>2, CheaperShares
    <3> QED
      BY <3>1, <3>2
  <2> QED
    BY <1>1, <1>4, <2>1, <2>2
<1>5. CASE received < owed
  <2>1. burned = mul_div_floor(received, S, T) /\ MinOf(received, owed) = received
    BY <1>1, <1>5 DEF MinOf
  <2>2. burned < p /\ burned * T <= received * S
    <3> DEFINE b == mul_div_floor(received, S, T)
    <3>1. owed * S < p * T + S
      BY <1>1, <1>2
    <3>2. b < p /\ b * T <= received * S
      BY <1>1, <1>2, <1>5, <3>1, PartialRepayment
    <3> QED
      BY <2>1, <3>2
  <2>3. /\ S - burned \in Nat \ {0} /\ p - burned \in Nat /\ T - received \in Nat
        /\ p # 0
    BY <1>1, <1>5, <2>2
  <2>4. (T - received) * S <= T * (S - burned)
    BY <2>2
  <2>5. \A q \in Nat : debt_shares_to_assets_up(q, S - burned, T - received)
                         <= debt_shares_to_assets_up(q, S, T)
    BY <1>2, <2>3, <2>4, CheaperShares
  <2>6. (p * T + (-received) * S) * (S - burned) <= (p - burned) * (T - received) * S
    <3> DEFINE x == (p * T + (-received) * S) * (S - burned)
               y == (p - burned) * (T - received) * S
               z == (S - p) * (received * S - burned * T)
    <3>1. y - x = z
      OBVIOUS
    <3>2. z >= 0
      <4>1. S - p \in Nat /\ received * S - burned * T \in Nat
        BY <2>2
      <4> QED
        BY <4>1
    <3>3. x \in Int /\ y \in Int /\ z \in Int
      OBVIOUS
    <3> HIDE DEF x, y, z
    <3>4. x <= y
      BY <3>1, <3>2, <3>3
    <3> QED
      BY <3>4 DEF x, y
  <2>7. mul_div_ceil(p, T, S) + (-received) <= mul_div_ceil(p - burned, T - received, S - burned)
    <3>1. -received \in Int
      OBVIOUS
    <3> QED
      BY <1>2, <2>3, <2>6, <3>1, CeilingsApart
  <2>8. mul_div_ceil(p - burned, T - received, S - burned) \in Nat
    BY <2>3, CeilBounds
  <2>9. debt_shares_to_assets_up(p - burned, S - burned, T - received)
          = mul_div_ceil(p - burned, T - received, S - burned)
    BY <2>3 DEF debt_shares_to_assets_up
  <2>10. debt_shares_to_assets_up(p - burned, S - burned, T - received) + received >= owed
    BY <1>1, <1>3, <2>7, <2>8, <2>9
  <2> QED
    BY <2>1, <2>5, <2>10
<1> QED
  BY <1>1, <1>4, <1>5
\* A payment x that pays for the b shares it burns lowers what their owner owes
\* by at most x, even where b is not all of a position or x is more than a
\* position of b shares owes.
LEMMA PaymentCovers ==
  ASSUME NEW S \in Nat \ {0}, NEW T \in Nat, NEW p \in Nat, p <= S,
         NEW b \in Nat, b <= p, NEW x \in Nat, x <= T, b * T <= x * S
  PROVE  debt_shares_to_assets_up(p - b, S - b, T - x) + x >= debt_shares_to_assets_up(p, S, T)
<1>1. /\ debt_shares_to_assets_up(p, S, T) = mul_div_ceil(p, T, S)
      /\ mul_div_ceil(p, T, S) \in Nat
  BY CeilBounds DEF debt_shares_to_assets_up
<1>2. CASE b = S
  <2>1. p = S /\ T <= x
    <3>1. S * T <= x * S
      BY <1>2
    <3>2. T * S <= x * S
      BY <3>1
    <3> QED
      BY <1>2, <3>2, MulCancel
  <2>2. mul_div_ceil(S, T, S) <= T
    <3> DEFINE n == mul_div_ceil(S, T, S)
    <3>1. n \in Nat /\ n * S < S * T + S
      BY CeilBounds
    <3> HIDE DEF n
    <3>2. n * S < (T + 1) * S
      BY <3>1
    <3>3. n < T + 1
      BY <3>1, <3>2, MulCancelStrict
    <3> QED
      BY <3>1, <3>3 DEF n
  <2>3. S - b = 0
    BY <1>2
  <2>4. debt_shares_to_assets_up(p - b, S - b, T - x) = 0
    BY <2>3 DEF debt_shares_to_assets_up
  <2>5. mul_div_ceil(S, T, S) \in Nat
    BY CeilBounds
  <2> QED
    BY <1>1, <2>1, <2>2, <2>4, <2>5
<1>3. CASE b # S
  <2>1. S - b \in Nat \ {0} /\ p - b \in Nat /\ T - x \in Nat /\ -x \in Int
    BY <1>3
  <2>2. (p * T + (-x) * S) * (S - b) <= (p - b) * (T - x) * S
    <3> DEFINE u == (p * T + (-x) * S) * (S - b)
               v == (p - b) * (T - x) * S
               w == (S - p) * (x * S - b * T)
    <3>1. v - u = w
      OBVIOUS
    <3>2. w >= 0
      <4>1. S - p \in Nat /\ x * S - b * T \in Nat
        OBVIOUS
      <4> QED
        BY <4>1
    <3>3. u \in Int /\ v \in Int /\ w \in Int
      OBVIOUS
    <3> HIDE DEF u, v, w
    <3>4. u <= v
      BY <3>1, <3>2, <3>3
    <3> QED
      BY <3>4 DEF u, v
  <2>3. mul_div_ceil(p, T, S) + (-x) <= mul_div_ceil(p - b, T - x, S - b)
    BY <2>1, <2>2, CeilingsApart
  <2>4. mul_div_ceil(p - b, T - x, S - b) \in Nat
    BY <2>1, CeilBounds
  <2>5. debt_shares_to_assets_up(p - b, S - b, T - x) = mul_div_ceil(p - b, T - x, S - b)
    BY <2>1 DEF debt_shares_to_assets_up
  <2> QED
    BY <1>1, <2>3, <2>4, <2>5
<1> QED
  BY <1>2, <1>3
\* So does any payment against k of a position's p shares: what the owner owes
\* falls by no more than the reserve received.
LEMMA PartPaymentCovers ==
  ASSUME NEW r \in ReserveRecords, NEW p \in Nat, NEW k \in Nat, NEW received \in Nat,
         r.total_borrow_shares <= r.total_borrow_assets,
         r.total_borrow_shares = 0 => r.total_borrow_assets = 0,
         p <= r.total_borrow_shares, k <= p,
         NEW due, due = debt_shares_to_assets_up(k, r.total_borrow_shares, r.total_borrow_assets),
         due > 0
  PROVE  LET burned == DebtSharesBurned(r, k, due, received)
             after  == AfterRepay(r, due, received, burned)
         IN  debt_shares_to_assets_up(p - burned, after.total_borrow_shares, after.total_borrow_assets)
               + received
               >= debt_shares_to_assets_up(p, r.total_borrow_shares, r.total_borrow_assets)
<1> DEFINE S      == r.total_borrow_shares
           T      == r.total_borrow_assets
           burned == DebtSharesBurned(r, k, due, received)
           after  == AfterRepay(r, due, received, burned)
           x      == MinOf(received, due)
<1>1. S \in Nat /\ T \in Nat /\ S <= T /\ k <= S /\ (S = 0 => T = 0)
  BY DEF ReserveRecords, U64
<1>2. /\ due \in Nat /\ due <= T
      /\ S # 0 => due * S >= k * T /\ due * S < k * T + S
  BY <1>1, OwedBounds
<1>3. S # 0
  BY <1>1, <1>2
<1>4. /\ burned \in 0..k
      /\ received >= due => burned = k
      /\ after.total_borrow_assets = T - x
      /\ after.total_borrow_shares = S - burned
  <2> HIDE DEF x
  <2> QED
    BY <1>1, RepaymentEffect DEF x
<1>5. x \in Nat /\ x <= T /\ x <= received
  BY <1>1, <1>2 DEF MinOf
<1>6. burned * T <= x * S
  <2>1. CASE received >= due
    <3>1. burned = k /\ x = due
      BY <1>2, <1>4, <2>1 DEF MinOf
    <3> HIDE DEF burned, x
    <3> QED
      BY <1>2, <1>3, <3>1
  <2>2. CASE received < due
    <3> DEFINE b == mul_div_floor(received, S, T)
    <3>1. b \in Nat /\ b < k /\ b * T <= received * S
      BY <1>1, <1>2, <1>3, <2>2, PartialRepayment
    <3>2. burned = MinOf(b, k) /\ x = received
      BY <1>2, <2>2 DEF DebtSharesBurned, MinOf
    <3> HIDE DEF b, burned, x
    <3>3. burned = b
      BY <3>1, <3>2 DEF MinOf
    <3> QED
      BY <3>1, <3>2, <3>3
  <2> QED
    BY <1>2, <2>1, <2>2
<1> HIDE DEF S, T, burned, after, x
<1>7. burned \in Nat /\ burned <= p /\ S \in Nat \ {0} /\ p <= S
  BY <1>1, <1>3, <1>4 DEF S
<1>8. debt_shares_to_assets_up(p - burned, S - burned, T - x) + x >= debt_shares_to_assets_up(p, S, T)
  BY <1>1, <1>5, <1>6, <1>7, PaymentCovers
<1>9. /\ debt_shares_to_assets_up(p, S, T) \in Nat
      /\ debt_shares_to_assets_up(p - burned, S - burned, T - x) \in Nat
  <2>1. p - burned \in Nat /\ S - burned \in Nat /\ T - x \in Nat
    BY <1>1, <1>5, <1>7
  <2> QED
    BY <1>1, <1>7, <2>1, CeilBounds DEF debt_shares_to_assets_up
<1> DEFINE u == debt_shares_to_assets_up(p - burned, S - burned, T - x)
           v == debt_shares_to_assets_up(p, S, T)
<1>10. u \in Nat /\ v \in Nat /\ u + x >= v
  BY <1>8, <1>9
<1> HIDE DEF u, v
<1>11. u + received >= v
  BY <1>5, <1>10
<1> QED
  BY <1>4, <1>11 DEF u, v, S, T, burned, after
-----------------------------------------------------------------------------
(* Sums of rounded terms.  A claim about every term of a sum carries over   *)
(* to the sum without induction: the units of one sum, each cut in T        *)
(* pieces, are mapped one-to-one to the units of the other, each cut in S.  *)

\* The place n of a piece in a row of groups of S determines, and is
\* determined by, its group and its place in the group.
LEMMA GroupOfPiece ==
  ASSUME NEW S \in Nat \ {0}, NEW n \in Nat
  PROVE  /\ n \div S \in Nat
         /\ n % S \in 0..(S - 1)
         /\ n = (n \div S) * S + (n % S)
  OBVIOUS

\* Two pieces in the same place of a row are in the same group and place of it.
LEMMA GroupsTellApart ==
  ASSUME NEW T \in Nat, NEW i \in Nat, NEW k \in Nat, NEW j \in 0..(T - 1), NEW l \in 0..(T - 1),
         i * T + j = k * T + l
  PROVE  i = k /\ j = l
<1>1. ASSUME NEW a \in Nat, NEW b \in Nat, NEW c \in 0..(T - 1), NEW d \in 0..(T - 1),
             a * T + c = b * T + d
      PROVE  a <= b
  <2>1. a * T < (b + 1) * T
    <3>1. (b + 1) * T = b * T + T
      OBVIOUS
    <3> DEFINE x == a * T
               y == b * T
               z == (b + 1) * T
    <3>2. x \in Int /\ y \in Int /\ z \in Int /\ z = y + T /\ x + c = y + d
      BY <1>1, <3>1
    <3> HIDE DEF x, y, z
    <3>3. x < z
      BY <3>2
    <3> QED
      BY <3>3 DEF x, z
  <2>2. b + 1 \in Nat
    OBVIOUS
  <2>3. a < b + 1
    BY <2>1, <2>2, MulCancelStrict
  <2> QED
    BY <2>3
<1>2. i <= k /\ k <= i
  BY <1>1
<1>3. i = k
  BY <1>2
<1>4. j = l
  <2> DEFINE x == i * T
             y == k * T
  <2>1. x = y /\ x \in Int /\ x + j = y + l
    BY <1>3
  <2> HIDE DEF x, y
  <2> QED
    BY <2>1
<1> QED
  BY <1>3, <1>4

\* If every term of one sum, S times, is at least the term of another, T
\* times, then so are the sums.
LEMMA TotalsOrdered ==
  ASSUME NEW D, IsFiniteSet(D), NEW p \in [D -> Nat], NEW o \in [D -> Nat],
         NEW S \in Nat \ {0}, NEW T \in Nat,
         \A x \in D : o[x] * S >= p[x] * T
  PROVE  /\ TotalOf(p) \in Nat /\ TotalOf(o) \in Nat
         /\ TotalOf(p) * T <= TotalOf(o) * S
<1> DEFINE U == UNION {UnitsOf(p, x) : x \in D}
           V == UNION {UnitsOf(o, x) : x \in D}
           Place(z) == (z[1][2] - 1) * T + (z[2] - 1)
           h == [z \in U \X (1..T) |-> <<<<z[1][1], Place(z) \div S + 1>>, (Place(z) % S) + 1>>]
<1>1. IsFiniteSet(U) /\ IsFiniteSet(V)
  BY UnitsFinite
<1>2. TotalOf(p) = Cardinality(U) /\ TotalOf(o) = Cardinality(V)
  BY DEF TotalOf
<1>3. Cardinality(U) \in Nat /\ Cardinality(V) \in Nat
  BY <1>1, FS_CardinalityType
<1>4. /\ IsFiniteSet(1..T) /\ Cardinality(1..T) = T
      /\ IsFiniteSet(1..S) /\ Cardinality(1..S) = S
  <2>1. 1 \in Int /\ T \in Int /\ S \in Int
    OBVIOUS
  <2>2. /\ IsFiniteSet(1..T) /\ Cardinality(1..T) = IF 1 > T THEN 0 ELSE T - 1 + 1
        /\ IsFiniteSet(1..S) /\ Cardinality(1..S) = IF 1 > S THEN 0 ELSE S - 1 + 1
    BY <2>1, FS_Interval
  <2> QED
    BY <2>2
<1>5. ASSUME NEW z \in U \X (1..T)
      PROVE  /\ z = <<<<z[1][1], z[1][2]>>, z[2]>>
             /\ z[1][1] \in D
             /\ z[1][2] \in 1..p[z[1][1]]
             /\ z[2] \in 1..T
  <2>1. z[1] \in U /\ z[2] \in 1..T /\ z = <<z[1], z[2]>>
    OBVIOUS
  <2>2. PICK x \in D : z[1] \in UnitsOf(p, x)
    BY <2>1
  <2> QED
    BY <2>1, <2>2 DEF UnitsOf
<1>6. ASSUME NEW z \in U \X (1..T)
      PROVE  /\ Place(z) \in Nat
             /\ Place(z) < o[z[1][1]] * S
  <2> DEFINE x == z[1][1]
             i == z[1][2]
             j == z[2]
  <2>1. x \in D /\ i \in 1..p[x] /\ j \in 1..T
    BY <1>5
  <2>2. p[x] \in Nat /\ o[x] \in Nat /\ o[x] * S >= p[x] * T
    BY <2>1
  <2> HIDE DEF x, i, j
  <2>3. i \in Nat /\ i - 1 \in Nat /\ i <= p[x] /\ j - 1 \in 0..(T - 1)
    BY <2>1, <2>2
  <2>4. (i - 1) * T \in Nat /\ (i - 1) * T + T <= p[x] * T
    <3>1. i * T <= p[x] * T
      BY <2>2, <2>3, MulMonotone
    <3> DEFINE a == i * T
    <3>2. i - 1 \in Nat /\ (i - 1) * T \in Nat /\ (i - 1) * T + T = a
      BY <2>3
    <3> HIDE DEF a
    <3> QED
      BY <3>1, <3>2 DEF a
  <2> DEFINE a == (i - 1) * T
             b == p[x] * T
             c == o[x] * S
  <2>5. a \in Nat /\ b \in Int /\ c \in Int /\ a + T <= b /\ b <= c
    BY <2>2, <2>4
  <2> HIDE DEF a, b, c
  <2>6. a + (j - 1) \in Nat /\ a + (j - 1) < c
    BY <2>3, <2>5
  <2> QED
    BY <2>6 DEF a, c, x, i, j
<1> DEFINE A == U \X (1..T)
           B == V \X (1..S)
<1>7. ASSUME NEW z \in A
      PROVE  h[z] \in B
  <2> DEFINE x == z[1][1]
             n == Place(z)
  <2>1. x \in D /\ n \in Nat /\ n < o[x] * S
    BY <1>5, <1>6
  <2>2. o[x] \in Nat
    BY <2>1
  <2>3. h[z] = <<<<x, n \div S + 1>>, (n % S) + 1>>
    OBVIOUS
  <2> HIDE DEF x, n, h
  <2>4. /\ n \div S \in Nat
        /\ n % S \in 0..(S - 1)
        /\ (n \div S) * S <= n
    <3>1. n \div S \in Nat /\ n % S \in 0..(S - 1) /\ n = (n \div S) * S + (n % S)
      BY <2>1, GroupOfPiece
    <3> DEFINE q == n \div S
               k == n % S
               y == q * S
    <3>2. q \in Nat /\ k \in 0..(S - 1) /\ y \in Int /\ n = y + k
      BY <3>1
    <3> HIDE DEF q, k, y
    <3>3. y <= n
      BY <3>2
    <3> QED
      BY <3>1, <3>3 DEF y, q
  <2>5. n \div S < o[x]
    <3> DEFINE q == n \div S
    <3>1. q \in Nat /\ q * S <= n
      BY <2>4
    <3> HIDE DEF q
    <3>2. q * S < o[x] * S
      BY <2>1, <2>2, <3>1
    <3>3. q < o[x]
      BY <2>2, <3>1, <3>2, MulCancelStrict
    <3> QED
      BY <3>3 DEF q
  <2>6. n \div S + 1 \in 1..o[x] /\ (n % S) + 1 \in 1..S
    BY <2>2, <2>4, <2>5
  <2>7. <<x, n \div S + 1>> \in V
    BY <2>1, <2>6 DEF UnitsOf
  <2> QED
    BY <2>3, <2>6, <2>7
<1>8. ASSUME NEW z \in A, NEW w \in A, h[z] = h[w]
      PROVE  z = w
  <2> DEFINE n == Place(z)
             k == Place(w)
  <2>1. n \in Nat /\ k \in Nat
    BY <1>6
  <2>2. /\ h[z] = <<<<z[1][1], n \div S + 1>>, (n % S) + 1>>
        /\ h[w] = <<<<w[1][1], k \div S + 1>>, (k % S) + 1>>
    OBVIOUS
  <2> HIDE DEF h
  <2>3. /\ z[1][1] = w[1][1]
        /\ n \div S + 1 = k \div S + 1
        /\ (n % S) + 1 = (k % S) + 1
    <3> HIDE DEF n, k
    <3>1. <<<<z[1][1], n \div S + 1>>, (n % S) + 1>> = <<<<w[1][1], k \div S + 1>>, (k % S) + 1>>
      BY <1>8, <2>2
    <3> QED
      BY <3>1
  <2>4. n = k
    <3> HIDE DEF n, k
    <3>1. /\ n \div S \in Nat /\ n % S \in 0..(S - 1) /\ n = (n \div S) * S + (n % S)
          /\ k \div S \in Nat /\ k % S \in 0..(S - 1) /\ k = (k \div S) * S + (k % S)
      BY <2>1, GroupOfPiece
    <3> DEFINE nq == n \div S
               nr == n % S
               kq == k \div S
               kr == k % S
    <3>2. /\ nq \in Nat /\ nr \in Int /\ kq \in Nat /\ kr \in Int
          /\ n = nq * S + nr /\ k = kq * S + kr
          /\ nq + 1 = kq + 1 /\ nr + 1 = kr + 1
      BY <2>3, <3>1
    <3> HIDE DEF nq, nr, kq, kr
    <3>3. nq = kq /\ nr = kr
      BY <3>2
    <3> QED
      BY <3>2, <3>3
  <2>5. /\ z = <<<<z[1][1], z[1][2]>>, z[2]>> /\ z[2] \in 1..T
        /\ w = <<<<w[1][1], w[1][2]>>, w[2]>> /\ w[2] \in 1..T
        /\ z[1][2] - 1 \in Nat /\ w[1][2] - 1 \in Nat
    <3>1. /\ z[1][2] \in 1..p[z[1][1]] /\ p[z[1][1]] \in Nat
          /\ w[1][2] \in 1..p[w[1][1]] /\ p[w[1][1]] \in Nat
      BY <1>5
    <3> QED
      BY <1>5, <3>1
  <2>6. z[1][2] - 1 = w[1][2] - 1 /\ z[2] - 1 = w[2] - 1
    <3>1. z[2] - 1 \in 0..(T - 1) /\ w[2] - 1 \in 0..(T - 1)
      BY <2>5
    <3> QED
      BY <2>4, <2>5, <3>1, GroupsTellApart
  <2>7. z[1][2] = w[1][2] /\ z[2] = w[2]
    <3>1. z[1][2] \in Int /\ w[1][2] \in Int
      <4>1. /\ z[1][2] \in 1..p[z[1][1]] /\ p[z[1][1]] \in Nat
            /\ w[1][2] \in 1..p[w[1][1]] /\ p[w[1][1]] \in Nat
        BY <1>5
      <4> QED
        BY <4>1
    <3> QED
      BY <2>5, <2>6, <3>1
  <2> QED
    BY <2>3, <2>5, <2>7
<1>9. h \in Injection(A, B)
  <2>1. h \in [A -> B]
    BY <1>7
  <2> HIDE DEF h, A, B
  <2> QED
    BY <2>1, <1>8 DEF Injection, IsInjective
<1>10. /\ IsFiniteSet(A) /\ Cardinality(A) = Cardinality(U) * T
       /\ IsFiniteSet(B) /\ Cardinality(B) = Cardinality(V) * S
  <2> HIDE DEF U, V
  <2>1. /\ IsFiniteSet(A) /\ Cardinality(A) = Cardinality(U) * Cardinality(1..T)
        /\ IsFiniteSet(B) /\ Cardinality(B) = Cardinality(V) * Cardinality(1..S)
    BY <1>1, <1>4, FS_Product
  <2> QED
    BY <1>4, <2>1
<1>11. Cardinality(A) <= Cardinality(B)
  BY <1>9, <1>10, FS_Injection
<1> HIDE DEF A, B, U, V
<1> QED
  BY <1>2, <1>3, <1>10, <1>11
\* What all positions owe, each rounded up, covers the whole debt.
LEMMA DebtsCoverTotal ==
  ASSUME NEW D, IsFiniteSet(D), NEW p \in [D -> Nat], NEW S \in Nat, NEW T \in Nat,
         TotalOf(p) = S, S <= T, S = 0 => T = 0
  PROVE  TotalOf([x \in D |-> debt_shares_to_assets_up(p[x], S, T)]) >= T
<1> DEFINE o == [x \in D |-> debt_shares_to_assets_up(p[x], S, T)]
<1>1. ASSUME NEW x \in D
      PROVE  /\ o[x] \in Nat
             /\ S # 0 => o[x] * S >= p[x] * T
  <2>1. p[x] \in Nat /\ p[x] <= TotalOf(p)
    <3>1. p[x] \in Nat
      OBVIOUS
    <3> QED
      BY <3>1, TotalOfExcept
  <2> DEFINE q == p[x]
  <2>2. q \in Nat /\ q <= S
    BY <2>1
  <2>3. o[x] = debt_shares_to_assets_up(q, S, T)
    OBVIOUS
  <2> HIDE DEF o, q
  <2>4. /\ debt_shares_to_assets_up(q, S, T) \in Nat
        /\ S # 0 => debt_shares_to_assets_up(q, S, T) * S >= q * T
    BY <2>2, OwedBounds
  <2>5. S # 0 => o[x] * S >= q * T
    BY <2>3, <2>4
  <2> QED
    BY <2>3, <2>4, <2>5 DEF q
<1>2. o \in [D -> Nat]
  BY <1>1
<1> HIDE DEF o
<1>3. CASE S = 0
  <2>1. TotalOf(o) \in Nat
    <3>1. ASSUME NEW x \in D PROVE o[x] * 1 >= p[x] * 0
      <4>1. o[x] \in Nat /\ p[x] \in Nat
        BY <1>2
      <4> QED
        BY <4>1
    <3>2. 1 \in Nat \ {0} /\ 0 \in Nat
      OBVIOUS
    <3> QED
      BY <1>2, <3>1, <3>2, TotalsOrdered
  <2> QED
    BY <1>3, <2>1 DEF o
<1>4. CASE S # 0
  <2>1. TotalOf(o) \in Nat /\ TotalOf(p) * T <= TotalOf(o) * S
    BY <1>1, <1>2, <1>4, TotalsOrdered
  <2> DEFINE t == TotalOf(o)
  <2>2. t \in Nat /\ S * T <= t * S
    BY <2>1
  <2> HIDE DEF t
  <2>3. T * S <= t * S
    BY <2>2
  <2>4. T <= t
    BY <1>4, <2>2, <2>3, MulCancel
  <2> QED
    BY <2>2, <2>4 DEF t, o
<1> QED
  BY <1>3, <1>4
-----------------------------------------------------------------------------
(* What is lost when an amount is cut in two before it is rounded *)

\* Rounding down keeps the order.
LEMMA FloorMonotone ==
  ASSUME NEW a \in Nat, NEW b \in Nat, NEW p \in Nat, NEW s \in Nat \ {0}, a <= b
  PROVE  mul_div_floor(a, p, s) <= mul_div_floor(b, p, s)
<1>1. PICK f \in Nat : f = mul_div_floor(a, p, s) /\ f * s <= a * p
  BY FloorBounds
<1>2. PICK g \in Nat : g = mul_div_floor(b, p, s) /\ b * p < g * s + s
  BY FloorBounds
<1>3. a * p <= b * p
  BY MulMonotone
<1>4. f * s < (g + 1) * s
  BY <1>1, <1>2, <1>3
<1>5. f < g + 1
  BY <1>4, MulCancelStrict
<1> QED
  BY <1>1, <1>2, <1>5

\* Two parts rounded down are worth at most the whole, and one less at the worst.
LEMMA FloorOfParts ==
  ASSUME NEW a \in Nat, NEW b \in Nat, NEW p \in Nat, NEW s \in Nat \ {0}
  PROVE  /\ mul_div_floor(a, p, s) + mul_div_floor(b, p, s) <= mul_div_floor(a + b, p, s)
         /\ mul_div_floor(a + b, p, s) <= mul_div_floor(a, p, s) + mul_div_floor(b, p, s) + 1
<1>1. PICK f \in Nat : f = mul_div_floor(a, p, s) /\ f * s <= a * p /\ a * p < f * s + s
  BY FloorBounds
<1>2. PICK g \in Nat : g = mul_div_floor(b, p, s) /\ g * s <= b * p /\ b * p < g * s + s
  BY FloorBounds
<1>3. PICK c \in Nat : c = a + b
  OBVIOUS
<1>4. PICK h \in Nat : h = mul_div_floor(c, p, s) /\ h * s <= c * p /\ c * p < h * s + s
  BY FloorBounds
<1>5. c * p = a * p + b * p
  BY <1>3
<1>6. (f + g) * s = f * s + g * s /\ (h + 1) * s = h * s + s /\ (f + g + 2) * s = f * s + g * s + s + s
  OBVIOUS
<1>7. (f + g) * s < (h + 1) * s /\ h * s < (f + g + 2) * s
  <2>1. PICK i, j, k \in Nat : i = f * s /\ j = g * s /\ k = h * s
    OBVIOUS
  <2>2. PICK u, v, w \in Nat : u = a * p /\ v = b * p /\ w = c * p
    OBVIOUS
  <2>3. i <= u /\ u < i + s /\ j <= v /\ v < j + s /\ k <= w /\ w < k + s /\ w = u + v
    BY <1>1, <1>2, <1>4, <1>5, <2>1, <2>2
  <2>4. i + j < k + s /\ k < i + j + s + s
    BY <2>3
  <2> QED
    BY <1>6, <2>1, <2>4
<1>8. f + g < h + 1
  BY <1>7, MulCancelStrict
<1>9. h < f + g + 2
  BY <1>7, MulCancelStrict
<1> QED
  BY <1>1, <1>2, <1>3, <1>4, <1>8, <1>9

\* One part rounded down and the other up are worth at least the whole.
LEMMA FloorBelowCeil ==
  ASSUME NEW a \in Nat, NEW b \in Nat, NEW p \in Nat, NEW s \in Nat \ {0}
  PROVE  mul_div_floor(a + b, p, s) <= mul_div_floor(a, p, s) + mul_div_ceil(b, p, s)
<1>1. PICK f \in Nat : f = mul_div_floor(a, p, s) /\ a * p < f * s + s
  BY FloorBounds
<1>2. PICK g \in Nat : g = mul_div_ceil(b, p, s) /\ g * s >= b * p
  BY CeilBounds
<1>3. PICK c \in Nat : c = a + b
  OBVIOUS
<1>4. PICK h \in Nat : h = mul_div_floor(c, p, s) /\ h * s <= c * p
  BY FloorBounds
<1>5. c * p = a * p + b * p
  BY <1>3
<1>6. (f + g + 1) * s = f * s + g * s + s
  OBVIOUS
<1>7. h * s < (f + g + 1) * s
  BY <1>1, <1>2, <1>4, <1>5, <1>6
<1>8. h < f + g + 1
  BY <1>7, MulCancelStrict
<1> QED
  BY <1>1, <1>2, <1>3, <1>4, <1>8

\* What x buys at a rate of R in d, sold again, misses x by less than one unit
\* bought is sold for, rounded up.
LEMMA BoughtAndSold ==
  ASSUME NEW x \in Nat, NEW R \in Nat \ {0}, NEW d \in Nat \ {0}
  PROVE  x <= mul_div_floor(mul_div_floor(x, d, R), R, d) + mul_div_floor(1, R, d) + 1
<1>1. PICK b \in Nat : b = mul_div_floor(x, d, R) /\ x * d < b * R + R
  BY FloorBounds
<1>2. PICK q \in Nat : q = mul_div_floor(b, R, d) /\ b * R < q * d + d
  BY FloorBounds
<1>3. PICK t \in Nat : t = mul_div_floor(1, R, d) /\ 1 * R < t * d + d
  BY FloorBounds
<1>4. (q + t + 2) * d = q * d + d + t * d + d
  OBVIOUS
<1>5. b * R \in Nat /\ q * d \in Nat /\ t * d \in Nat /\ x * d \in Nat
  OBVIOUS
<1>6. x * d < (q + t + 2) * d
  BY <1>1, <1>2, <1>3, <1>4, <1>5
<1>7. x < q + t + 2
  BY <1>6, MulCancelStrict
<1> QED
  BY <1>1, <1>2, <1>3, <1>7
=============================================================================
