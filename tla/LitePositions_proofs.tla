------------------------- MODULE LitePositions_proofs -------------------------
(***************************************************************************)
(* Lite positions for all accounts, assets, exchange rates and orders of   *)
(* instructions: their registry, the redemptions that wait in them, the    *)
(* receipts behind them; the pools, slots and scans of the accounts that   *)
(* hold them; and the health checks that count them.                       *)
(***************************************************************************)
EXTENDS LitePositions, CrossMarginHealth_proofs

LiteFields == {"asset", "receipts", "deposited", "equity", "shares", "word", "pending"}

\* As much of a position's type as the proofs need.
PositionOK(position) ==
  /\ DOMAIN position = LiteFields /\ position = [x \in LiteFields |-> position[x]]
  /\ position.asset \in Assets
  /\ position.receipts \in Nat /\ position.word \in Int

\* Positions and registry are kept for each account.
LiteShape ==
  /\ DOMAIN lite = Margins
  /\ liteIndexes \in [Margins -> SUBSET Assets]
  /\ rate \in [Assets -> Rates]
  /\ \A m \in Margins : /\ DOMAIN lite[m] \subseteq Places
                        /\ \A p \in DOMAIN lite[m] : PositionOK(lite[m][p])

\* What the Lite instructions keep: a scan finds every position there is.
LiteInv == LiteShape /\ LiteRegistered

\* There are no positions to begin with.
LEMMA InitRegistered == Init => LiteInv
BY DEF Init, LiteInv, LiteShape, LiteRegistered

\* What an instruction that stores a position does with positions and registry.
StoresAt(m, p, position) ==
  /\ lite' = Stored(m, p, position)
  /\ UNCHANGED rate
  /\ \/ liteIndexes' = Registered(m, p)
     \/ p \in DOMAIN lite[m] /\ UNCHANGED liteIndexes

\* What one that closes a position does.
ClosesAt(m, p) ==
  /\ p \in DOMAIN lite[m]
  /\ lite' = [lite EXCEPT ![m] = Restrict(@, DOMAIN @ \ {p})]
  /\ liteIndexes' = [liteIndexes EXCEPT ![m] = @ \ {p}]
  /\ UNCHANGED rate

\* A position of the right shape, stored with its index, keeps the invariant.
LEMMA StoreKeeps ==
  ASSUME LiteInv, NEW m \in Margins, NEW p \in Places, NEW position, PositionOK(position),
         StoresAt(m, p, position)
  PROVE  LiteInv'
<1>1. lite' = [lite EXCEPT ![m] = [q \in DOMAIN @ \cup {p} |-> IF q = p THEN position ELSE @[q]]]
  BY DEF StoresAt, Stored
<1>2. DOMAIN lite = Margins /\ liteIndexes \in [Margins -> SUBSET Assets]
  BY DEF LiteInv, LiteShape
<1>3. DOMAIN lite' = Margins
  BY <1>1, <1>2
<1>4. \A n \in Margins \ {m} : lite'[n] = lite[n]
  BY <1>1, <1>2
<1>5. lite'[m] = [q \in DOMAIN lite[m] \cup {p} |-> IF q = p THEN position ELSE lite[m][q]]
  BY <1>1, <1>2
<1>6. LiteRegistered
  BY DEF LiteInv
<1>7. liteIndexes' \in [Margins -> SUBSET Assets]
  BY <1>2 DEF StoresAt, Registered, Places
<1>8. LiteRegistered'
  <2> SUFFICES ASSUME NEW n \in Margins PROVE liteIndexes'[n] = DOMAIN lite'[n] \ {Legacy}
    BY DEF LiteRegistered
  <2>1. CASE n # m
    BY <2>1, <1>2, <1>4, <1>6 DEF StoresAt, Registered, LiteRegistered
  <2>2. CASE n = m
    <3>1. liteIndexes[m] = DOMAIN lite[m] \ {Legacy}
      BY <1>6 DEF LiteRegistered
    <3>2. liteIndexes'[m] = liteIndexes[m] \cup ({p} \ {Legacy})
      BY <3>1, <1>2 DEF StoresAt, Registered
    <3> QED BY <3>1, <3>2, <2>2, <1>5
  <2> QED BY <2>1, <2>2
<1>9. \A n \in Margins : /\ DOMAIN lite'[n] \subseteq Places
                         /\ \A q \in DOMAIN lite'[n] : PositionOK(lite'[n][q])
  BY <1>4, <1>5 DEF LiteInv, LiteShape
<1> QED BY <1>3, <1>7, <1>8, <1>9 DEF LiteInv, LiteShape, StoresAt, PositionOK

\* So does closing one together with its index.
LEMMA CloseKeeps ==
  ASSUME LiteInv, NEW m \in Margins, NEW p, ClosesAt(m, p)
  PROVE  LiteInv'
<1>2. DOMAIN lite = Margins /\ liteIndexes \in [Margins -> SUBSET Assets]
  BY DEF LiteInv, LiteShape
<1>3. DOMAIN lite' = Margins /\ \A n \in Margins \ {m} : lite'[n] = lite[n]
  BY <1>2 DEF ClosesAt
<1>5. lite'[m] = [q \in DOMAIN lite[m] \ {p} |-> lite[m][q]]
  BY <1>2 DEF ClosesAt, Restrict
<1>7. /\ liteIndexes' \in [Margins -> SUBSET Assets]
      /\ \A n \in Margins : liteIndexes'[n] = IF n = m THEN liteIndexes[m] \ {p} ELSE liteIndexes[n]
  BY <1>2 DEF ClosesAt
<1>8. LiteRegistered'
  BY <1>3, <1>5, <1>7 DEF LiteInv, LiteRegistered
<1>9. \A n \in Margins : /\ DOMAIN lite'[n] \subseteq Places
                         /\ \A q \in DOMAIN lite'[n] : PositionOK(lite'[n][q])
  BY <1>3, <1>5 DEF LiteInv, LiteShape
<1> QED BY <1>3, <1>7, <1>8, <1>9 DEF LiteInv, LiteShape, ClosesAt, PositionOK

-----------------------------------------------------------------------------
(* Each instruction stores or closes one position *)

\* What an instruction finds at an address, or puts there first, has the shape.
LEMMA HeldOK ==
  ASSUME LiteInv, NEW m \in Margins, NEW p, NEW a \in Strategies
  PROVE  PositionOK(PositionAt(m, p, a))
<1>1. a \in Assets
  BY LiteAssumption
<1>2. PositionOK(NewPosition(a))
  BY <1>1 DEF PositionOK, NewPosition, LiteFields
<1> QED BY <1>2 DEF PositionAt, LiteInv, LiteShape

\* A whole record has the shape.
LEMMA RecordOK ==
  ASSUME NEW position \in LiteRecords PROVE PositionOK(position)
BY DEF LiteRecords, PositionOK, LiteFields, U64

\* lite_open stores a whole record.
LEMMA OpenStores ==
  ASSUME NEW m, NEW p, NEW a, NEW e, NEW x, lite_open(m, p, a, e, x)
  PROVE  LET position == OpenedPosition(PositionAt(m, p, a), debtShares[m][a], e, BorrowedFor(e, x),
                           Minted(e + BorrowedFor(e, x), a),
                           Loan(m, a, BorrowedFor(e, x)).position - debtShares[m][a])
         IN  StoresAt(m, p, position) /\ position \in LiteRecords
BY DEF lite_open, StoresAt

\* lite_supply stores a whole record.
LEMMA SupplyStores ==
  ASSUME NEW m, NEW p, NEW a, NEW x, NEW d, lite_supply(m, p, a, x, d)
  PROVE  LET position == SuppliedPosition(PositionAt(m, p, a), debtShares[m][a], x, Minted(x, a), d)
         IN  StoresAt(m, p, position) /\ position \in LiteRecords
BY DEF lite_supply, StoresAt

\* An exit stores a position or closes it.
LEMMA ExitStores ==
  ASSUME NEW m, NEW p, NEW position, NEW bps, p \in DOMAIN lite[m], UNCHANGED rate,
         StoredOrClosed(m, p, position, bps)
  PROVE  StoresAt(m, p, position) \/ ClosesAt(m, p)
BY DEF StoredOrClosed, StoresAt, ClosesAt

\* What an exit burns is part of what the position holds.
LEMMA ReducedOK ==
  ASSUME NEW position, PositionOK(position), position.receipts > 0, NEW bps \in Exits
  PROVE  LET burned == mul_div_floor(position.receipts, bps, BasisPoints)
         IN  /\ PositionOK(Reduced(position, burned))
             /\ burned \in 0..position.receipts
             /\ Reduced(position, burned).receipts = position.receipts - burned
             /\ Reduced(position, burned).asset = position.asset
             /\ Reduced(position, burned).word = position.word
             /\ Reduced(position, burned).pending = position.pending
<1> DEFINE burned == mul_div_floor(position.receipts, bps, BasisPoints)
<1>1. BasisPoints \in Nat \ {0} /\ bps \in Nat /\ bps <= BasisPoints
  BY LiteAssumption, ReserveMathAssumption
<1>2. burned \in Nat /\ burned <= position.receipts
  BY <1>1, FloorBounds, FloorShrinks DEF PositionOK
<1> HIDE DEF burned
<1>3. position.receipts - burned \in Nat
  BY <1>2 DEF PositionOK
<1>4. /\ DOMAIN Reduced(position, burned) = LiteFields
      /\ Reduced(position, burned) = [x \in LiteFields |-> Reduced(position, burned)[x]]
      /\ Reduced(position, burned).receipts = position.receipts - burned
      /\ Reduced(position, burned).asset = position.asset
      /\ Reduced(position, burned).word = position.word
      /\ Reduced(position, burned).pending = position.pending
  BY DEF Reduced, PositionOK, LiteFields
<1>5. PositionOK(Reduced(position, burned))
  BY <1>3, <1>4 DEF PositionOK
<1> QED BY <1>2, <1>4, <1>5 DEF burned

\* The redeemed amount is written over whatever the bytes held.
RedeemedPosition(m, p, bps) ==
  LET burned == mul_div_floor(lite[m][p].receipts, bps, BasisPoints)
  IN  [Reduced(lite[m][p], burned) EXCEPT
         !.word = receipt_value(burned, lite[m][p].asset), !.pending = TRUE]

\* lite_reduce_redeem stores a reduced position where none was waiting.
LEMMA RedeemStores ==
  ASSUME LiteInv, NEW m \in Margins, NEW p, NEW bps \in Exits, lite_reduce_redeem(m, p, bps)
  PROVE  /\ StoresAt(m, p, RedeemedPosition(m, p, bps))
         /\ PositionOK(RedeemedPosition(m, p, bps))
         /\ p \in DOMAIN lite[m] /\ ~lite[m][p].pending
<1> DEFINE burned == mul_div_floor(lite[m][p].receipts, bps, BasisPoints)
<1>1. p \in DOMAIN lite[m] /\ ~lite[m][p].pending /\ lite[m][p].receipts > 0
  BY DEF lite_reduce_redeem
<1>2. PositionOK(lite[m][p]) /\ rate \in [Assets -> Rates]
  BY <1>1 DEF LiteInv, LiteShape
<1>3. PositionOK(Reduced(lite[m][p], burned)) /\ burned \in Nat
  BY <1>1, <1>2, ReducedOK
<1>4. rate[lite[m][p].asset] \in Nat
  BY <1>2, CrossMarginAssumption DEF PositionOK
<1>5. receipt_value(burned, lite[m][p].asset) \in Int
  BY <1>3, <1>4 DEF receipt_value, mul_div_floor
<1>6. PositionOK(RedeemedPosition(m, p, bps))
  BY <1>3, <1>5 DEF RedeemedPosition, PositionOK, LiteFields
<1>7. StoresAt(m, p, RedeemedPosition(m, p, bps))
  BY <1>1 DEF lite_reduce_redeem, StoresAt, RedeemedPosition, registry
<1> QED BY <1>1, <1>6, <1>7

\* lite_reduce_repay closes the position or leaves its receipts alone.
LEMMA RepayStores ==
  ASSUME LiteInv, NEW m \in Margins, NEW p, NEW bps \in Exits, lite_reduce_repay(m, p, bps)
  PROVE  /\ p \in DOMAIN lite[m]
         /\ \/ ClosesAt(m, p)
            \/ \E position : /\ StoresAt(m, p, position) /\ PositionOK(position)
                             /\ position.receipts = lite[m][p].receipts
                             /\ position.asset = lite[m][p].asset
<1> DEFINE rest == ExitRepayment(m, lite[m][p], bps).rest
           position == [lite[m][p] EXCEPT !.shares = rest, !.word = 0, !.pending = FALSE]
<1>1. p \in DOMAIN lite[m] /\ StoredOrClosed(m, p, position, bps) /\ UNCHANGED rate
  BY DEF lite_reduce_repay
<1> HIDE DEF rest
<1>2. PositionOK(lite[m][p])
  BY <1>1 DEF LiteInv, LiteShape
<1>3. /\ DOMAIN position = LiteFields /\ position = [x \in LiteFields |-> position[x]]
      /\ position.receipts = lite[m][p].receipts /\ position.asset = lite[m][p].asset
      /\ position.word = 0
  BY <1>2 DEF PositionOK, LiteFields
<1> HIDE DEF position
<1>4. PositionOK(position)
  BY <1>2, <1>3 DEF PositionOK
<1> QED BY <1>1, <1>3, <1>4, ExitStores

\* lite_reduce_and_repay stores the reduced position or closes it.
LEMMA UnwindStores ==
  ASSUME LiteInv, NEW m \in Margins, NEW p, NEW s, NEW bps \in Exits, NEW out, NEW left,
         lite_reduce_and_repay(m, p, s, bps, out, left)
  PROVE  LET position == Reduced(lite[m][p], UnwindRedemption(m, p, bps).burned)
         IN  /\ p \in DOMAIN lite[m] /\ PositionOK(position)
             /\ StoresAt(m, p, position) \/ ClosesAt(m, p)
<1>1. /\ p \in DOMAIN lite[m] /\ lite[m][p].receipts > 0
      /\ StoredOrClosed(m, p, Reduced(lite[m][p], UnwindRedemption(m, p, bps).burned), bps)
      /\ UNCHANGED rate
  BY DEF lite_reduce_and_repay, UnwindAllowed
<1>2. PositionOK(lite[m][p])
  BY <1>1 DEF LiteInv, LiteShape
<1> QED BY <1>1, <1>2, ExitStores, ReducedOK DEF UnwindRedemption

-----------------------------------------------------------------------------
(* The invariant and the registry *)

\* Every step of the program keeps the invariant.
LEMMA EveryLiteStep == LiteInv /\ [LiteNext]_vars => LiteInv'
<1> SUFFICES ASSUME LiteInv, [LiteNext]_vars PROVE LiteInv'
  OBVIOUS
<1>1. CASE UNCHANGED <<lite, liteIndexes, rate>>
  BY <1>1 DEF LiteInv, LiteShape, LiteRegistered, PositionOK
<1>2. CASE Next \/ UNCHANGED vars
  BY <1>1, <1>2 DEF Next, vars, liteState
<1>3. ASSUME NEW m \in Margins, NEW a \in Strategies, NEW p \in Chosen,
             NEW e \in Equities, NEW x \in Leverages, lite_open(m, p, a, e, x)
      PROVE  LiteInv'
  BY <1>3, OpenStores, RecordOK, StoreKeeps, LiteAssumption
<1>4. ASSUME NEW m \in Margins, NEW a \in Strategies, NEW p \in Chosen,
             NEW x \in Supplies, NEW d \in Deltas, lite_supply(m, p, a, x, d)
      PROVE  LiteInv'
  BY <1>4, SupplyStores, RecordOK, StoreKeeps, LiteAssumption
<1>5. ASSUME NEW m \in Margins, NEW p \in Places, NEW bps \in Exits, lite_reduce_redeem(m, p, bps)
      PROVE  LiteInv'
  BY <1>5, RedeemStores, StoreKeeps
<1>6. ASSUME NEW m \in Margins, NEW p \in Places, NEW bps \in Exits, lite_reduce_repay(m, p, bps)
      PROVE  LiteInv'
  BY <1>6, RepayStores, StoreKeeps, CloseKeeps
<1>7. ASSUME NEW m \in Margins, NEW p \in Places, NEW s \in Assets, NEW bps \in Exits,
             NEW out \in Amounts, NEW left \in {0, 1}, lite_reduce_and_repay(m, p, s, bps, out, left)
      PROVE  LiteInv'
  BY <1>7, UnwindStores, StoreKeeps, CloseKeeps
<1>8. ASSUME NEW a \in Strategies, NEW x \in Rates, SetRate(a, x) PROVE LiteInv'
  <2>1. rate' \in [Assets -> Rates]
    BY <1>8 DEF SetRate, LiteInv, LiteShape
  <2> QED BY <1>8, <2>1 DEF SetRate, LiteInv, LiteShape, LiteRegistered, PositionOK
<1> QED BY <1>2, <1>3, <1>4, <1>5, <1>6, <1>7, <1>8 DEF LiteNext, LiteStep

\* The invariant holds along every behaviour.
LEMMA Always == LiteSpec => []LiteInv
BY InitRegistered, EveryLiteStep, PTL DEF LiteSpec

\* However positions are opened, supplied, redeemed and closed, at indexed and
\* at legacy addresses, the registry of an account lists exactly the positions
\* a scan must find.
THEOREM AlwaysRegistered == LiteSpec => []LiteRegistered
<1>1. LiteInv => LiteRegistered
  BY DEF LiteInv
<1> QED BY <1>1, Always, PTL

-----------------------------------------------------------------------------
(* Redemptions that wait *)

\* The position at p of m is not touched when another one is stored or closed.
LEMMA Elsewhere ==
  ASSUME LiteInv, NEW m \in Margins, NEW p \in DOMAIN lite[m],
         NEW n \in Margins, NEW q, NEW position, n # m \/ q # p,
         StoresAt(n, q, position) \/ ClosesAt(n, q)
  PROVE  p \in DOMAIN lite'[m] /\ lite'[m][p] = lite[m][p]
<1>1. DOMAIN lite = Margins
  BY DEF LiteInv, LiteShape
<1>2. CASE StoresAt(n, q, position)
  BY <1>1, <1>2 DEF StoresAt, Stored
<1>3. CASE ClosesAt(n, q)
  BY <1>1, <1>3 DEF ClosesAt, Restrict
<1> QED BY <1>2, <1>3

\* What is stored at an address is found there.
LEMMA StoredThere ==
  ASSUME LiteInv, NEW m \in Margins, NEW p, NEW position, StoresAt(m, p, position)
  PROVE  p \in DOMAIN lite'[m] /\ lite'[m][p] = position
BY DEF LiteInv, LiteShape, StoresAt, Stored

\* What is below the lowest byte's carry leaves the rest of a word alone.
LEMMA HighBytes ==
  ASSUME NEW w \in Int, NEW b \in Nat, b < Byte
  PROVE  (w - (w % Byte) + b) \div Byte = w \div Byte
<1>1. Byte \in Nat \ {0}
  BY LiteAssumption
<1>2. PICK q \in Int : q = w \div Byte
  BY <1>1
<1>3. w - (w % Byte) = Byte * q
  BY <1>1, <1>2
<1>4. (Byte * q + b) \div Byte = q
  BY <1>1
<1> QED BY <1>2, <1>3, <1>4

\* The pending redemption of the position at p of m survives this step.
Waits(m, p) ==
  /\ p \in DOMAIN lite'[m] /\ lite'[m][p].pending
  /\ lite'[m][p].word \div Byte = lite[m][p].word \div Byte

\* An opening does not end the wait of a redemption: only the lowest byte moves.
LEMMA OpenWaits ==
  ASSUME LiteInv, NEW m \in Margins, NEW p \in DOMAIN lite[m], lite[m][p].pending,
         NEW a, NEW e, NEW x, lite_open(m, p, a, e, x)
  PROVE  Waits(m, p)
<1> DEFINE held == lite[m][p]
           minted == Minted(e + BorrowedFor(e, x), a)
           more == Loan(m, a, BorrowedFor(e, x)).position - debtShares[m][a]
           position == OpenedPosition(held, debtShares[m][a], e, BorrowedFor(e, x), minted, more)
           b == IF held.word % Byte = 1 THEN 1 ELSE 0
<1>1. PositionOK(held)
  BY DEF LiteInv, LiteShape
<1>2. p \in DOMAIN lite'[m] /\ lite'[m][p] = position
  BY OpenStores, StoredThere DEF PositionAt
<1> HIDE DEF minted, more
<1>3. position.pending = held.pending /\ position.word = held.word - (held.word % Byte) + b
  BY <1>1 DEF OpenedPosition, PositionOK, LiteFields
<1>4. b \in Nat /\ b < Byte
  <2>1. Byte \in Nat \ {0} /\ held.word \in Int
    BY <1>1, LiteAssumption DEF PositionOK
  <2>2. held.word % Byte \in 0..(Byte - 1)
    BY <2>1
  <2> QED BY <2>1, <2>2
<1> HIDE DEF b, position
<1>5. position.word \div Byte = held.word \div Byte
  BY <1>1, <1>3, <1>4, HighBytes DEF PositionOK
<1> QED BY <1>2, <1>3, <1>5 DEF Waits

\* Nor does a supply.
LEMMA SupplyWaits ==
  ASSUME LiteInv, NEW m \in Margins, NEW p \in DOMAIN lite[m], lite[m][p].pending,
         NEW a, NEW x, NEW d, lite_supply(m, p, a, x, d)
  PROVE  Waits(m, p)
<1> DEFINE position == SuppliedPosition(lite[m][p], debtShares[m][a], x, Minted(x, a), d)
<1>1. PositionOK(lite[m][p])
  BY DEF LiteInv, LiteShape
<1>2. p \in DOMAIN lite'[m] /\ lite'[m][p] = position
  BY SupplyStores, StoredThere DEF PositionAt
<1>3. position.pending = lite[m][p].pending /\ position.word = lite[m][p].word
  BY <1>1 DEF SuppliedPosition, PositionOK, LiteFields
<1> QED BY <1>2, <1>3 DEF Waits

\* Nor does anything else but a repayment or an exit across two assets.
LEMMA StepWaits ==
  ASSUME LiteInv, [LiteNext]_vars, NEW m \in Margins, NEW p \in DOMAIN lite[m], lite[m][p].pending
  PROVE  \/ Waits(m, p)
         \/ \E bps \in Exits : lite_reduce_repay(m, p, bps)
         \/ Unwinds(m)
<1>1. ASSUME p \in DOMAIN lite'[m], lite'[m][p] = lite[m][p]
      PROVE  Waits(m, p)
  BY <1>1 DEF Waits
<1>2. CASE lite' = lite
  BY <1>1, <1>2
<1>3. ASSUME NEW n \in Margins, NEW a \in Strategies, NEW q \in Chosen,
             NEW e \in Equities, NEW x \in Leverages, lite_open(n, q, a, e, x)
      PROVE  Waits(m, p)
  <2>1. CASE n = m /\ q = p
    BY <1>3, <2>1, OpenWaits
  <2>2. CASE n # m \/ q # p
    BY <1>1, <1>3, <2>2, OpenStores, Elsewhere
  <2> QED BY <2>1, <2>2
<1>4. ASSUME NEW n \in Margins, NEW a \in Strategies, NEW q \in Chosen,
             NEW x \in Supplies, NEW d \in Deltas, lite_supply(n, q, a, x, d)
      PROVE  Waits(m, p)
  <2>1. CASE n = m /\ q = p
    BY <1>4, <2>1, SupplyWaits
  <2>2. CASE n # m \/ q # p
    BY <1>1, <1>4, <2>2, SupplyStores, Elsewhere
  <2> QED BY <2>1, <2>2
<1>5. ASSUME NEW n \in Margins, NEW q \in Places, NEW bps \in Exits, lite_reduce_redeem(n, q, bps)
      PROVE  Waits(m, p)
  BY <1>1, <1>5, RedeemStores, Elsewhere
<1>6. ASSUME NEW n \in Margins, NEW q \in Places, NEW bps \in Exits, lite_reduce_repay(n, q, bps),
             n # m \/ q # p
      PROVE  Waits(m, p)
  <2>1. PICK position : StoresAt(n, q, position) \/ ClosesAt(n, q)
    BY <1>6, RepayStores
  <2> QED BY <1>1, <1>6, <2>1, Elsewhere
<1>7. ASSUME NEW n \in Margins, NEW q \in Places, NEW s \in Assets, NEW bps \in Exits,
             NEW out \in Amounts, NEW left \in {0, 1}, lite_reduce_and_repay(n, q, s, bps, out, left)
      PROVE  Waits(m, p) \/ Unwinds(m)
  <2>1. CASE n = m
    BY <1>7, <2>1 DEF Unwinds
  <2>2. CASE n # m
    <3>1. PICK position : StoresAt(n, q, position) \/ ClosesAt(n, q)
      BY <1>7, UnwindStores
    <3> QED BY <1>1, <2>2, <3>1, Elsewhere
  <2> QED BY <2>1, <2>2
<1> QED
  BY <1>2, <1>3, <1>4, <1>5, <1>6, <1>7
  DEF LiteNext, LiteStep, SetRate, Next, vars, liteState

\* A redemption that waits for its repayment keeps its amount up to the lowest
\* byte, whatever else happens to the account, the rates and the pools.
THEOREM PendingAlwaysKept == LiteSpec => PendingKept
<1> DEFINE Kept ==
      \A m \in Margins : \A p \in DOMAIN lite[m] :
        lite[m][p].pending =>
          \/ /\ p \in DOMAIN lite'[m] /\ lite'[m][p].pending
             /\ lite'[m][p].word \div Byte = lite[m][p].word \div Byte
          \/ \E bps \in Exits : lite_reduce_repay(m, p, bps)
          \/ Unwinds(m)
<1>1. LiteInv /\ [LiteNext]_vars => Kept
  BY StepWaits DEF Waits
<1>2. PendingKept <=> [][Kept]_vars
  BY DEF PendingKept
<1> HIDE DEF Kept
<1> QED BY <1>1, <1>2, Always, PTL DEF LiteSpec

-----------------------------------------------------------------------------
(* Receipts *)

ReceiptsOK == LiteInv /\ receipts \in [Margins -> [Assets -> Nat]] /\ ReceiptsBacked

\* What a position records of receipts for a.
Held(position, a) == IF position.asset = a THEN position.receipts ELSE 0

\* Every address records some amount, 0 where there is no position.
LEMMA RecordedType ==
  ASSUME LiteInv, NEW m \in Margins, NEW a \in Assets
  PROVE  Recorded(m, a) \in [Places -> Nat] /\ IsFiniteSet(Places)
<1>1. IsFiniteSet({Legacy}) /\ IsFiniteSet(Assets)
  BY FS_Singleton, CrossMarginAssumption
<1>2. IsFiniteSet(Places)
  BY <1>1, FS_Union DEF Places
<1>3. \A p \in DOMAIN lite[m] : PositionOK(lite[m][p])
  BY DEF LiteInv, LiteShape
<1> QED BY <1>2, <1>3 DEF Recorded, PositionOK

\* Storing a position changes what its address records, and nothing else.
LEMMA RecordedAfterStore ==
  ASSUME LiteInv, NEW m \in Margins, NEW p \in Places, NEW position, PositionOK(position),
         StoresAt(m, p, position), NEW a \in Assets
  PROVE  /\ Recorded(m, a)' = [Recorded(m, a) EXCEPT ![p] = Held(position, a)]
         /\ \A n \in Margins \ {m} : Recorded(n, a)' = Recorded(n, a)
<1>1. DOMAIN lite = Margins
  BY DEF LiteInv, LiteShape
<1>2. lite'[m] = [q \in DOMAIN lite[m] \cup {p} |-> IF q = p THEN position ELSE lite[m][q]]
  BY <1>1 DEF StoresAt, Stored
<1>3. \A n \in Margins \ {m} : lite'[n] = lite[n]
  BY <1>1 DEF StoresAt, Stored
<1>4. \A q \in Places : Recorded(m, a)'[q] = IF q = p THEN Held(position, a) ELSE Recorded(m, a)[q]
  BY <1>2 DEF Recorded, Held
<1>5. Recorded(m, a)' = [Recorded(m, a) EXCEPT ![p] = Held(position, a)]
  BY <1>4 DEF Recorded
<1> QED BY <1>3, <1>5 DEF Recorded

\* Closing one takes away what its address recorded.
LEMMA RecordedAfterClose ==
  ASSUME LiteInv, NEW m \in Margins, NEW p \in Places, ClosesAt(m, p), NEW a \in Assets
  PROVE  /\ Recorded(m, a)' = [Recorded(m, a) EXCEPT ![p] = 0]
         /\ \A n \in Margins \ {m} : Recorded(n, a)' = Recorded(n, a)
<1>1. DOMAIN lite = Margins
  BY DEF LiteInv, LiteShape
<1>2. lite'[m] = [q \in DOMAIN lite[m] \ {p} |-> lite[m][q]]
  BY <1>1 DEF ClosesAt, Restrict
<1>3. \A n \in Margins \ {m} : lite'[n] = lite[n]
  BY <1>1 DEF ClosesAt
<1>4. \A q \in Places : Recorded(m, a)'[q] = IF q = p THEN 0 ELSE Recorded(m, a)[q]
  BY <1>2 DEF Recorded
<1>5. Recorded(m, a)' = [Recorded(m, a) EXCEPT ![p] = 0]
  BY <1>4 DEF Recorded
<1> QED BY <1>3, <1>5 DEF Recorded

\* The sum after one summand changes.
LEMMA TotalAfter ==
  ASSUME IsFiniteSet(Places), NEW f \in [Places -> Nat], NEW p \in Places, NEW k \in Nat
  PROVE  /\ TotalOf([f EXCEPT ![p] = k]) = TotalOf(f) - f[p] + k
         /\ TotalOf(f) \in Nat
<1>1. TotalOf([f EXCEPT ![p] = k]) = TotalOf(f) - f[p] + k
  BY TotalOfExcept, Zenon
<1>2. TotalOf(f) \in Nat
  BY TotalOfExcept, Zenon
<1> QED BY <1>1, <1>2

\* The position at p records k receipts of asset b, and the account of m has v.
Moves(m, p, b, k, v) ==
  /\ k \in Nat /\ v \in Nat
  /\ Recorded(m, b)' = [Recorded(m, b) EXCEPT ![p] = k]
  /\ \A c \in Assets \ {b} : Recorded(m, c)' = Recorded(m, c)
  /\ \A n \in Margins \ {m}, c \in Assets : Recorded(n, c)' = Recorded(n, c)
  /\ receipts' = [receipts EXCEPT ![m][b] = v]
  /\ v - receipts[m][b] >= k - Recorded(m, b)[p]

\* Records and receipt account change together at one address and one asset.
LEMMA ReceiptsMove ==
  ASSUME ReceiptsOK, NEW m \in Margins, NEW p \in Places, NEW b \in Assets,
         NEW k, NEW v, Moves(m, p, b, k, v)
  PROVE  receipts' \in [Margins -> [Assets -> Nat]] /\ ReceiptsBacked'
<1> USE DEF Moves
<1>1. receipts \in [Margins -> [Assets -> Nat]] /\ LiteInv
  BY DEF ReceiptsOK
<1>2. receipts' \in [Margins -> [Assets -> Nat]]
  BY <1>1
<1>3. TotalOf(Recorded(m, b)') <= receipts'[m][b]
  <2>1. Recorded(m, b) \in [Places -> Nat] /\ IsFiniteSet(Places)
    BY <1>1, RecordedType
  <2>5. PICK f \in [Places -> Nat] : f = Recorded(m, b)
    BY <2>1
  <2>6. /\ TotalOf([f EXCEPT ![p] = k]) = TotalOf(f) - f[p] + k
        /\ TotalOf(f) \in Nat
    BY <2>1, TotalAfter
  <2>7. Recorded(m, b)' = [f EXCEPT ![p] = k]
    BY <2>5
  <2>2. /\ TotalOf(Recorded(m, b)') = TotalOf(Recorded(m, b)) - Recorded(m, b)[p] + k
        /\ TotalOf(Recorded(m, b)) \in Nat
    BY <2>5, <2>6, <2>7
  <2>3. TotalOf(Recorded(m, b)) <= receipts[m][b]
    BY DEF ReceiptsOK, ReceiptsBacked
  <2>4. receipts'[m][b] = v /\ receipts[m][b] \in Nat /\ Recorded(m, b)[p] \in Nat
    BY <1>1, <2>1
  <2> QED BY <2>2, <2>3, <2>4
<1>4. \A n \in Margins, c \in Assets : n # m \/ c # b => /\ receipts'[n][c] = receipts[n][c]
                                                      /\ Recorded(n, c)' = Recorded(n, c)
  BY <1>1
<1>5. ReceiptsBacked'
  BY <1>3, <1>4 DEF ReceiptsOK, ReceiptsBacked
<1> QED BY <1>2, <1>5

\* The position at p, if there is one, holds receipts of b.  The account comes to
\* have v of them and gains at least as many as a position that holds k would.
Covers(m, p, b, k, v) ==
  /\ b \in Assets /\ v \in Nat
  /\ p \in DOMAIN lite[m] => lite[m][p].asset = b
  /\ receipts' = [receipts EXCEPT ![m][b] = v]
  /\ v - receipts[m][b] >= k - (IF p \in DOMAIN lite[m] THEN lite[m][p].receipts ELSE 0)

\* A stored position is backed if the receipts that moved cover it.
LEMMA StoreBacked ==
  ASSUME ReceiptsOK, NEW m \in Margins, NEW p \in Places, NEW position, PositionOK(position),
         StoresAt(m, p, position), NEW v, Covers(m, p, position.asset, position.receipts, v)
  PROVE  ReceiptsOK'
<1> DEFINE b == position.asset
<1> USE DEF Covers
<1>1. LiteInv /\ LiteInv'
  BY StoreKeeps DEF ReceiptsOK
<1>2. /\ position.receipts \in Nat
      /\ \A a \in Assets : Held(position, a) = IF a = b THEN position.receipts ELSE 0
  BY DEF PositionOK, Held
<1>3. /\ Recorded(m, b)' = [Recorded(m, b) EXCEPT ![p] = position.receipts]
      /\ \A a \in Assets \ {b} : Recorded(m, a)' = [Recorded(m, a) EXCEPT ![p] = 0]
      /\ \A n \in Margins \ {m}, a \in Assets : Recorded(n, a)' = Recorded(n, a)
  BY <1>1, <1>2, RecordedAfterStore
<1>4. \A a \in Assets \ {b} : Recorded(m, a)' = Recorded(m, a)
  <2> SUFFICES ASSUME NEW a \in Assets \ {b} PROVE Recorded(m, a)' = Recorded(m, a)
    OBVIOUS
  <2>1. Recorded(m, a)[p] = 0 /\ Recorded(m, a) = [q \in Places |-> Recorded(m, a)[q]]
    BY DEF Recorded
  <2> QED BY <1>3, <2>1
<1>5. Recorded(m, b)[p] = IF p \in DOMAIN lite[m] THEN lite[m][p].receipts ELSE 0
  BY DEF Recorded
<1>7. v - receipts[m][b] >= position.receipts - Recorded(m, b)[p]
  BY <1>5
<1>6. receipts' \in [Margins -> [Assets -> Nat]] /\ ReceiptsBacked'
  <2>1. Moves(m, p, b, position.receipts, v)
    BY <1>2, <1>3, <1>4, <1>7 DEF Moves
  <2> QED BY <2>1, ReceiptsMove
<1> QED BY <1>1, <1>6 DEF ReceiptsOK

\* A closed position leaves the others backed.
LEMMA CloseBacked ==
  ASSUME ReceiptsOK, NEW m \in Margins, NEW p \in Places, ClosesAt(m, p),
         NEW b, NEW v, Covers(m, p, b, 0, v)
  PROVE  ReceiptsOK'
<1> USE DEF Covers
<1>1. LiteInv /\ LiteInv'
  BY CloseKeeps DEF ReceiptsOK
<1>2. p \in DOMAIN lite[m]
  BY DEF ClosesAt
<1>3. /\ \A a \in Assets : Recorded(m, a)' = [Recorded(m, a) EXCEPT ![p] = 0]
      /\ \A n \in Margins \ {m}, a \in Assets : Recorded(n, a)' = Recorded(n, a)
  BY <1>1, RecordedAfterClose
<1>4. \A a \in Assets \ {b} : Recorded(m, a)' = Recorded(m, a)
  <2> SUFFICES ASSUME NEW a \in Assets \ {b} PROVE Recorded(m, a)' = Recorded(m, a)
    OBVIOUS
  <2>1. Recorded(m, a)[p] = 0 /\ Recorded(m, a) = [q \in Places |-> Recorded(m, a)[q]]
    BY DEF Recorded
  <2> QED BY <1>3, <2>1
<1>5. Recorded(m, b)[p] = lite[m][p].receipts
  BY <1>2 DEF Recorded
<1>7. 0 \in Nat /\ v - receipts[m][b] >= 0 - Recorded(m, b)[p]
  BY <1>2, <1>5
<1>6. receipts' \in [Margins -> [Assets -> Nat]] /\ ReceiptsBacked'
  <2>1. Moves(m, p, b, 0, v)
    BY <1>3, <1>4, <1>7 DEF Moves
  <2> QED BY <2>1, ReceiptsMove
<1> QED BY <1>1, <1>6 DEF ReceiptsOK

\* No receipts back no positions.
LEMMA InitReceipts == Init => ReceiptsOK
<1> SUFFICES ASSUME Init PROVE ReceiptsOK
  OBVIOUS
<1>1. /\ receipts = [m \in Margins |-> [a \in Assets |-> 0]]
      /\ lite = [m \in Margins |-> [p \in {} |-> 0]]
  BY DEF Init
<1>2. \A m \in Margins, a \in Assets : Recorded(m, a) = [p \in Places |-> 0]
  BY <1>1 DEF Recorded
<1>3. ReceiptsBacked
  BY <1>1, <1>2, TotalOfZero DEF ReceiptsBacked
<1> QED BY <1>1, <1>3, InitRegistered DEF ReceiptsOK

\* What a position gains in receipts is what Kamino mints for it.
LEMMA MintedType ==
  ASSUME LiteInv, NEW a \in Strategies, NEW x \in Int
  PROVE  a \in Assets /\ Minted(x, a) \in Int
<1>1. a \in Assets /\ rate[a] \in Nat \ {0}
  BY LiteAssumption, CrossMarginAssumption DEF LiteInv, LiteShape
<1> QED BY <1>1 DEF Minted, mul_div_floor

\* lite_open records what Kamino minted.
LEMMA OpenBacked ==
  ASSUME ReceiptsOK, NEW m \in Margins, NEW a \in Strategies, NEW p \in Chosen,
         NEW e \in Equities, NEW x \in Leverages, lite_open(m, p, a, e, x)
  PROVE  ReceiptsOK'
<1> DEFINE held == PositionAt(m, p, a)
           minted == Minted(e + BorrowedFor(e, x), a)
           more == Loan(m, a, BorrowedFor(e, x)).position - debtShares[m][a]
           position == OpenedPosition(held, debtShares[m][a], e, BorrowedFor(e, x), minted, more)
<1>1. LiteInv /\ receipts \in [Margins -> [Assets -> Nat]]
  BY DEF ReceiptsOK
<1>2. PositionOK(held)
  BY <1>1, HeldOK
<1>3. /\ StoresAt(m, p, position) /\ position \in LiteRecords
  BY OpenStores
<1>4. /\ receipts' = [receipts EXCEPT ![m][a] = @ + minted]
      /\ receipts[m][a] + minted \in Nat
      /\ held.asset = a
  BY DEF lite_open, position_seed, U64
<1>5. a \in Assets /\ minted \in Int
  <2>1. e + BorrowedFor(e, x) \in Int
    BY LiteAssumption, ReserveMathAssumption DEF BorrowedFor, mul_div_floor, U64
  <2> QED BY <1>1, <2>1, MintedType
<1> HIDE DEF minted, more, held
<1>6. position.receipts = held.receipts + minted /\ position.asset = held.asset
  BY <1>2 DEF OpenedPosition, PositionOK, LiteFields
<1>7. held.receipts = IF p \in DOMAIN lite[m] THEN lite[m][p].receipts ELSE 0
  BY DEF held, PositionAt, NewPosition
<1>8. p \in DOMAIN lite[m] => lite[m][p].asset = a
  BY <1>4 DEF held, PositionAt
<1> DEFINE v == receipts[m][a] + minted
<1>9. receipts' = [receipts EXCEPT ![m][a] = v] /\ v \in Nat /\ p \in Places
  BY <1>1, <1>4, <1>5, LiteAssumption
<1>10. v - receipts[m][a] >= position.receipts - (IF p \in DOMAIN lite[m] THEN lite[m][p].receipts ELSE 0)
  <2>1. receipts[m][a] \in Nat /\ held.receipts \in Nat
    BY <1>1, <1>2, <1>5 DEF PositionOK
  <2> QED BY <1>5, <1>6, <1>7, <2>1
<1>11. PositionOK(position) /\ position.asset = a
  BY <1>3, <1>4, <1>6, RecordOK
<1> HIDE DEF position, v
<1>12. Covers(m, p, position.asset, position.receipts, v)
  BY <1>5, <1>8, <1>9, <1>10, <1>11 DEF Covers
<1> QED BY <1>3, <1>9, <1>11, <1>12, StoreBacked

\* lite_supply records what Kamino minted.
LEMMA SupplyBacked ==
  ASSUME ReceiptsOK, NEW m \in Margins, NEW a \in Strategies, NEW p \in Chosen,
         NEW x \in Supplies, NEW d \in Deltas, lite_supply(m, p, a, x, d)
  PROVE  ReceiptsOK'
<1> DEFINE held == PositionAt(m, p, a)
           minted == Minted(x, a)
           position == SuppliedPosition(held, debtShares[m][a], x, minted, d)
<1>1. LiteInv /\ receipts \in [Margins -> [Assets -> Nat]]
  BY DEF ReceiptsOK
<1>2. PositionOK(held)
  BY <1>1, HeldOK
<1>3. /\ StoresAt(m, p, position) /\ position \in LiteRecords
  BY SupplyStores
<1>4. /\ receipts' = [receipts EXCEPT ![m][a] = @ + minted]
      /\ receipts[m][a] + minted \in Nat
      /\ held.asset = a
  BY DEF lite_supply, position_seed, U64
<1>5. a \in Assets /\ minted \in Int
  <2>1. x \in Int
    BY LiteAssumption DEF U64
  <2> QED BY <1>1, <2>1, MintedType
<1> HIDE DEF minted, held
<1>6. position.receipts = held.receipts + minted /\ position.asset = held.asset
  BY <1>2 DEF SuppliedPosition, PositionOK, LiteFields
<1>7. held.receipts = IF p \in DOMAIN lite[m] THEN lite[m][p].receipts ELSE 0
  BY DEF held, PositionAt, NewPosition
<1>8. p \in DOMAIN lite[m] => lite[m][p].asset = a
  BY <1>4 DEF held, PositionAt
<1> DEFINE v == receipts[m][a] + minted
<1>9. receipts' = [receipts EXCEPT ![m][a] = v] /\ v \in Nat /\ p \in Places
  BY <1>1, <1>4, <1>5, LiteAssumption
<1>10. v - receipts[m][a] >= position.receipts - (IF p \in DOMAIN lite[m] THEN lite[m][p].receipts ELSE 0)
  <2>1. receipts[m][a] \in Nat /\ held.receipts \in Nat
    BY <1>1, <1>2, <1>5 DEF PositionOK
  <2> QED BY <1>5, <1>6, <1>7, <2>1
<1>11. PositionOK(position) /\ position.asset = a
  BY <1>3, <1>4, <1>6, RecordOK
<1> HIDE DEF position, v
<1>12. Covers(m, p, position.asset, position.receipts, v)
  BY <1>5, <1>8, <1>9, <1>10, <1>11 DEF Covers
<1> QED BY <1>3, <1>9, <1>11, <1>12, StoreBacked

\* An exit takes from the account the receipts it takes from the position.
LEMMA BurnBacked ==
  ASSUME ReceiptsOK, NEW m \in Margins, NEW p \in DOMAIN lite[m], NEW position, PositionOK(position),
         NEW burned \in Nat, burned <= receipts[m][lite[m][p].asset], burned <= lite[m][p].receipts,
         position.asset = lite[m][p].asset, position.receipts = lite[m][p].receipts - burned,
         receipts' = [receipts EXCEPT ![m][lite[m][p].asset] = @ - burned],
         StoresAt(m, p, position) \/ ClosesAt(m, p)
  PROVE  ReceiptsOK'
<1> DEFINE b == lite[m][p].asset
           v == receipts[m][b] - burned
<1>1. /\ LiteInv /\ receipts \in [Margins -> [Assets -> Nat]]
      /\ p \in Places /\ PositionOK(lite[m][p])
  BY DEF ReceiptsOK, LiteInv, LiteShape
<1>2. b \in Assets /\ lite[m][p].receipts \in Nat /\ receipts[m][b] \in Nat
  BY <1>1 DEF PositionOK
<1>3. v \in Nat /\ receipts' = [receipts EXCEPT ![m][b] = v]
  BY <1>1, <1>2
<1>4. Covers(m, p, position.asset, position.receipts, v) /\ Covers(m, p, b, 0, v)
  BY <1>2, <1>3 DEF Covers
<1> HIDE DEF b, v
<1>5. CASE StoresAt(m, p, position)
  BY <1>1, <1>4, <1>5, StoreBacked
<1>6. CASE ClosesAt(m, p)
  BY <1>1, <1>4, <1>6, CloseBacked
<1> QED BY <1>5, <1>6

\* lite_reduce_redeem burns what it takes off the record.
LEMMA RedeemBacked ==
  ASSUME ReceiptsOK, NEW m \in Margins, NEW p \in Places, NEW bps \in Exits,
         lite_reduce_redeem(m, p, bps)
  PROVE  ReceiptsOK'
<1> DEFINE burned == mul_div_floor(lite[m][p].receipts, bps, BasisPoints)
           position == RedeemedPosition(m, p, bps)
<1>1. LiteInv
  BY DEF ReceiptsOK
<1>2. /\ StoresAt(m, p, position) /\ PositionOK(position) /\ p \in DOMAIN lite[m]
  BY <1>1, RedeemStores
<1>3. PositionOK(lite[m][p])
  BY <1>1, <1>2 DEF LiteInv, LiteShape
<1>4. /\ lite[m][p].receipts > 0 /\ lite[m][p].receipts <= receipts[m][lite[m][p].asset]
      /\ receipts' = [receipts EXCEPT ![m][lite[m][p].asset] = @ - burned]
  BY DEF lite_reduce_redeem
<1>5. /\ burned \in 0..lite[m][p].receipts
      /\ PositionOK(Reduced(lite[m][p], burned))
      /\ Reduced(lite[m][p], burned).receipts = lite[m][p].receipts - burned
      /\ Reduced(lite[m][p], burned).asset = lite[m][p].asset
  BY <1>3, <1>4, ReducedOK
<1>6. position.receipts = lite[m][p].receipts - burned /\ position.asset = lite[m][p].asset
  BY <1>5 DEF RedeemedPosition, PositionOK, LiteFields
<1> HIDE DEF burned, position
<1>7. burned \in Nat /\ burned <= receipts[m][lite[m][p].asset] /\ burned <= lite[m][p].receipts
  <2>1. lite[m][p].receipts \in Nat /\ receipts[m][lite[m][p].asset] \in Nat
    BY <1>3 DEF ReceiptsOK, PositionOK
  <2> QED BY <2>1, <1>4, <1>5
<1> QED BY <1>2, <1>4, <1>6, <1>7, BurnBacked, Zenon

\* lite_reduce_repay moves no receipts.
LEMMA RepayBacked ==
  ASSUME ReceiptsOK, NEW m \in Margins, NEW p \in Places, NEW bps \in Exits,
         lite_reduce_repay(m, p, bps)
  PROVE  ReceiptsOK'
<1>1. LiteInv /\ receipts \in [Margins -> [Assets -> Nat]] /\ p \in DOMAIN lite[m] /\ receipts' = receipts
  BY RepayStores DEF ReceiptsOK, lite_reduce_repay
<1>2. PositionOK(lite[m][p])
  BY <1>1 DEF LiteInv, LiteShape
<1> DEFINE b == lite[m][p].asset
           v == receipts[m][b]
<1>3. Covers(m, p, b, 0, v) /\ Covers(m, p, b, lite[m][p].receipts, v)
  BY <1>1, <1>2 DEF PositionOK, Covers
<1>4. CASE ClosesAt(m, p)
  <2> HIDE DEF b, v
  <2> QED BY <1>3, <1>4, CloseBacked
<1>5. ASSUME NEW position, StoresAt(m, p, position), PositionOK(position),
             position.receipts = lite[m][p].receipts, position.asset = lite[m][p].asset
      PROVE  ReceiptsOK'
  <2>1. Covers(m, p, position.asset, position.receipts, v)
    BY <1>3, <1>5
  <2> HIDE DEF v
  <2> QED BY <1>5, <2>1, StoreBacked
<1> QED BY <1>1, <1>4, <1>5, RepayStores

\* lite_reduce_and_repay burns no more than it takes off the record.
LEMMA UnwindBacked ==
  ASSUME ReceiptsOK, NEW m \in Margins, NEW p \in Places, NEW s, NEW bps \in Exits,
         NEW out, NEW left, lite_reduce_and_repay(m, p, s, bps, out, left)
  PROVE  ReceiptsOK'
<1> DEFINE burned == UnwindRedemption(m, p, bps).burned
           position == Reduced(lite[m][p], burned)
<1>1. LiteInv
  BY DEF ReceiptsOK
<1>2. /\ p \in DOMAIN lite[m] /\ PositionOK(position)
      /\ StoresAt(m, p, position) \/ ClosesAt(m, p)
  BY <1>1, UnwindStores
<1>3. PositionOK(lite[m][p])
  BY <1>1, <1>2 DEF LiteInv, LiteShape
<1>4. /\ lite[m][p].receipts > 0 /\ burned <= receipts[m][lite[m][p].asset]
      /\ receipts' = [receipts EXCEPT ![m][lite[m][p].asset] = @ - burned]
  BY DEF lite_reduce_and_repay, UnwindAllowed
<1>5. /\ burned \in 0..lite[m][p].receipts
      /\ position.receipts = lite[m][p].receipts - burned
      /\ position.asset = lite[m][p].asset
  BY <1>3, <1>4, ReducedOK DEF UnwindRedemption
<1> HIDE DEF burned, position
<1>6. burned \in Nat /\ burned <= lite[m][p].receipts
  BY <1>3, <1>5 DEF PositionOK
<1> QED BY <1>2, <1>4, <1>5, <1>6, BurnBacked, Zenon

\* Every step keeps the positions backed.
LEMMA EveryStepBacked == ReceiptsOK /\ [LiteNext]_vars => ReceiptsOK'
<1> SUFFICES ASSUME ReceiptsOK, [LiteNext]_vars PROVE ReceiptsOK'
  OBVIOUS
<1>1. CASE UNCHANGED <<lite, receipts>>
  <2>1. LiteInv'
    BY EveryLiteStep DEF ReceiptsOK
  <2>2. \A m \in Margins, a \in Assets : Recorded(m, a)' = Recorded(m, a)
    BY <1>1 DEF Recorded
  <2> QED BY <1>1, <2>1, <2>2 DEF ReceiptsOK, ReceiptsBacked
<1>2. CASE Next \/ UNCHANGED vars \/ \E a \in Strategies, x \in Rates : SetRate(a, x)
  BY <1>1, <1>2 DEF Next, vars, liteState, SetRate
<1> QED
  BY <1>2, OpenBacked, SupplyBacked, RedeemBacked, RepayBacked, UnwindBacked DEF LiteNext, LiteStep

\* The receipt account of a margin account covers all its positions together,
\* at any exchange rates and in whatever order they are used and closed.
THEOREM ReceiptsAlwaysBacked == LiteSpec => []ReceiptsBacked
<1>1. ReceiptsOK => ReceiptsBacked
  BY DEF ReceiptsOK
<1> QED BY <1>1, InitReceipts, EveryStepBacked, PTL DEF LiteSpec
-----------------------------------------------------------------------------
(* Accounts and pools through the Lite instructions *)

\* The types of positions whose word is in W, and of the receipt accounts.
RecordsOf(W) ==
  [asset : Assets, receipts : U64, deposited : U64, equity : U64,
   shares : Nat, word : W, pending : BOOLEAN]

\* Words as large as any amount, and any the eight bytes hold.
Fits(W) == W \subseteq Nat /\ U64 \subseteq W /\ 0..(WordSize - 1) \subseteq W

LitePlaces(W) ==
  /\ \A m \in Margins : \A p \in DOMAIN lite[m] : lite[m][p] \in RecordsOf(W)
  /\ receipts \in [Margins -> [Assets -> U64]]

\* The inductive invariant of accounts and pools under the Lite instructions:
\* the one of CrossMargin, short of what it says about filled vaults.
Accounts == IInv /\ Ledger /\ AccountTypes
LitePools(W) == Accounts /\ LiteInv /\ LitePlaces(W)

\* Account m has the vaults V and the slots C, and the reserve of d moves to r.
AccountMoved(m, d, r, k, D, O, V, C) ==
  /\ Moved(m, d, r, k, D, O)
  /\ vault' = [vault EXCEPT ![m] = V]
  /\ collActive' = [collActive EXCEPT ![m] = C]
  /\ UNCHANGED <<mode, price, assetConf, exists>>
  /\ blank' \in [Margins -> SUBSET Assets]
  /\ \A n \in Margins \ {m} : liteIndexes'[n] = liteIndexes[n]

\* What they must be for the invariant to hold on.
MoveOK(m, d, r, k, D, O, V, C) ==
  /\ m \in exists /\ k \in Nat
  /\ D \in SUBSET Assets /\ O \in SUBSET Assets
  /\ V \in [Assets -> U64] /\ C \in SUBSET Assets
  /\ r.last_update_timestamp <= now
  /\ Books(r, [SharesOf(d) EXCEPT ![m] = k])
  /\ D \ {d} = debtActive[m] \ {d} /\ D \subseteq O
  /\ k > 0 <=> d \in D
  /\ Cardinality(C \cup D) <= MaxAssetsPerMargin

\* One account and one pool move together.
LEMMA AccountMove ==
  ASSUME Accounts, NEW m \in Margins, NEW d \in Assets, NEW r, NEW k, NEW D, NEW O, NEW V, NEW C,
         MoveOK(m, d, r, k, D, O, V, C), AccountMoved(m, d, r, k, D, O, V, C)
  PROVE  /\ Accounts'
         /\ NoEmptySlots /\ Filled(V, C) => NoEmptySlots'
<1>1. Ledger'
  BY LedgerMove DEF Accounts, MoveOK, AccountMoved
<1>2. /\ debtShares \in [Margins -> [Assets -> Nat]] /\ debtActive \in [Margins -> SUBSET Assets]
      /\ collActive \in [Margins -> SUBSET Assets]
      /\ \A a \in Assets \ debtActive[m] : debtShares[m][a] = 0
  BY DEF Accounts, IInv, Types, DebtsListed
<1> DEFINE S == [debtShares[m] EXCEPT ![d] = k]
<1>3. MarginOK(V, C, S, D)
  <2>1. \A a \in Assets \ D : S[a] = 0
    BY <1>2 DEF MoveOK
  <2>2. S \in [Assets -> Nat]
    BY <1>2 DEF MoveOK
  <2> QED
    BY <2>1, <2>2 DEF MoveOK, MarginOK
<1>4. Becomes(m, V, C, S, D)
  BY <1>2 DEF AccountMoved, Moved, Becomes
<1>5. ReservesKept
  <2>1. ReserveOK(r)
    BY DEF MoveOK, Books, ReserveRecords, ReserveOK
  <2> QED
    BY <2>1 DEF AccountMoved, Moved, ReservesKept
<1>6. IInv' /\ (NoEmptySlots /\ Filled(V, C) => NoEmptySlots')
  BY <1>3, <1>4, <1>5, AccountChange DEF Accounts
<1>7. AccountTypes'
  <2>1. \A n \in Margins \ {m} : collActive'[n] = collActive[n] /\ debtActive'[n] = debtActive[n]
    BY <1>2 DEF AccountMoved, Moved
  <2> QED
    BY <2>1 DEF Accounts, AccountTypes, AccountMoved, MoveOK
<1> QED
  BY <1>1, <1>6, <1>7 DEF Accounts

\* What the invariant says of one account and one asset.
LEMMA AccountStanding ==
  ASSUME Accounts, NEW m \in Margins, NEW a \in Assets
  PROVE  /\ debtShares[m][a] \in Nat /\ vault[m] \in [Assets -> U64] /\ vault[m][a] \in U64
         /\ debtActive[m] \in SUBSET Assets /\ opened[m] \in SUBSET Assets
         /\ collActive[m] \in SUBSET Assets
         /\ debtActive[m] \subseteq opened[m]
         /\ debtShares[m][a] > 0 <=> a \in debtActive[m]
         /\ Cardinality(collActive[m] \cup debtActive[m]) <= MaxAssetsPerMargin
         /\ SharesOf(a)[m] = debtShares[m][a] /\ SharesOf(a) = [SharesOf(a) EXCEPT ![m] = debtShares[m][a]]
         /\ Books(reserve[a], SharesOf(a)) /\ reserve[a] \in ReserveRecords
         /\ reserve[a].last_update_timestamp <= now
         /\ liquidity[a] = reserve[a].accounted_liquidity_assets
<1>1. /\ IInv /\ Ledger /\ LedgerTypes /\ Types /\ AssetsBounded
      /\ \A b \in Assets : InOrder(b)
  BY DEF Accounts, Ledger, IInv
<1>2. SharesOf(a)[m] = debtShares[m][a] /\ SharesOf(a) = [SharesOf(a) EXCEPT ![m] = debtShares[m][a]]
  BY <1>1 DEF SharesOf
<1>3. /\ debtShares[m][a] \in Nat /\ vault[m] \in [Assets -> U64] /\ vault[m][a] \in U64
      /\ debtActive[m] \in SUBSET Assets /\ opened[m] \in SUBSET Assets
      /\ collActive[m] \in SUBSET Assets
      /\ Cardinality(collActive[m] \cup debtActive[m]) <= MaxAssetsPerMargin
  BY <1>1 DEF Types, LedgerTypes, AssetsBounded
<1>4. debtActive[m] \subseteq opened[m]
  BY <1>1, <1>3 DEF InOrder
<1>5. /\ debtShares[m][a] > 0 <=> a \in debtActive[m]
      /\ Books(reserve[a], SharesOf(a)) /\ reserve[a] \in ReserveRecords
      /\ reserve[a].last_update_timestamp <= now
      /\ liquidity[a] = reserve[a].accounted_liquidity_assets
  BY <1>1 DEF InOrder, LedgerTypes
<1> QED
  BY <1>2, <1>3, <1>4, <1>5
\* What is borrowed on top of the equity is no negative amount.
LEMMA BorrowedType ==
  ASSUME NEW e \in Equities, NEW x \in Leverages
  PROVE  BorrowedFor(e, x) \in Nat
<1>1. e \in Nat /\ x \in Nat /\ BasisPoints \in Nat \ {0} /\ x >= BasisPoints
  BY LiteAssumption, ReserveMathAssumption DEF U64
<1> DEFINE q == mul_div_floor(e, x, BasisPoints)
<1>2. q \in Nat /\ e * x < q * BasisPoints + BasisPoints
  BY <1>1, FloorBounds
<1> HIDE DEF q
<1>3. e * BasisPoints <= e * x
  BY <1>1, MulMonotone
<1>4. e * BasisPoints < (q + 1) * BasisPoints
  <2> DEFINE y == e * x
             z == e * BasisPoints
             w == q * BasisPoints
  <2>1. y \in Nat /\ z \in Nat /\ w \in Nat /\ (q + 1) * BasisPoints = w + BasisPoints
    BY <1>1, <1>2
  <2>2. y < w + BasisPoints /\ z <= y
    BY <1>2, <1>3
  <2> HIDE DEF y, z, w
  <2>3. z < w + BasisPoints
    BY <1>1, <2>1, <2>2
  <2> QED
    BY <2>1, <2>3 DEF z
<1>5. e < q + 1
  <2>1. CASE e >= q + 1
    <3>1. (q + 1) * BasisPoints <= e * BasisPoints
      BY <1>1, <1>2, <2>1, MulMonotone
    <3> QED
      BY <1>1, <1>2, <1>4, <3>1
  <2> QED
    BY <1>1, <1>2, <2>1
<1>6. BorrowedFor(e, x) = q - e
  BY DEF BorrowedFor, q
<1> QED
  BY <1>1, <1>2, <1>5, <1>6

\* Borrowing nothing only brings the reserve up to date.
LEMMA NoLoan ==
  ASSUME Accounts, NEW m \in Margins, NEW a \in Assets, Pool(a)!AccrualOK
  PROVE  /\ Loan(m, a, 0).position = debtShares[m][a]
         /\ Loan(m, a, 0).reserve = Pool(a)!Current
<1> DEFINE r == Pool(a)!Current
           S == r.total_borrow_shares
           T == r.total_borrow_assets
           s == assets_to_debt_shares_up(0, S, T)
<1>1. r \in ReserveRecords
  BY CurrentBooks DEF Accounts, Books
<1>2. S \in Nat /\ T \in Nat /\ r.accounted_liquidity_assets \in Nat
  BY <1>1 DEF ReserveRecords, U64
<1>3. s = 0
  <2> HIDE DEF S, T
  <2>1. CASE S = 0 \/ T = 0
    BY <2>1 DEF assets_to_debt_shares_up
  <2>2. CASE S # 0 /\ T # 0
    <3>1. T \in Nat \ {0} /\ 0 * S = 0
      BY <1>2, <2>2
    <3>2. 0 \div T = 0 /\ 0 % T = 0
      BY <3>1
    <3>3. mul_div_ceil(0, S, T) = 0
      BY <3>1, <3>2 DEF mul_div_ceil
    <3> QED
      BY <2>2, <3>3 DEF assets_to_debt_shares_up
  <2> QED
    BY <2>1, <2>2
<1>4. Loan(m, a, 0).position = debtShares[m][a] + s /\ Loan(m, a, 0).reserve = AfterBorrow(r, 0, s)
  BY DEF Loan
<1> HIDE DEF r, s, S, T
<1>5. AfterBorrow(r, 0, 0) = r
  <2>1. /\ r.accounted_liquidity_assets - 0 = r.accounted_liquidity_assets
        /\ r.total_borrow_assets + 0 = r.total_borrow_assets
        /\ r.total_borrow_shares + 0 = r.total_borrow_shares
    BY <1>2 DEF S, T
  <2> QED
    BY <1>1, <2>1 DEF AfterBorrow, ReserveRecords
<1>6. debtShares[m][a] \in Nat
  BY AccountStanding
<1>7. Loan(m, a, 0).position = debtShares[m][a] /\ Loan(m, a, 0).reserve = r
  BY <1>3, <1>4, <1>5, <1>6
<1> QED
  BY <1>7 DEF r

\* lite_open moves the reserve by its loan, or to the present.
LEMMA OpenMoves ==
  ASSUME Accounts, NEW m \in Margins, NEW p, NEW a \in Strategies,
         NEW e \in Equities, NEW x \in Leverages, lite_open(m, p, a, e, x)
  PROVE  Accounts' /\ (NoEmptySlots => NoEmptySlots')
<1> DEFINE borrowed == BorrowedFor(e, x)
           loan == Loan(m, a, borrowed)
           r == loan.reserve
           k == loan.position
           D == IF borrowed > 0 THEN debtActive[m] \cup {a} ELSE debtActive[m]
           O == opened[m] \cup {a}
           V == vault[m]
           C == collActive[m]
<1>1. a \in Assets /\ borrowed \in Nat
  BY BorrowedType, LiteAssumption
<1>2. /\ m \in exists /\ Pool(a)!AccrualOK /\ OpenLoanAllowed(m, a, borrowed)
      /\ liteIndexes' = Registered(m, p)
      /\ reserve' = [reserve EXCEPT ![a] = r]
      /\ liquidity' = [liquidity EXCEPT ![a] = @ - borrowed]
      /\ debtShares' = [debtShares EXCEPT ![m][a] = k]
      /\ debtActive' = IF borrowed > 0 THEN [debtActive EXCEPT ![m] = @ \cup {a}] ELSE debtActive
      /\ opened' = [opened EXCEPT ![m] = O]
      /\ blank' = [blank EXCEPT ![m] = @ \ {a}]
      /\ UNCHANGED <<world, exists, collActive, vault>>
  BY DEF lite_open, LendingOpen
<1>3. /\ debtActive \in [Margins -> SUBSET Assets] /\ collActive \in [Margins -> SUBSET Assets]
      /\ vault \in [Margins -> [Assets -> U64]] /\ blank \in [Margins -> SUBSET Assets]
      /\ now \in Nat /\ liquidity \in [Assets -> U64]
  BY DEF Accounts, IInv, Types, Ledger, LedgerTypes, AccountTypes
<1>4. /\ k \in Nat /\ Books(r, [SharesOf(a) EXCEPT ![m] = k])
      /\ r.accounted_liquidity_assets = liquidity[a] - borrowed
      /\ r.last_update_timestamp = now
      /\ k > 0 <=> a \in D
  <2>1. CASE borrowed = 0
    <3>1. k = debtShares[m][a] /\ r = Pool(a)!Current
      BY <1>1, <1>2, <2>1, NoLoan
    <3>2. D = debtActive[m]
      BY <2>1
    <3> HIDE DEF r, k, D, borrowed
    <3>3. liquidity[a] - borrowed = liquidity[a]
      BY <1>1, <1>3, <2>1 DEF U64
    <3> QED
      BY <1>1, <1>2, <3>1, <3>2, <3>3, CurrentBooks, AccountStanding DEF Accounts
  <2>2. CASE borrowed > 0
    <3>1. /\ borrowed \in Nat \ {0} /\ borrowed <= Pool(a)!Current.accounted_liquidity_assets
          /\ Pool(a)!Current.total_borrow_assets + borrowed \in U64
      BY <1>1, <1>2, <2>2 DEF OpenLoanAllowed, LoanAllowed
    <3>2. a \in D
      BY <2>2
    <3> HIDE DEF borrowed, D
    <3>3. /\ k \in Nat /\ k > debtShares[m][a] /\ Books(r, [SharesOf(a) EXCEPT ![m] = k])
          /\ r.accounted_liquidity_assets = liquidity[a] - borrowed
          /\ r.last_update_timestamp = now
      BY <1>1, <1>2, <3>1, LoanBooks DEF Accounts
    <3>4. debtShares[m][a] \in Nat
      BY <1>1, AccountStanding
    <3> HIDE DEF r, k
    <3> QED
      BY <3>2, <3>3, <3>4
  <2> QED
    BY <1>1, <2>1, <2>2
<1>5. Cardinality(C \cup D) <= MaxAssetsPerMargin
  <2>1. CASE borrowed > 0 /\ debtShares[m][a] = 0
    <3>1. SlotsUsed(C, debtActive[m]) < MaxAssetsPerMargin
      BY <1>2, <2>1 DEF OpenLoanAllowed
    <3>2. C \cup D = C \cup debtActive[m] \cup {a}
      BY <2>1
    <3> QED
      BY <1>3, <3>1, <3>2, OneMore
  <2>2. CASE ~(borrowed > 0 /\ debtShares[m][a] = 0)
    <3>1. /\ debtShares[m][a] \in Nat /\ (debtShares[m][a] > 0 <=> a \in debtActive[m])
          /\ Cardinality(C \cup debtActive[m]) <= MaxAssetsPerMargin
      BY <1>1, AccountStanding
    <3>2. debtShares[m][a] > 0 => debtActive[m] \cup {a} = debtActive[m]
      BY <3>1
    <3> HIDE DEF borrowed, C
    <3>3. D = debtActive[m]
      BY <2>2, <3>1, <3>2
    <3> QED
      BY <3>1, <3>3
  <2> QED
    BY <2>1, <2>2
<1>6. /\ D \in SUBSET Assets /\ O \in SUBSET Assets /\ D \subseteq O
      /\ D \ {a} = debtActive[m] \ {a}
  BY <1>1, AccountStanding
<1>7. debtActive' = [debtActive EXCEPT ![m] = D]
  BY <1>2, <1>3
<1>8. liquidity' = [liquidity EXCEPT ![a] = r.accounted_liquidity_assets]
  BY <1>2, <1>4
<1>9. /\ vault' = [vault EXCEPT ![m] = V] /\ collActive' = [collActive EXCEPT ![m] = C]
      /\ V \in [Assets -> U64] /\ C \in SUBSET Assets
      /\ blank' \in [Margins -> SUBSET Assets] /\ UNCHANGED <<mode, price, assetConf, exists, now>>
      /\ \A n \in Margins \ {m} : liteIndexes'[n] = liteIndexes[n]
  BY <1>2, <1>3 DEF Registered, world
<1>10. r.last_update_timestamp <= now
  BY <1>3, <1>4
<1> HIDE DEF borrowed, loan, r, k, D, O, C, V
<1>11. MoveOK(m, a, r, k, D, O, V, C)
  BY <1>2, <1>4, <1>5, <1>6, <1>9, <1>10 DEF MoveOK
<1>12. AccountMoved(m, a, r, k, D, O, V, C)
  BY <1>2, <1>7, <1>8, <1>9 DEF AccountMoved, Moved
<1>13. Accounts' /\ (NoEmptySlots /\ Filled(V, C) => NoEmptySlots')
  BY <1>1, <1>11, <1>12, AccountMove
<1> QED
  BY <1>13 DEF NoEmptySlots, Filled, V, C
\* A pool that nothing touches moves to where it is.
LEMMA PoolStays ==
  ASSUME Accounts, NEW m \in Margins, NEW a \in Assets,
         UNCHANGED <<reserve, liquidity, debtShares, debtActive, opened, now>>
  PROVE  Moved(m, a, reserve[a], debtShares[m][a], debtActive[m], opened[m])
<1>1. /\ reserve \in [Assets -> ReserveRecords] /\ liquidity \in [Assets -> U64]
      /\ debtShares \in [Margins -> [Assets -> Nat]] /\ debtActive \in [Margins -> SUBSET Assets]
      /\ opened \in [Margins -> SUBSET Assets]
      /\ liquidity[a] = reserve[a].accounted_liquidity_assets
  BY DEF Accounts, Ledger, LedgerTypes, InOrder
<1>2. debtShares = [debtShares EXCEPT ![m][a] = debtShares[m][a]]
  <2>1. debtShares[m] = [debtShares[m] EXCEPT ![a] = debtShares[m][a]]
    BY <1>1
  <2> QED
    BY <1>1, <2>1
<1>3. /\ reserve = [reserve EXCEPT ![a] = reserve[a]]
      /\ liquidity = [liquidity EXCEPT ![a] = reserve[a].accounted_liquidity_assets]
      /\ debtActive = [debtActive EXCEPT ![m] = debtActive[m]]
      /\ opened = [opened EXCEPT ![m] = opened[m]]
  BY <1>1
<1> QED
  BY <1>2, <1>3 DEF Moved

\* What an amount taken from a vault leaves there is an amount.
LEMMA LeftType ==
  ASSUME NEW v \in U64, NEW x \in Nat, v - x >= 0
  PROVE  v - x \in U64
<1>1. v \in Nat /\ v <= MaxU64 /\ MaxU64 \in Nat
  BY ReserveMathAssumption DEF U64
<1>2. v - x \in 0..MaxU64
  BY <1>1
<1> QED
  BY <1>2 DEF U64

\* lite_supply moves tokens out of a vault, and no pool.
LEMMA SupplyMoves ==
  ASSUME Accounts, NEW m \in Margins, NEW p, NEW a \in Strategies,
         NEW x \in Supplies, NEW d, lite_supply(m, p, a, x, d)
  PROVE  Accounts' /\ (NoEmptySlots => NoEmptySlots')
<1> DEFINE left == vault[m][a] - x
           V == [vault[m] EXCEPT ![a] = left]
           C == IF left = 0 THEN collActive[m] \ {a} ELSE collActive[m]
<1>1. a \in Assets /\ x \in Nat
  BY LiteAssumption DEF U64
<1>2. /\ m \in exists /\ left >= 0
      /\ vault' = [vault EXCEPT ![m][a] = left]
      /\ collActive' = SlotAfterSupply(m, a, left)
      /\ liteIndexes' = Registered(m, p)
      /\ blank' = [blank EXCEPT ![m] = @ \cup ({a} \ opened[m])]
      /\ UNCHANGED <<world, exists, opened, unlent>>
  BY DEF lite_supply
<1>3. /\ collActive \in [Margins -> SUBSET Assets]
      /\ vault \in [Margins -> [Assets -> U64]] /\ blank \in [Margins -> SUBSET Assets]
  BY DEF Accounts, IInv, Types, AccountTypes
<1>4. UNCHANGED <<reserve, liquidity, debtShares, debtActive, opened, now>>
  BY <1>2 DEF unlent, world
<1>5. left \in U64
  BY <1>1, <1>2, <1>3, LeftType
<1>6. /\ V \in [Assets -> U64] /\ C \in SUBSET collActive[m] /\ C \in SUBSET Assets
      /\ Filled(vault[m], collActive[m]) => Filled(V, C)
  <2>1. left = 0 \/ left > 0
    BY <1>5 DEF U64
  <2> HIDE DEF left
  <2> QED
    BY <1>1, <1>3, <1>5, <2>1 DEF Filled
<1>7. vault' = [vault EXCEPT ![m] = V] /\ collActive' = [collActive EXCEPT ![m] = C]
  <2> HIDE DEF left
  <2> QED
    BY <1>1, <1>2, <1>3 DEF SlotAfterSupply
<1>8. Cardinality(C \cup debtActive[m]) <= MaxAssetsPerMargin
  <2>1. /\ Cardinality(collActive[m] \cup debtActive[m]) <= MaxAssetsPerMargin
        /\ collActive[m] \cup debtActive[m] \in SUBSET Assets
    BY <1>1, AccountStanding
  <2>2. C \cup debtActive[m] \in SUBSET (collActive[m] \cup debtActive[m])
    BY <1>6
  <2> HIDE DEF C
  <2> QED
    BY <2>1, <2>2, Fewer
<1>9. /\ blank' \in [Margins -> SUBSET Assets] /\ UNCHANGED <<mode, price, assetConf, exists>>
      /\ \A n \in Margins \ {m} : liteIndexes'[n] = liteIndexes[n]
  BY <1>1, <1>2, <1>3 DEF Registered, world
<1>10. Moved(m, a, reserve[a], debtShares[m][a], debtActive[m], opened[m])
  BY <1>1, <1>4, PoolStays
<1> HIDE DEF left, V, C
<1>11. AccountMoved(m, a, reserve[a], debtShares[m][a], debtActive[m], opened[m], V, C)
  BY <1>7, <1>9, <1>10 DEF AccountMoved
<1>12. MoveOK(m, a, reserve[a], debtShares[m][a], debtActive[m], opened[m], V, C)
  BY <1>1, <1>2, <1>6, <1>8, AccountStanding DEF MoveOK
<1>13. Accounts' /\ (NoEmptySlots /\ Filled(V, C) => NoEmptySlots')
  BY <1>1, <1>11, <1>12, AccountMove
<1> QED
  BY <1>6, <1>13 DEF NoEmptySlots, Filled

\* lite_reduce_redeem fills a vault and brings the reserve up to date.
LEMMA RedeemMoves ==
  ASSUME Accounts, LiteInv, NEW m \in Margins, NEW p, NEW bps \in Exits, lite_reduce_redeem(m, p, bps)
  PROVE  Accounts' /\ (NoEmptySlots => NoEmptySlots')
<1> DEFINE a == lite[m][p].asset
           redeemed == receipt_value(mul_div_floor(lite[m][p].receipts, bps, BasisPoints), a)
           r == Pool(a)!Current
           V == [vault[m] EXCEPT ![a] = @ + redeemed]
           C == collActive[m]
           D == debtActive[m]
           O == opened[m]
           k == debtShares[m][a]
<1>1. /\ p \in DOMAIN lite[m] /\ lite[m][p].receipts > 0
      /\ m \in exists /\ Pool(a)!AccrualOK
      /\ vault[m][a] + redeemed \in U64
      /\ reserve' = [reserve EXCEPT ![a] = r]
      /\ vault' = [vault EXCEPT ![m][a] = @ + redeemed]
      /\ UNCHANGED <<world, liquidity, exists, debtAccounts, debtShares, registry, liteIndexes>>
  BY DEF lite_reduce_redeem
<1>2. a \in Assets /\ lite[m][p].receipts \in Nat /\ rate[a] \in Nat
  BY <1>1, CrossMarginAssumption DEF LiteInv, LiteShape, PositionOK
<1>3. redeemed \in Nat
  <2>1. bps \in Nat /\ BasisPoints \in Nat \ {0}
    BY LiteAssumption, ReserveMathAssumption
  <2>2. mul_div_floor(lite[m][p].receipts, bps, BasisPoints) \in Nat
    BY <1>2, <2>1, FloorBounds
  <2> QED
    BY <1>2, <2>2, FloorBounds DEF receipt_value
<1>4. /\ debtActive \in [Margins -> SUBSET Assets] /\ collActive \in [Margins -> SUBSET Assets]
      /\ debtShares \in [Margins -> [Assets -> Nat]] /\ opened \in [Margins -> SUBSET Assets]
      /\ vault \in [Margins -> [Assets -> U64]] /\ blank \in [Margins -> SUBSET Assets]
      /\ liquidity \in [Assets -> U64] /\ now \in Nat
  BY DEF Accounts, IInv, Types, Ledger, LedgerTypes, AccountTypes
<1>5. /\ Books(r, SharesOf(a)) /\ r.accounted_liquidity_assets = liquidity[a]
      /\ r.last_update_timestamp = now
  BY <1>1, <1>2, CurrentBooks DEF Accounts
<1>6. r.last_update_timestamp <= now
  BY <1>4, <1>5
<1> HIDE DEF redeemed, r
<1>7. /\ V \in [Assets -> U64] /\ vault' = [vault EXCEPT ![m] = V]
      /\ Filled(vault[m], C) => Filled(V, C)
  <2>1. V \in [Assets -> U64] /\ vault' = [vault EXCEPT ![m] = V]
    BY <1>1, <1>2, <1>4
  <2>2. \A b \in C : vault[m][b] > 0 => V[b] > 0
    <3>1. \A b \in Assets \ {a} : V[b] = vault[m][b]
      BY <1>2, <1>4
    <3>2. V[a] = vault[m][a] + redeemed /\ vault[m][a] \in Nat
      BY <1>2, <1>4 DEF U64
    <3>3. vault[m][a] > 0 => V[a] > 0
      BY <1>3, <3>2
    <3> HIDE DEF V
    <3> QED
      BY <1>4, <3>1, <3>3
  <2> QED
    BY <2>1, <2>2 DEF Filled
<1>8. k \in Nat /\ (k > 0 <=> a \in D) /\ D \subseteq O /\ D \in SUBSET Assets /\ O \in SUBSET Assets
      /\ C \in SUBSET Assets
      /\ Cardinality(C \cup D) <= MaxAssetsPerMargin
      /\ SharesOf(a) = [SharesOf(a) EXCEPT ![m] = k]
  BY <1>2, AccountStanding
<1>9. Moved(m, a, r, k, D, O)
  <2>1. debtShares = [debtShares EXCEPT ![m][a] = k]
    <3>1. debtShares[m] = [debtShares[m] EXCEPT ![a] = k]
      BY <1>2, <1>4
    <3> QED
      BY <1>4, <3>1
  <2>2. /\ liquidity' = [liquidity EXCEPT ![a] = r.accounted_liquidity_assets]
        /\ debtActive' = [debtActive EXCEPT ![m] = D] /\ opened' = [opened EXCEPT ![m] = O]
        /\ debtShares' = debtShares /\ now' = now
    BY <1>1, <1>2, <1>4, <1>5 DEF world, registry, debtAccounts
  <2> HIDE DEF k, D, O, a
  <2> QED
    BY <1>1, <2>1, <2>2 DEF Moved
<1>10. /\ blank' \in [Margins -> SUBSET Assets] /\ UNCHANGED <<mode, price, assetConf, exists>>
       /\ \A n \in Margins \ {m} : liteIndexes'[n] = liteIndexes[n]
       /\ collActive' = [collActive EXCEPT ![m] = C]
  BY <1>1, <1>4 DEF debtAccounts, world, registry
<1> HIDE DEF a, V, C, D, O, k
<1>11. AccountMoved(m, a, r, k, D, O, V, C)
  BY <1>7, <1>9, <1>10 DEF AccountMoved
<1>12. MoveOK(m, a, r, k, D, O, V, C)
  BY <1>1, <1>5, <1>6, <1>7, <1>8 DEF MoveOK, D
<1>13. Accounts' /\ (NoEmptySlots /\ Filled(V, C) => NoEmptySlots')
  BY <1>2, <1>11, <1>12, AccountMove
<1> QED
  BY <1>7, <1>13 DEF NoEmptySlots, Filled, C
\* The repayment of an exit burns shares of the position's account, and keeps
\* the books of the reserve as it is stored.
LEMMA ExitBooks ==
  ASSUME Accounts, NEW m \in Margins, NEW position, position.asset \in Assets,
         position.shares \in Nat, position.word \in Nat, NEW bps \in Exits,
         ExitRepayment(m, position, bps).reserve.accounted_liquidity_assets \in U64
  PROVE  LET a    == position.asset
             exit == ExitRepayment(m, position, bps)
         IN  /\ exit.paid \in Nat /\ exit.burned \in 0..debtShares[m][a] /\ exit.rest \in Nat
             /\ exit.paid = 0 => exit.burned = 0
             /\ Books(exit.reserve, [SharesOf(a) EXCEPT ![m] = debtShares[m][a] - exit.burned])
             /\ exit.reserve.accounted_liquidity_assets = liquidity[a] + exit.paid
             /\ exit.reserve.last_update_timestamp = reserve[a].last_update_timestamp
<1> DEFINE a == position.asset
           r == reserve[a]
           S == r.total_borrow_shares
           T == r.total_borrow_assets
           h == debtShares[m][a]
           attributed == debt_shares(position, h)
           target == mul_div_ceil(attributed, bps, BasisPoints)
           due == debt_shares_to_assets_up(target, S, T)
           paid == MinOf(due, position.word)
           burned == IF paid = 0 THEN 0 ELSE DebtSharesBurned(r, target, due, paid)
           after == AfterRepay(r, due, paid, burned)
           exit == ExitRepayment(m, position, bps)
<1>1. exit = [paid |-> paid, burned |-> burned, rest |-> attributed - target, reserve |-> after]
  BY DEF ExitRepayment
<1>0. a \in Assets
  OBVIOUS
<1> HIDE DEF a
<1>2. /\ h \in Nat /\ r \in ReserveRecords /\ Books(r, SharesOf(a))
      /\ SharesOf(a)[m] = h /\ SharesOf(a) = [SharesOf(a) EXCEPT ![m] = h]
      /\ liquidity[a] = r.accounted_liquidity_assets
  BY <1>0, AccountStanding
<1>3. S \in Nat /\ T \in Nat /\ S <= T /\ h <= S /\ r.accounted_liquidity_assets \in Nat
  BY <1>2, BooksBound DEF Books, ReserveRecords, U64
<1>4. attributed \in Nat /\ attributed <= h
  BY <1>2 DEF debt_shares, MinOf
<1>5. target \in Nat /\ target <= attributed
  <2>1. BasisPoints \in Nat \ {0} /\ bps \in Nat /\ bps <= BasisPoints
    BY LiteAssumption, ReserveMathAssumption
  <2> HIDE DEF attributed
  <2> QED
    BY <1>4, <2>1, CeilBounds, CeilShrinks
<1> HIDE DEF attributed, target, S, T, h
<1>6. target <= h /\ target <= S /\ attributed - target \in Nat
  BY <1>2, <1>3, <1>4, <1>5
<1>7. due \in Nat
  BY <1>3, <1>5, <1>6, OwedBounds
<1> HIDE DEF due
<1>8. paid \in Nat /\ paid <= due
  BY <1>7 DEF MinOf
<1>9. /\ after.accounted_liquidity_assets = r.accounted_liquidity_assets + paid
      /\ after.last_update_timestamp = r.last_update_timestamp
  BY <1>2 DEF AfterRepay, ReserveRecords
<1>10. CASE paid = 0
  <2>1. burned = 0
    BY <1>10
  <2>2. MinOf(0, due) = 0 /\ SaturatingSub(T, 0) = T /\ SaturatingSub(S, 0) = S
    BY <1>3, <1>7 DEF MinOf, SaturatingSub
  <2>3. AfterRepay(r, due, 0, 0) = r
    <3>1. r.accounted_liquidity_assets + 0 = r.accounted_liquidity_assets
      BY <1>3
    <3>2. AfterRepay(r, due, 0, 0) =
            [r EXCEPT !.accounted_liquidity_assets = r.accounted_liquidity_assets,
                      !.total_borrow_assets = T, !.total_borrow_shares = S]
      BY <2>2, <3>1 DEF AfterRepay, S, T
    <3> QED
      BY <1>2, <3>2 DEF ReserveRecords, S, T
  <2>4. after = r
    BY <1>10, <2>1, <2>3
  <2> HIDE DEF after, burned, paid
  <2>5. h - burned = h /\ burned \in 0..h
    BY <1>2, <2>1
  <2> QED
    BY <1>1, <1>2, <1>6, <1>8, <1>9, <1>10, <2>1, <2>4, <2>5 DEF h, a
<1>11. CASE paid > 0
  <2>1. burned = DebtSharesBurned(r, target, due, paid)
    BY <1>11
  <2>2. target \in 0..SharesOf(a)[m]
    BY <1>2, <1>5, <1>6
  <2>3. due > 0
    BY <1>7, <1>8, <1>11
  <2>4. r.accounted_liquidity_assets + paid \in U64
    BY <1>1, <1>9
  <2> HIDE DEF paid
  <2>5. LET b == DebtSharesBurned(r, target, due, paid)
            f == AfterRepay(r, due, paid, b)
        IN  /\ b \in 0..target
            /\ Books(f, [SharesOf(a) EXCEPT ![m] = SharesOf(a)[m] - b])
    BY <1>2, <1>8, <2>2, <2>3, <2>4, BooksPay DEF due, S, T
  <2>6. /\ burned \in 0..target
        /\ Books(after, [SharesOf(a) EXCEPT ![m] = h - burned])
    BY <1>2, <2>1, <2>5
  <2> HIDE DEF after, burned
  <2>7. burned \in 0..h
    BY <1>2, <1>5, <1>6, <2>6
  <2> QED
    BY <1>1, <1>2, <1>6, <1>8, <1>9, <1>11, <2>6, <2>7 DEF h, a
<1> QED
  BY <1>8, <1>10, <1>11 DEF a

\* lite_reduce_repay takes the remembered amount from a vault and burns shares.
LEMMA RepayMoves ==
  ASSUME Accounts, LiteInv, NEW m \in Margins, NEW p, NEW bps \in Exits, lite_reduce_repay(m, p, bps),
         lite[m][p].shares \in Nat, lite[m][p].word \in Nat
  PROVE  Accounts'
<1> DEFINE position == lite[m][p]
           a == position.asset
           exit == ExitRepayment(m, position, bps)
           left == vault[m][a] - position.word
           r == exit.reserve
           k == debtShares[m][a] - exit.burned
           D == IF exit.paid > 0 /\ k = 0 THEN debtActive[m] \ {a} ELSE debtActive[m]
           O == opened[m]
           V == [vault[m] EXCEPT ![a] = left]
           C == collActive[m]
<1>1. /\ p \in DOMAIN lite[m] /\ m \in exists /\ left >= 0
      /\ r.accounted_liquidity_assets \in U64
      /\ vault' = [vault EXCEPT ![m][a] = left]
      /\ reserve' = [reserve EXCEPT ![a] = r]
      /\ liquidity' = [liquidity EXCEPT ![a] = @ + exit.paid]
      /\ debtShares' = [debtShares EXCEPT ![m][a] = k]
      /\ debtActive' = IF exit.paid > 0 /\ k = 0
                         THEN [debtActive EXCEPT ![m] = @ \ {a}] ELSE debtActive
      /\ UNCHANGED <<world, exists, debtAccounts, collActive>>
  BY DEF lite_reduce_repay
<1>2. StoredOrClosed(m, p, [position EXCEPT !.shares = exit.rest, !.word = 0, !.pending = FALSE], bps)
  BY DEF lite_reduce_repay
<1>3. a \in Assets /\ liteIndexes \in [Margins -> SUBSET Assets]
  BY <1>1 DEF LiteInv, LiteShape, PositionOK
<1>4. /\ debtActive \in [Margins -> SUBSET Assets] /\ collActive \in [Margins -> SUBSET Assets]
      /\ debtShares \in [Margins -> [Assets -> Nat]] /\ opened \in [Margins -> SUBSET Assets]
      /\ vault \in [Margins -> [Assets -> U64]] /\ blank \in [Margins -> SUBSET Assets]
      /\ liquidity \in [Assets -> U64] /\ now \in Nat
  BY DEF Accounts, IInv, Types, Ledger, LedgerTypes, AccountTypes
<1>5. /\ exit.paid \in Nat /\ exit.burned \in 0..debtShares[m][a]
      /\ exit.paid = 0 => exit.burned = 0
      /\ Books(r, [SharesOf(a) EXCEPT ![m] = k])
      /\ r.accounted_liquidity_assets = liquidity[a] + exit.paid
      /\ r.last_update_timestamp = reserve[a].last_update_timestamp
  BY <1>1, <1>3, ExitBooks
<1>6. /\ debtShares[m][a] \in Nat /\ vault[m][a] \in U64 /\ debtActive[m] \in SUBSET Assets
      /\ O \in SUBSET Assets /\ C \in SUBSET Assets /\ debtActive[m] \subseteq O
      /\ debtShares[m][a] > 0 <=> a \in debtActive[m]
      /\ Cardinality(C \cup debtActive[m]) <= MaxAssetsPerMargin
      /\ reserve[a].last_update_timestamp <= now
  BY <1>3, AccountStanding
<1>7. left \in U64
  <2>1. vault[m][a] - position.word >= 0
    BY <1>1
  <2> QED
    BY <1>6, <2>1, LeftType
<1> HIDE DEF left, r, exit
<1>8. k \in Nat /\ (k > 0 <=> a \in D)
  <2>1. k \in Nat /\ k <= debtShares[m][a] /\ (exit.paid = 0 => k = debtShares[m][a])
    BY <1>5, <1>6
  <2>2. a \in D <=> a \in debtActive[m] /\ ~(exit.paid > 0 /\ k = 0)
    OBVIOUS
  <2> HIDE DEF k, D
  <2> QED
    BY <1>5, <1>6, <2>1, <2>2
<1>9. D \in SUBSET debtActive[m] /\ D \in SUBSET Assets /\ D \subseteq O /\ D \ {a} = debtActive[m] \ {a}
  BY <1>6
<1>10. Cardinality(C \cup D) <= MaxAssetsPerMargin
  <2>1. C \cup debtActive[m] \in SUBSET Assets /\ C \cup D \in SUBSET (C \cup debtActive[m])
    BY <1>6, <1>9
  <2> HIDE DEF C, D
  <2> QED
    BY <1>6, <2>1, Fewer
<1>11. V \in [Assets -> U64] /\ vault' = [vault EXCEPT ![m] = V]
  BY <1>1, <1>3, <1>4, <1>7
<1>12. /\ debtActive' = [debtActive EXCEPT ![m] = D] /\ opened' = [opened EXCEPT ![m] = O]
       /\ liquidity' = [liquidity EXCEPT ![a] = r.accounted_liquidity_assets] /\ now' = now
  <2>1. debtActive' = [debtActive EXCEPT ![m] = D]
    BY <1>1, <1>4
  <2> HIDE DEF D, k, a
  <2> QED
    BY <1>1, <1>3, <1>4, <1>5, <2>1 DEF world, debtAccounts
<1>13. Moved(m, a, r, k, D, O)
  BY <1>1, <1>12 DEF Moved
<1>14. /\ blank' \in [Margins -> SUBSET Assets] /\ UNCHANGED <<mode, price, assetConf, exists>>
       /\ \A n \in Margins \ {m} : liteIndexes'[n] = liteIndexes[n]
       /\ collActive' = [collActive EXCEPT ![m] = C]
  <2>1. \A n \in Margins \ {m} : liteIndexes'[n] = liteIndexes[n]
    BY <1>2, <1>3 DEF StoredOrClosed
  <2> QED
    BY <1>1, <1>4, <2>1 DEF debtAccounts, world
<1> HIDE DEF position, a, V, C, D, O, k
<1>15. AccountMoved(m, a, r, k, D, O, V, C)
  BY <1>11, <1>13, <1>14 DEF AccountMoved
<1>16. r.last_update_timestamp <= now
  BY <1>5, <1>6
<1>17. MoveOK(m, a, r, k, D, O, V, C)
  BY <1>1, <1>5, <1>6, <1>8, <1>9, <1>10, <1>11, <1>16 DEF MoveOK, k
<1> QED
  BY <1>3, <1>15, <1>17, AccountMove
\* The repayment of an exit across two assets settles with the pool, or only
\* brings it up to date, and its books are kept.
LEMMA UnwindBooks ==
  ASSUME Accounts, NEW m \in Margins, NEW s \in Assets, NEW stock \in U64, Pool(s)!AccrualOK,
         LET leg == UnwindRepayment(m, s, stock)
         IN  leg.sent > 0 => Pool(s)!SettlementSucceeds(m, leg.settlement)
  PROVE  LET leg     == UnwindRepayment(m, s, stock)
             settled == leg.settlement
         IN  /\ leg.sent \in 0..stock /\ settled.received \in Nat
             /\ settled.shares \in Nat /\ settled.shares <= debtShares[m][s]
             /\ leg.sent = 0 => settled.shares = debtShares[m][s]
             /\ Books(settled.reserve, [SharesOf(s) EXCEPT ![m] = settled.shares])
             /\ settled.reserve.accounted_liquidity_assets = liquidity[s] + settled.received
             /\ settled.reserve.last_update_timestamp = now
<1> DEFINE owed == Pool(s)!Owed(m)
           sent == MinOf(owed, stock)
           leg == UnwindRepayment(m, s, stock)
<1>1. IInv /\ Ledger
  BY DEF Accounts
<1>2. owed \in Nat
  BY <1>1, OwedType DEF IInv, Types
<1>3. sent \in 0..stock /\ sent \in U64
  <2> HIDE DEF owed
  <2> QED
    BY <1>2, PartOf
<1>4. /\ debtShares[m][s] \in Nat /\ SharesOf(s) = [SharesOf(s) EXCEPT ![m] = debtShares[m][s]]
      /\ liquidity[s] = reserve[s].accounted_liquidity_assets /\ reserve[s] \in ReserveRecords
  BY AccountStanding
<1>5. CASE sent = 0
  <2>1. leg = [sent |-> sent, settlement |-> [received |-> 0, shares |-> debtShares[m][s],
                                              reserve |-> Pool(s)!Current]]
    BY <1>5 DEF UnwindRepayment
  <2>2. /\ Books(Pool(s)!Current, SharesOf(s))
        /\ Pool(s)!Current.accounted_liquidity_assets = liquidity[s]
        /\ Pool(s)!Current.last_update_timestamp = now
    BY <1>1, CurrentBooks
  <2>3. liquidity[s] + 0 = liquidity[s]
    BY <1>4 DEF ReserveRecords, U64
  <2> HIDE DEF sent
  <2> QED
    BY <1>3, <1>4, <2>1, <2>2, <2>3
<1>6. CASE sent > 0
  <2>1. leg = [sent |-> sent, settlement |-> Pool(s)!Settlement(m, sent, owed)]
    BY <1>6 DEF UnwindRepayment
  <2>2. owed > 0
    <3>1. stock \in Nat
      BY DEF U64
    <3> HIDE DEF owed
    <3> QED
      BY <1>2, <1>6, <3>1 DEF MinOf
  <2>3. PICK t \in U64 : t = sent
    BY <1>3
  <2>4. t > 0 /\ leg.settlement = Pool(s)!Settlement(m, t, owed) /\ leg.sent = t
    BY <1>6, <2>1, <2>3
  <2>5. Pool(s)!SettlementSucceeds(m, leg.settlement)
    BY <2>4
  <2>6. Pool(s)!SettlementSucceeds(m, Pool(s)!Settlement(m, t, owed))
    BY <2>4, <2>5 DEF Pool!SettlementSucceeds
  <2> HIDE DEF leg, sent
  <2>7. LET v == Pool(s)!Settlement(m, t, owed)
        IN  /\ v.shares \in Nat /\ v.shares <= debtShares[m][s] /\ v.received \in Nat
            /\ Books(v.reserve, [SharesOf(s) EXCEPT ![m] = v.shares])
            /\ v.reserve.accounted_liquidity_assets = liquidity[s] + v.received
            /\ v.reserve.last_update_timestamp = now
    BY <1>1, <2>2, <2>6, SettlementBooks
  <2> QED
    BY <1>3, <1>6, <2>3, <2>4, <2>7 DEF leg
<1>7. sent = 0 \/ sent > 0
  BY <1>3 DEF U64
<1> QED
  BY <1>5, <1>6, <1>7

\* The slots an exit across two assets takes are not more than there are.
LEMMA UnwindSlots ==
  ASSUME NEW C \in SUBSET Assets, NEW D \in SUBSET Assets, NEW s \in Assets, NEW y \in Assets,
         NEW u, NEW v, Cardinality(C \cup D) <= MaxAssetsPerMargin,
         LET withS == WithSlot(C, s, u)
             withY == WithSlot(withS, y, v)
         IN  /\ withS # C => SlotsUsed(C, D) < MaxAssetsPerMargin
             /\ withY # withS => SlotsUsed(withS, D) < MaxAssetsPerMargin
  PROVE  LET withY == WithSlot(WithSlot(C, s, u), y, v)
         IN  withY \in SUBSET Assets /\ Cardinality(withY \cup D) <= MaxAssetsPerMargin
<1> DEFINE withS == WithSlot(C, s, u)
           withY == WithSlot(withS, y, v)
<1>1. withS \in SUBSET Assets /\ (withS # C => withS = C \cup {s})
  BY DEF WithSlot
<1>2. withY \in SUBSET Assets /\ (withY # withS => withY = withS \cup {y})
  <2> HIDE DEF withS
  <2> QED
    BY <1>1 DEF WithSlot
<1>3. Cardinality(withS \cup D) <= MaxAssetsPerMargin
  <2>1. CASE withS = C
    BY <2>1
  <2>2. CASE withS # C
    <3>1. SlotsUsed(C, D) < MaxAssetsPerMargin
      BY <2>2
    <3>2. withS \cup D = C \cup D \cup {s}
      BY <1>1, <2>2
    <3> HIDE DEF withS
    <3> QED
      BY <3>1, <3>2, OneMore
  <2> QED
    BY <2>1, <2>2
<1>4. Cardinality(withY \cup D) <= MaxAssetsPerMargin
  <2>1. CASE withY = withS
    BY <1>3, <2>1
  <2>2. CASE withY # withS
    <3>1. SlotsUsed(withS, D) < MaxAssetsPerMargin
      BY <2>2
    <3>2. withY \cup D = withS \cup D \cup {y}
      BY <1>2, <2>2
    <3> HIDE DEF withS, withY
    <3> QED
      BY <1>1, <3>1, <3>2, OneMore
  <2> QED
    BY <2>1, <2>2
<1> QED
  BY <1>2, <1>4
\* lite_reduce_and_repay changes two vaults, one debt and the slots of both.
LEMMA UnwindMoves ==
  ASSUME Accounts, LiteInv, NEW m \in Margins, NEW p, NEW s \in Assets, NEW bps \in Exits,
         NEW out, NEW extra \in {0, 1}, lite_reduce_and_repay(m, p, s, bps, out, extra)
  PROVE  Accounts'
<1> DEFINE y == lite[m][p].asset
           leg1 == UnwindRedemption(m, p, bps)
           leg2 == UnwindSwap(m, y, s, leg1.redeemed, out, extra)
           leg3 == UnwindRepayment(m, s, leg2.stock)
           settled == leg3.settlement
           newVault == [vault EXCEPT ![m][y] = leg2.yieldLeft, ![m][s] = leg2.stock - leg3.sent]
           r == settled.reserve
           k == settled.shares
           D == IF leg3.sent > 0 /\ k = 0 THEN debtActive[m] \ {s} ELSE debtActive[m]
           O == opened[m]
           withS == WithSlot(collActive[m], s, leg2.stock)
           C == WithSlot(withS, y, leg2.yieldSeen)
           V == [vault[m] EXCEPT ![y] = leg2.yieldLeft, ![s] = leg2.stock - leg3.sent]
<1>1. /\ m \in exists /\ p \in DOMAIN lite[m] /\ y # s /\ Pool(s)!AccrualOK
      /\ extra <= leg1.redeemed
      /\ {vault[m][y] + leg1.redeemed, leg2.stock} \subseteq U64
      /\ leg3.sent > 0 => Pool(s)!SettlementSucceeds(m, settled)
      /\ withS # collActive[m] => SlotsUsed(collActive[m], D) < MaxAssetsPerMargin
      /\ C # withS => SlotsUsed(withS, D) < MaxAssetsPerMargin
      /\ vault' = newVault
      /\ reserve' = [reserve EXCEPT ![s] = r]
      /\ liquidity' = [liquidity EXCEPT ![s] = @ + settled.received]
      /\ debtShares' = [debtShares EXCEPT ![m][s] = k]
      /\ debtActive' = [debtActive EXCEPT ![m] = D]
      /\ collActive' = [collActive EXCEPT ![m] = C]
      /\ StoredOrClosed(m, p, Reduced(lite[m][p], leg1.burned), bps)
      /\ UNCHANGED <<world, exists, debtAccounts>>
  <2>1. /\ m \in exists /\ p \in DOMAIN lite[m] /\ y # s /\ Pool(s)!AccrualOK
    BY Zenon DEF lite_reduce_and_repay, UnwindAllowed
  <2>2. /\ extra <= leg1.redeemed
        /\ {vault[m][y] + leg1.redeemed, leg2.stock} \subseteq U64
        /\ StoredOrClosed(m, p, Reduced(lite[m][p], leg1.burned), bps)
        /\ vault' = newVault
        /\ UNCHANGED <<world, exists, debtAccounts>>
    BY Zenon DEF lite_reduce_and_repay
  <2>3. leg3.sent > 0 => Pool(s)!SettlementSucceeds(m, settled)
    BY Zenon DEF lite_reduce_and_repay
  <2>4. /\ withS # collActive[m] => SlotsUsed(collActive[m], D) < MaxAssetsPerMargin
        /\ C # withS => SlotsUsed(withS, D) < MaxAssetsPerMargin
    BY Zenon DEF lite_reduce_and_repay
  <2>5. /\ reserve' = [reserve EXCEPT ![s] = r]
        /\ liquidity' = [liquidity EXCEPT ![s] = @ + settled.received]
        /\ debtShares' = [debtShares EXCEPT ![m][s] = k]
    BY Zenon DEF lite_reduce_and_repay
  <2>6. debtActive' = [debtActive EXCEPT ![m] = D] /\ collActive' = [collActive EXCEPT ![m] = C]
    BY Zenon DEF lite_reduce_and_repay
  <2> HIDE DEF y, leg1, leg2, leg3, settled, newVault, r, k, D, withS, C
  <2> QED
    BY <2>1, <2>2, <2>3, <2>4, <2>5, <2>6
<1>2. /\ y \in Assets /\ lite[m][p].receipts \in Nat /\ rate[y] \in Nat
      /\ liteIndexes \in [Margins -> SUBSET Assets]
  BY <1>1, CrossMarginAssumption DEF LiteInv, LiteShape, PositionOK
<1>3. /\ debtActive \in [Margins -> SUBSET Assets] /\ collActive \in [Margins -> SUBSET Assets]
      /\ debtShares \in [Margins -> [Assets -> Nat]] /\ opened \in [Margins -> SUBSET Assets]
      /\ vault \in [Margins -> [Assets -> U64]] /\ blank \in [Margins -> SUBSET Assets]
      /\ liquidity \in [Assets -> U64] /\ now \in Nat
  BY DEF Accounts, IInv, Types, Ledger, LedgerTypes, AccountTypes
<1>4. leg2.yieldLeft \in U64
  <2>1. leg2.yieldLeft = vault[m][y] + Pool(y)!Delivered(extra)
    BY DEF UnwindSwap
  <2>2. vault[m][y] \in Nat /\ vault[m][y] + leg1.redeemed \in U64 /\ extra \in Nat
    <3> HIDE DEF leg1, leg2, y
    <3>1. vault[m][y] \in U64 /\ vault[m][y] + leg1.redeemed \in U64
      BY <1>1, <1>2, <1>3
    <3> QED
      BY <3>1 DEF U64
  <2>3. leg1.redeemed \in Nat
    <3>1. bps \in Nat /\ BasisPoints \in Nat \ {0}
      BY LiteAssumption, ReserveMathAssumption
    <3>2. leg1.burned \in Nat
      BY <1>2, <3>1, FloorBounds DEF UnwindRedemption
    <3>3. leg1.redeemed = receipt_value(leg1.burned, y)
      BY DEF UnwindRedemption
    <3> HIDE DEF leg1, y
    <3> QED
      BY <1>2, <3>2, <3>3, FloorBounds DEF receipt_value
  <2> HIDE DEF leg1, leg2
  <2>4. extra \in U64 /\ MaxU64 \in Nat
    BY <1>1, <2>2, <2>3, ReserveMathAssumption DEF U64
  <2>5. Pool(y)!Delivered(extra) \in 0..extra
    BY <1>2, <2>4, DeliveredType
  <2> DEFINE t == Pool(y)!Delivered(extra)
             v == vault[m][y]
             w == leg1.redeemed
  <2>6. t \in 0..extra /\ v \in Nat /\ w \in Nat /\ v + w <= MaxU64 /\ leg2.yieldLeft = v + t
    BY <2>1, <2>2, <2>3, <2>5 DEF U64
  <2> HIDE DEF t, v
  <2>7. extra <= w
    BY <1>1
  <2> HIDE DEF w
  <2> QED
    BY <2>2, <2>4, <2>6, <2>7 DEF U64
<1>5. PICK stock \in U64 : stock = leg2.stock
  BY <1>1
<1>6. leg3 = UnwindRepayment(m, s, stock)
  BY <1>5
<1> HIDE DEF leg1, leg2, leg3
<1>7. LET leg == UnwindRepayment(m, s, stock)
      IN  leg.sent > 0 => Pool(s)!SettlementSucceeds(m, leg.settlement)
  BY <1>1, <1>6 DEF Pool!SettlementSucceeds
<1>8. LET leg == UnwindRepayment(m, s, stock)
          v == leg.settlement
      IN  /\ leg.sent \in 0..stock /\ v.received \in Nat
          /\ v.shares \in Nat /\ v.shares <= debtShares[m][s]
          /\ leg.sent = 0 => v.shares = debtShares[m][s]
          /\ Books(v.reserve, [SharesOf(s) EXCEPT ![m] = v.shares])
          /\ v.reserve.accounted_liquidity_assets = liquidity[s] + v.received
          /\ v.reserve.last_update_timestamp = now
  BY <1>1, <1>7, UnwindBooks
<1>9. /\ leg3.sent \in 0..stock /\ settled.received \in Nat
      /\ k \in Nat /\ k <= debtShares[m][s]
      /\ leg3.sent = 0 => k = debtShares[m][s]
      /\ Books(r, [SharesOf(s) EXCEPT ![m] = k])
      /\ r.accounted_liquidity_assets = liquidity[s] + settled.received
      /\ r.last_update_timestamp = now
  BY <1>6, <1>8
<1>10. /\ debtShares[m][s] \in Nat /\ debtActive[m] \in SUBSET Assets
       /\ O \in SUBSET Assets /\ collActive[m] \in SUBSET Assets /\ debtActive[m] \subseteq O
       /\ debtShares[m][s] > 0 <=> s \in debtActive[m]
       /\ Cardinality(collActive[m] \cup debtActive[m]) <= MaxAssetsPerMargin
  BY AccountStanding
<1> HIDE DEF settled
<1>11. k > 0 <=> s \in D
  <2>1. s \in D <=> s \in debtActive[m] /\ ~(leg3.sent > 0 /\ k = 0)
    OBVIOUS
  <2>2. leg3.sent > 0 \/ leg3.sent = 0
    BY <1>9
  <2> HIDE DEF k, D
  <2> QED
    BY <1>9, <1>10, <2>1, <2>2
<1>12. D \in SUBSET debtActive[m] /\ D \in SUBSET Assets /\ D \subseteq O /\ D \ {s} = debtActive[m] \ {s}
  BY <1>10
<1> HIDE DEF D, r, k
<1>13. C \in SUBSET Assets /\ Cardinality(C \cup D) <= MaxAssetsPerMargin
  <2>1. collActive[m] \cup debtActive[m] \in SUBSET Assets
        /\ collActive[m] \cup D \in SUBSET (collActive[m] \cup debtActive[m])
    BY <1>10, <1>12
  <2>2. Cardinality(collActive[m] \cup D) <= MaxAssetsPerMargin
    BY <1>10, <2>1, Fewer
  <2> QED
    BY <1>1, <1>2, <1>10, <1>12, <2>2, UnwindSlots
<1>14. leg2.stock - leg3.sent \in U64
  BY <1>5, <1>9, RestOf
<1>15. V \in [Assets -> U64] /\ vault' = [vault EXCEPT ![m] = V]
  <2> HIDE DEF y, C
  <2> QED
    BY <1>1, <1>2, <1>3, <1>4, <1>14
<1>16. /\ opened' = [opened EXCEPT ![m] = O] /\ now' = now
       /\ liquidity' = [liquidity EXCEPT ![s] = r.accounted_liquidity_assets]
  BY <1>1, <1>3, <1>9 DEF world, debtAccounts
<1>17. Moved(m, s, r, k, D, O)
  BY <1>1, <1>16 DEF Moved
<1>18. /\ blank' \in [Margins -> SUBSET Assets] /\ UNCHANGED <<mode, price, assetConf, exists>>
       /\ \A n \in Margins \ {m} : liteIndexes'[n] = liteIndexes[n]
  <2>1. \A n \in Margins \ {m} : liteIndexes'[n] = liteIndexes[n]
    BY <1>1, <1>2 DEF StoredOrClosed
  <2> QED
    BY <1>1, <1>3, <2>1 DEF debtAccounts, world
<1> HIDE DEF y, V, C, O
<1>19. AccountMoved(m, s, r, k, D, O, V, C)
  BY <1>1, <1>15, <1>17, <1>18 DEF AccountMoved
<1>20. r.last_update_timestamp <= now
  BY <1>3, <1>9
<1>21. MoveOK(m, s, r, k, D, O, V, C)
  BY <1>1, <1>9, <1>10, <1>11, <1>12, <1>13, <1>15, <1>20 DEF MoveOK, O
<1> QED
  BY <1>19, <1>21, AccountMove
-----------------------------------------------------------------------------
(* Positions through the Lite instructions *)

\* A whole record is one whose word fits.
LEMMA WholeRecord ==
  ASSUME NEW W, Fits(W), NEW position \in LiteRecords
  PROVE  position \in RecordsOf(W)
BY DEF Fits, LiteRecords, RecordsOf

\* An exit takes a part of the receipts and of the cost basis.
LEMMA ReducedRecord ==
  ASSUME NEW W, NEW position \in RecordsOf(W), position.receipts > 0, NEW bps \in Exits
  PROVE  LET burned == mul_div_floor(position.receipts, bps, BasisPoints)
         IN  burned \in 0..position.receipts /\ Reduced(position, burned) \in RecordsOf(W)
<1> DEFINE R == position.receipts
           burned == mul_div_floor(R, bps, BasisPoints)
           Less(x) == mul_div_floor(x, burned, R)
<1>1. BasisPoints \in Nat \ {0} /\ bps \in Nat /\ bps <= BasisPoints
  BY LiteAssumption, ReserveMathAssumption
<1>2. R \in U64 /\ position.deposited \in U64 /\ position.equity \in U64
  BY DEF RecordsOf
<1>3. R \in Nat \ {0} /\ MaxU64 \in Nat /\ R <= MaxU64
  BY <1>2, ReserveMathAssumption DEF U64
<1>4. burned \in Nat /\ burned <= R
  <2> HIDE DEF R
  <2> QED
    BY <1>1, <1>3, FloorBounds, FloorShrinks
<1> HIDE DEF burned
<1>5. ASSUME NEW x \in U64 PROVE x - Less(x) \in U64
  <2>1. x \in Nat /\ x <= MaxU64
    BY <1>3 DEF U64
  <2> HIDE DEF R
  <2>2. Less(x) \in Nat /\ Less(x) <= x
    BY <1>3, <1>4, <2>1, FloorBounds, FloorShrinks
  <2> HIDE DEF Less
  <2> QED
    BY <1>3, <2>1, <2>2 DEF U64
<1>6. R - burned \in U64 /\ burned \in 0..R
  <2> HIDE DEF R
  <2> QED
    BY <1>3, <1>4 DEF U64
<1>7. position.deposited - Less(position.deposited) \in U64
      /\ position.equity - Less(position.equity) \in U64
  BY <1>2, <1>5
<1>8. Reduced(position, burned) \in RecordsOf(W)
  BY <1>6, <1>7 DEF Reduced, RecordsOf
<1> QED
  BY <1>6, <1>8 DEF burned

\* What one step does with the positions of one account and with its receipts.
PlacesMove(W, m, p, position) ==
  /\ (StoresAt(m, p, position) /\ position \in RecordsOf(W)) \/ ClosesAt(m, p)
  /\ \/ receipts' = receipts
     \/ \E b \in Assets, v \in U64 : receipts' = [receipts EXCEPT ![m][b] = v]

\* Positions and receipts keep their types when one position is stored or closed.
LEMMA PlacesKept ==
  ASSUME NEW W, LiteInv, LitePlaces(W), NEW m \in Margins, NEW p, NEW position,
         PlacesMove(W, m, p, position)
  PROVE  LitePlaces(W)'
<1>1. DOMAIN lite = Margins /\ receipts \in [Margins -> [Assets -> U64]]
  BY DEF LiteInv, LiteShape, LitePlaces
<1>2. receipts' \in [Margins -> [Assets -> U64]]
  <2>1. ASSUME NEW b \in Assets, NEW v \in U64, receipts' = [receipts EXCEPT ![m][b] = v]
        PROVE  receipts' \in [Margins -> [Assets -> U64]]
    <3>1. [receipts[m] EXCEPT ![b] = v] \in [Assets -> U64]
      BY <1>1, <2>1
    <3>2. receipts' = [receipts EXCEPT ![m] = [receipts[m] EXCEPT ![b] = v]]
      BY <2>1
    <3> QED
      BY <1>1, <3>1, <3>2
  <2> QED
    BY <1>1, <2>1 DEF PlacesMove
<1>3. ASSUME NEW n \in Margins, NEW q \in DOMAIN lite'[n] PROVE lite'[n][q] \in RecordsOf(W)
  <2>1. CASE StoresAt(m, p, position) /\ position \in RecordsOf(W)
    <3>1. lite' = [lite EXCEPT ![m] = [z \in DOMAIN @ \cup {p} |-> IF z = p THEN position ELSE @[z]]]
      BY <2>1 DEF StoresAt, Stored
    <3>2. CASE n = m
      <4>1. lite'[n] = [z \in DOMAIN lite[m] \cup {p} |-> IF z = p THEN position ELSE lite[m][z]]
        BY <1>1, <3>1, <3>2
      <4> QED
        BY <1>3, <2>1, <4>1 DEF LitePlaces
    <3>3. CASE n # m
      BY <1>1, <1>3, <3>1, <3>3 DEF LitePlaces
    <3> QED
      BY <3>2, <3>3
  <2>2. CASE ClosesAt(m, p)
    <3>1. lite' = [lite EXCEPT ![m] = Restrict(@, DOMAIN @ \ {p})]
      BY <2>2 DEF ClosesAt
    <3>2. CASE n = m
      <4>1. lite'[n] = [z \in DOMAIN lite[m] \ {p} |-> lite[m][z]]
        BY <1>1, <3>1, <3>2 DEF Restrict
      <4> QED
        BY <1>3, <4>1 DEF LitePlaces
    <3>3. CASE n # m
      BY <1>1, <1>3, <3>1, <3>3 DEF LitePlaces
    <3> QED
      BY <3>2, <3>3
  <2> QED
    BY <2>1, <2>2 DEF PlacesMove
<1> QED
  BY <1>2, <1>3 DEF LitePlaces

\* lite_open and lite_supply store whole records.
LEMMA OpenPlaces ==
  ASSUME NEW W, Fits(W), LiteInv, LitePlaces(W), NEW m \in Margins, NEW p, NEW a \in Strategies,
         NEW e, NEW x, lite_open(m, p, a, e, x)
  PROVE  LitePlaces(W)'
<1> DEFINE v == receipts[m][a] + Minted(e + BorrowedFor(e, x), a)
<1>1. PICK position \in LiteRecords : StoresAt(m, p, position)
  BY OpenStores
<1>2. v \in U64 /\ receipts' = [receipts EXCEPT ![m][a] = v] /\ a \in Assets
  BY LiteAssumption DEF lite_open
<1> HIDE DEF v
<1>3. PlacesMove(W, m, p, position)
  BY <1>1, <1>2, WholeRecord DEF PlacesMove
<1> QED
  BY <1>3, PlacesKept

\* A supply, which checks no health, keeps positions within their word, too.
LEMMA SupplyPlaces ==
  ASSUME NEW W, Fits(W), LiteInv, LitePlaces(W), NEW m \in Margins, NEW p, NEW a \in Strategies,
         NEW x, NEW d, lite_supply(m, p, a, x, d)
  PROVE  LitePlaces(W)'
<1> DEFINE v == receipts[m][a] + Minted(x, a)
<1>1. PICK position \in LiteRecords : StoresAt(m, p, position)
  BY SupplyStores
<1>2. v \in U64 /\ receipts' = [receipts EXCEPT ![m][a] = v] /\ a \in Assets
  BY LiteAssumption DEF lite_supply
<1> HIDE DEF v
<1>3. PlacesMove(W, m, p, position)
  BY <1>1, <1>2, WholeRecord DEF PlacesMove
<1> QED
  BY <1>3, PlacesKept

\* lite_reduce_redeem remembers an amount that fits the vault.
LEMMA RedeemPlaces ==
  ASSUME NEW W, Fits(W), Accounts, LiteInv, LitePlaces(W), NEW m \in Margins, NEW p,
         NEW bps \in Exits, lite_reduce_redeem(m, p, bps)
  PROVE  LitePlaces(W)'
<1> DEFINE held == lite[m][p]
           a == held.asset
           burned == mul_div_floor(held.receipts, bps, BasisPoints)
           redeemed == receipt_value(burned, a)
           v == receipts[m][a] - burned
<1>1. /\ p \in DOMAIN lite[m] /\ held.receipts > 0 /\ held.receipts <= receipts[m][a]
      /\ vault[m][a] + redeemed \in U64
      /\ receipts' = [receipts EXCEPT ![m][a] = v]
  BY DEF lite_reduce_redeem
<1>2. StoresAt(m, p, RedeemedPosition(m, p, bps))
  BY RedeemStores
<1>3. held \in RecordsOf(W) /\ receipts \in [Margins -> [Assets -> U64]]
  BY <1>1 DEF LitePlaces
<1>4. a \in Assets /\ held.receipts \in Nat /\ rate[a] \in Nat
  BY <1>1, CrossMarginAssumption DEF LiteInv, LiteShape, PositionOK
<1>5. burned \in 0..held.receipts /\ Reduced(held, burned) \in RecordsOf(W)
  BY <1>1, <1>3, ReducedRecord
<1>6. RedeemedPosition(m, p, bps) = [Reduced(held, burned) EXCEPT !.word = redeemed, !.pending = TRUE]
  BY DEF RedeemedPosition
<1> HIDE DEF held, a, burned
<1>7. vault[m][a] \in U64 /\ receipts[m][a] \in U64
  <2>1. receipts[m][a] \in U64
    BY <1>3, <1>4
  <2>2. vault[m][a] \in U64
    BY <1>4, AccountStanding
  <2> QED
    BY <2>1, <2>2
<1>8. redeemed \in W
  <2>1. redeemed \in Nat
    BY <1>4, <1>5, FloorBounds DEF receipt_value
  <2> HIDE DEF redeemed
  <2>2. redeemed \in U64
    BY <1>1, <1>7, <2>1, ReserveMathAssumption DEF U64
  <2> QED
    BY <2>2 DEF Fits
<1>9. v \in U64
  BY <1>1, <1>4, <1>5, <1>7, ReserveMathAssumption DEF U64
<1> HIDE DEF redeemed, v
<1>10. RedeemedPosition(m, p, bps) \in RecordsOf(W)
  BY <1>5, <1>6, <1>8 DEF RecordsOf
<1>11. PlacesMove(W, m, p, RedeemedPosition(m, p, bps))
  BY <1>1, <1>2, <1>4, <1>9, <1>10 DEF PlacesMove
<1> QED
  BY <1>11, PlacesKept

\* lite_reduce_repay clears what was remembered.
LEMMA RepayPlaces ==
  ASSUME NEW W, Fits(W), Accounts, LiteInv, LitePlaces(W), NEW m \in Margins, NEW p,
         NEW bps \in Exits, lite_reduce_repay(m, p, bps)
  PROVE  LitePlaces(W)' /\ lite[m][p].shares \in Nat /\ lite[m][p].word \in Nat
<1> DEFINE held == lite[m][p]
           exit == ExitRepayment(m, held, bps)
           position == [held EXCEPT !.shares = exit.rest, !.word = 0, !.pending = FALSE]
<1>1. /\ p \in DOMAIN lite[m] /\ StoredOrClosed(m, p, position, bps)
      /\ UNCHANGED <<rate, receipts>>
      /\ exit.reserve.accounted_liquidity_assets \in U64
  BY DEF lite_reduce_repay
<1>2. held \in RecordsOf(W) /\ 0 \in W /\ W \subseteq Nat
  BY <1>1, ReserveMathAssumption DEF LitePlaces, Fits, U64
<1>3. held.asset \in Assets /\ held.shares \in Nat /\ held.word \in Nat
  BY <1>2 DEF RecordsOf
<1>4. exit.rest \in Nat
  BY <1>1, <1>3, ExitBooks
<1> HIDE DEF exit
<1>5. position \in RecordsOf(W)
  BY <1>2, <1>4 DEF RecordsOf
<1>6. StoresAt(m, p, position) \/ ClosesAt(m, p)
  BY <1>1, ExitStores
<1> HIDE DEF position
<1>7. PlacesMove(W, m, p, position)
  BY <1>1, <1>5, <1>6 DEF PlacesMove
<1> QED
  BY <1>3, <1>7, PlacesKept

\* lite_reduce_and_repay burns receipts the account has.
LEMMA UnwindPlaces ==
  ASSUME NEW W, Fits(W), LiteInv, LitePlaces(W), NEW m \in Margins, NEW p, NEW s,
         NEW bps \in Exits, NEW out, NEW extra, lite_reduce_and_repay(m, p, s, bps, out, extra)
  PROVE  LitePlaces(W)'
<1> DEFINE held == lite[m][p]
           y == held.asset
           burned == UnwindRedemption(m, p, bps).burned
           position == Reduced(held, burned)
           v == receipts[m][y] - burned
<1>1. /\ p \in DOMAIN lite[m] /\ held.receipts > 0 /\ burned <= receipts[m][y]
      /\ receipts' = [receipts EXCEPT ![m][y] = v]
  BY Zenon DEF lite_reduce_and_repay, UnwindAllowed
<1>2. StoresAt(m, p, position) \/ ClosesAt(m, p)
  BY UnwindStores
<1>3. held \in RecordsOf(W) /\ receipts \in [Margins -> [Assets -> U64]]
  BY <1>1 DEF LitePlaces
<1>4. burned \in 0..held.receipts /\ position \in RecordsOf(W)
  BY <1>1, <1>3, ReducedRecord DEF UnwindRedemption
<1>5. y \in Assets /\ held.receipts \in U64 /\ receipts[m][y] \in U64
  BY <1>3 DEF RecordsOf
<1> HIDE DEF held, y, burned, position
<1>6. burned \in Nat
  BY <1>4, <1>5, ReserveMathAssumption DEF U64
<1>7. v \in U64
  BY <1>1, <1>5, <1>6, ReserveMathAssumption DEF U64
<1> HIDE DEF v
<1>8. PlacesMove(W, m, p, position)
  BY <1>1, <1>2, <1>4, <1>5, <1>7 DEF PlacesMove
<1> QED
  BY <1>8, PlacesKept
-----------------------------------------------------------------------------
(* The inductive invariant and what it gives *)

\* No Lite instruction forgets a redemption that is larger than its bytes hold.
LEMMA LitePoolsStep ==
  ASSUME NEW W, Fits(W)
  PROVE  LitePools(W) /\ [LiteNext]_vars => LitePools(W)'
<1> SUFFICES ASSUME LitePools(W), [LiteNext]_vars PROVE LitePools(W)'
  OBVIOUS
<1>1. /\ Accounts /\ LiteInv /\ LitePlaces(W) /\ IInv /\ Ledger /\ AccountTypes
      /\ opened \in [Margins -> SUBSET Assets] /\ now \in Nat /\ rate \in [Assets -> Rates]
      /\ \A m \in Margins : debtActive[m] \subseteq opened[m]
      /\ price \in [Assets -> Nat] /\ assetConf = [a \in Assets |-> assetConf[a]]
      /\ \A a \in Assets : assetConf[a] \in AssetConfigs[a]
  BY DEF LitePools, Accounts, Ledger, LedgerTypes, InOrder, IInv, Types, LiteInv, LiteShape
<1>2. LiteInv'
  BY <1>1, EveryLiteStep
<1>3. ASSUME NEW m \in Margins, NEW a \in Strategies, NEW p \in Chosen,
             NEW e \in Equities, NEW x \in Leverages, lite_open(m, p, a, e, x)
      PROVE  Accounts' /\ LitePlaces(W)'
  BY <1>1, <1>3, OpenMoves, OpenPlaces
<1>4. ASSUME NEW m \in Margins, NEW a \in Strategies, NEW p \in Chosen,
             NEW x \in Supplies, NEW d \in Deltas, lite_supply(m, p, a, x, d)
      PROVE  Accounts' /\ LitePlaces(W)'
  BY <1>1, <1>4, SupplyMoves, SupplyPlaces
<1>5. ASSUME NEW m \in Margins, NEW p \in Places, NEW bps \in Exits, lite_reduce_redeem(m, p, bps)
      PROVE  Accounts' /\ LitePlaces(W)'
  BY <1>1, <1>5, RedeemMoves, RedeemPlaces
<1>6. ASSUME NEW m \in Margins, NEW p \in Places, NEW bps \in Exits, lite_reduce_repay(m, p, bps)
      PROVE  Accounts' /\ LitePlaces(W)'
  BY <1>1, <1>6, RepayMoves, RepayPlaces
<1>7. ASSUME NEW m \in Margins, NEW p \in Places, NEW s \in Assets, NEW bps \in Exits,
             NEW out \in Amounts, NEW extra \in {0, 1}, lite_reduce_and_repay(m, p, s, bps, out, extra)
      PROVE  Accounts' /\ LitePlaces(W)'
  BY <1>1, <1>7, UnwindMoves, UnwindPlaces
<1>8. ASSUME UNCHANGED <<world, pools, exists, debtAccounts, debtShares, registry, vault,
                         lite, liteIndexes, receipts>>
      PROVE  Accounts' /\ LitePlaces(W)'
  <2>1. LitePlaces(W)'
    BY <1>1, <1>8 DEF LitePlaces
  <2>2. AccountTypes'
    BY <1>1, <1>8 DEF AccountTypes, world, registry, debtAccounts
  <2>3. Ledger'
    BY <1>1, <1>8, LedgerRest DEF world, registry, debtAccounts
  <2>4. IInv'
    BY <1>1, <1>8, OtherKeeps DEF Keeps, world, pools
  <2> QED
    BY <2>1, <2>2, <2>3, <2>4 DEF Accounts
<1>9. ASSUME NEW a \in Strategies, NEW x \in Rates, SetRate(a, x)
      PROVE  Accounts' /\ LitePlaces(W)'
  BY <1>8, <1>9 DEF SetRate
<1>10. ASSUME UNCHANGED vars PROVE Accounts' /\ LitePlaces(W)'
  BY <1>8, <1>10 DEF vars, liteState
<1>11. ASSUME Next PROVE Accounts' /\ LitePlaces(W)'
  <2>1. MarginStep /\ UNCHANGED liteState
    BY <1>11 DEF Next
  <2>2. IInv'
    BY <1>1, <1>11, EveryStep DEF Keeps
  <2>3. Ledger' /\ AccountTypes'
    BY <1>1, <2>1, LedgerStep, AccountsStep DEF liteState
  <2>4. LitePlaces(W)'
    BY <1>1, <2>1 DEF LitePlaces, liteState
  <2> QED
    BY <2>2, <2>3, <2>4 DEF Accounts
<1>12. ASSUME LiteStep PROVE Accounts' /\ LitePlaces(W)'
  BY <1>3, <1>4, <1>5, <1>6, <1>7, <1>9, <1>12 DEF LiteStep
<1> QED
  BY <1>2, <1>10, <1>11, <1>12 DEF LiteNext, LitePools

\* Pools, accounts and positions are in order to begin with.
LEMMA InitLitePools ==
  ASSUME NEW W
  PROVE  Init => LitePools(W)
<1> SUFFICES ASSUME Init PROVE LitePools(W)
  OBVIOUS
<1>1. LitePlaces(W)
  BY ReserveMathAssumption DEF Init, LitePlaces, U64
<1> QED
  BY <1>1, InitRegistered, InitLedger, InitAccounts, InitEstablishes DEF LitePools, Accounts

\* The eight bytes of a position hold any amount of tokens.
WordHolds == MaxU64 < WordSize

Words == 0..(WordSize - 1)

\* The invariant holds along every behaviour, whatever a position remembers.
LEMMA AnyWord == LiteSpec => []LitePools(Nat)
<1>1. Fits(Nat)
  BY CrossMarginAssumption, ReserveMathAssumption DEF Fits, U64
<1>2. Init => LitePools(Nat)
  BY InitLitePools
<1>3. LitePools(Nat) /\ [LiteNext]_vars => LitePools(Nat)'
  BY <1>1, LitePoolsStep
<1> QED
  BY <1>2, <1>3, PTL DEF LiteSpec

\* It remembers no more than its bytes hold.
LEMMA EightBytes ==
  ASSUME WordHolds
  PROVE  LiteSpec => []LitePools(Words)
<1>1. Fits(Words)
  BY ReserveMathAssumption, CrossMarginAssumption DEF Fits, Words, WordHolds, U64
<1>2. Init => LitePools(Words)
  BY InitLitePools
<1>3. LitePools(Words) /\ [LiteNext]_vars => LitePools(Words)'
  BY <1>1, LitePoolsStep
<1> QED
  BY <1>2, <1>3, PTL DEF LiteSpec

\* Each position stays a record of amounts, each word within its eight bytes
\* and each account within its registry, through the Lite instructions, too.
THEOREM LiteTypesCorrect ==
  ASSUME WordHolds
  PROVE  LiteSpec => []TypeOK
<1>1. LitePools(Words) => TypeOK
  <2> SUFFICES ASSUME LitePools(Words) PROVE TypeOK
    OBVIOUS
  <2>1. RecordsOf(Words) = LiteRecords
    BY DEF RecordsOf, LiteRecords, Words
  <2>2. LiteTypes
    BY <2>1 DEF LitePools, LiteInv, LiteShape, LitePlaces, LiteTypes
  <2> QED
    BY <2>2, TypesTogether DEF LitePools, Accounts
<1> QED
  BY <1>1, EightBytes, PTL

\* With positions opened and unwound, whose exits take slots for two assets at
\* once, an account never spans more assets than the protocol allows.
THEOREM LiteAssetsBounded == LiteSpec => []AssetsBounded
<1>1. LitePools(Nat) => AssetsBounded
  BY DEF LitePools, Accounts, IInv
<1> QED
  BY <1>1, AnyWord, PTL

\* The total of one holder's shares.
LEMMA TotalOfOne ==
  ASSUME NEW k, NEW v \in Nat
  PROVE  TotalOf([l \in {k} |-> v]) = v
<1> DEFINE S == {k}
           f == [l \in S |-> 0]
           g == [l \in S |-> v]
<1>1. TotalOf(f) = 0 /\ f \in [S -> Nat] /\ f[k] = 0 /\ k \in S /\ g = [f EXCEPT ![k] = v]
  BY TotalOfZero
<1>2. IsFiniteSet(S)
  BY FS_Singleton
<1> HIDE DEF S, f, g
<1>3. TotalOf([f EXCEPT ![k] = v]) = TotalOf(f) - f[k] + v
  BY <1>1, <1>2, TotalOfExcept
<1> QED
  BY <1>1, <1>3 DEF g, S

\* The accounting of every pool, shares, debts, cash and registry, survives the
\* Lite instructions, which write all of it on their own.
THEOREM PoolsAlwaysSound == LiteSpec => []PoolsSound
<1>1. LitePools(Nat) => PoolsSound
  <2> SUFFICES ASSUME LitePools(Nat), NEW a \in Assets
               PROVE  /\ Pool(a)!SharesConserved /\ Pool(a)!DebtSharesBacked
                      /\ Pool(a)!VaultCoversLiquidity /\ Pool(a)!DebtRegistered
    BY DEF PoolsSound
  <2>1. InOrder(a) /\ LedgerTypes
    BY DEF LitePools, Accounts, Ledger
  <2>2. /\ Books(reserve[a], SharesOf(a)) /\ liquidity[a] = reserve[a].accounted_liquidity_assets
        /\ liquidity[a] \in Nat
    BY <2>1 DEF InOrder, LedgerTypes, U64
  <2>3. Pool(a)!TotalOf(SharesOf(a)) = TotalOf(SharesOf(a))
    BY DEF Pool!TotalOf, TotalOf, Pool!UnitsOf, UnitsOf, Pool!Cardinality, Cardinality
  <2>4. Pool(a)!TotalOf([l \in {"lenders"} |-> Supplied[a]]) = Supplied[a]
    <3>1. Supplied[a] \in Nat
      BY CrossMarginAssumption DEF U64
    <3>2. TotalOf([l \in {"lenders"} |-> Supplied[a]]) = Supplied[a]
      BY <3>1, TotalOfOne
    <3> QED
      BY <3>2 DEF Pool!TotalOf, TotalOf, Pool!UnitsOf, UnitsOf, Pool!Cardinality, Cardinality
  <2>5. Pool(a)!SharesConserved
    BY <2>2, <2>3, <2>4 DEF Pool!SharesConserved, SharesOf, Books
  <2>6. Pool(a)!DebtSharesBacked
    BY <2>2 DEF Pool!DebtSharesBacked, Books
  <2>7. Pool(a)!VaultCoversLiquidity
    BY <2>2 DEF Pool!VaultCoversLiquidity
  <2>8. Pool(a)!DebtRegistered
    BY <2>1 DEF Pool!DebtRegistered, InOrder
  <2> QED
    BY <2>5, <2>6, <2>7, <2>8
<1> QED
  BY <1>1, AnyWord, PTL

\* Where prices and accruals are good, an account that does not hold one asset
\* in two positions can be scanned, and with it repaid for and liquidated: no
\* order of openings and exits leaves an index without a position, a position
\* without an index or one without its receipts.
THEOREM ScanAlwaysOpen == LiteSpec => []ScanOpen
<1>1. LitePools(Nat) /\ ReceiptsOK => ScanOpen
  <2> SUFFICES ASSUME LitePools(Nat), ReceiptsOK, NEW m \in exists,
                      \A p, q \in DOMAIN lite[m] : p # q => lite[m][p].asset # lite[m][q].asset,
                      \A a \in Assets : price[a] # 0 /\ Pool(a)!AccrualOK
               PROVE  Scannable(m, {}, {})
    BY DEF ScanOpen
  <2>1. /\ m \in Margins /\ price \in [Assets -> Nat]
        /\ collActive[m] \in SUBSET Assets /\ debtActive[m] \in SUBSET Assets
    BY DEF LitePools, Accounts, AccountTypes, IInv, Types
  <2>2. \A a \in Assets : price[a] > 0
    BY <2>1
  <2>3. SlotsScannable(m, {}, {})
    BY <2>1, <2>2 DEF SlotsScannable
  <2>4. LiteInv /\ LiteVisited(m, {}) = DOMAIN lite[m]
    BY <2>1 DEF LitePools, LiteInv, LiteRegistered, LiteVisited
  <2>5. ASSUME NEW p \in DOMAIN lite[m]
        PROVE  /\ lite[m][p].asset \in Assets
               /\ lite[m][p].receipts <= receipts[m][lite[m][p].asset]
    <3> DEFINE a == lite[m][p].asset
    <3>1. PositionOK(lite[m][p]) /\ p \in Places
      BY <2>1, <2>4 DEF LiteInv, LiteShape
    <3>2. a \in Assets /\ lite[m][p].receipts \in Nat
      BY <3>1 DEF PositionOK
    <3>3. Recorded(m, a)[p] = lite[m][p].receipts
      BY <3>1 DEF Recorded
    <3> HIDE DEF a
    <3>4. Recorded(m, a) \in [Places -> Nat] /\ IsFiniteSet(Places)
      BY <2>1, <2>4, <3>2, RecordedType
    <3>5. PICK f \in [Places -> Nat] : f = Recorded(m, a)
      BY <3>4
    <3>6. f[p] <= TotalOf(f) /\ TotalOf(f) \in Nat /\ f[p] \in Nat
      BY <3>1, <3>4, TotalOfExcept, 0 \in Nat
    <3>7. TotalOf(f) <= receipts[m][a] /\ receipts[m][a] \in Nat
      BY <2>1, <3>2, <3>5 DEF ReceiptsOK, ReceiptsBacked
    <3>8. lite[m][p].receipts <= receipts[m][a]
      BY <3>3, <3>5, <3>6, <3>7
    <3> QED
      BY <3>2, <3>8 DEF a
  <2>6. LiteScannable(m, {}, {})
    BY <2>2, <2>4, <2>5 DEF LiteScannable
  <2> QED
    BY <2>3, <2>6 DEF Scannable
<1>2. LiteSpec => []ReceiptsOK
  BY InitReceipts, EveryStepBacked, PTL DEF LiteSpec
<1> QED
  BY <1>1, <1>2, AnyWord, PTL

\* A vault that lite_supply empties gives its slot back, and no instruction but
\* an exit leaves a slot without tokens, where mints take no fee.
THEOREM SlotsAlwaysBacked ==
  ASSUME NoFees
  PROVE  LiteSpec => SlotsStayBacked
<1> DEFINE Backed == NoEmptySlots => NoEmptySlots' \/ \E m \in Margins : Unwinds(m) \/ Repays(m)
<1>1. LitePools(Nat) /\ [LiteNext]_vars => Backed
  <2> SUFFICES ASSUME LitePools(Nat), [LiteNext]_vars, NoEmptySlots,
                      ~ \E m \in Margins : Unwinds(m) \/ Repays(m)
               PROVE  NoEmptySlots'
    OBVIOUS
  <2>1. Accounts /\ LiteInv /\ IInv
    BY DEF LitePools, Accounts
  <2>2. ASSUME NEW m \in Margins, NEW a \in Strategies, NEW p \in Chosen,
               NEW e \in Equities, NEW x \in Leverages, lite_open(m, p, a, e, x)
        PROVE  NoEmptySlots'
    BY <2>1, <2>2, OpenMoves
  <2>3. ASSUME NEW m \in Margins, NEW a \in Strategies, NEW p \in Chosen,
               NEW x \in Supplies, NEW d \in Deltas, lite_supply(m, p, a, x, d)
        PROVE  NoEmptySlots'
    BY <2>1, <2>3, SupplyMoves
  <2>4. ASSUME NEW m \in Margins, NEW p \in Places, NEW bps \in Exits, lite_reduce_redeem(m, p, bps)
        PROVE  NoEmptySlots'
    BY <2>1, <2>4, RedeemMoves
  <2>5. ASSUME NEW m \in Margins, NEW p \in Places, NEW bps \in Exits, lite_reduce_repay(m, p, bps)
        PROVE  NoEmptySlots'
    BY <2>5 DEF Repays
  <2>6. ASSUME NEW m \in Margins, NEW p \in Places, NEW s \in Assets, NEW bps \in Exits,
               NEW out \in Amounts, NEW extra \in {0, 1}, lite_reduce_and_repay(m, p, s, bps, out, extra)
        PROVE  NoEmptySlots'
    BY <2>6 DEF Unwinds
  <2>7. ASSUME NEW a \in Strategies, NEW x \in Rates, SetRate(a, x) PROVE NoEmptySlots'
    BY <2>7 DEF SetRate, NoEmptySlots, registry
  <2>8. ASSUME Next \/ UNCHANGED vars PROVE NoEmptySlots'
    BY <2>1, <2>8, EveryStep DEF Keeps
  <2>9. ASSUME LiteStep PROVE NoEmptySlots'
    BY <2>2, <2>3, <2>4, <2>5, <2>6, <2>7, <2>9 DEF LiteStep
  <2> QED
    BY <2>8, <2>9 DEF LiteNext
<1>2. SlotsStayBacked <=> [][Backed]_vars
  BY DEF SlotsStayBacked
<1> HIDE DEF Backed
<1> QED
  BY <1>1, <1>2, AnyWord, PTL DEF LiteSpec

-----------------------------------------------------------------------------
(* Debt is only paid off *)

\* The reserve of a, up to date, becomes r, with x more in cash, and m is left
\* with k shares, which owe what it owed before less x, or more.
Pays(m, a, r, k, x) ==
  /\ reserve' = [reserve EXCEPT ![a] = r]
  /\ liquidity' = [liquidity EXCEPT ![a] = @ + x]
  /\ debtShares' = [debtShares EXCEPT ![m][a] = k]
  /\ now' = now
  /\ r \in ReserveRecords /\ r.last_update_timestamp = now
  /\ debt_shares_to_assets_up(k, r.total_borrow_shares, r.total_borrow_assets) + x
       >= Pool(a)!Owed(m)

\* Such a step forgives nobody anything.
LEMMA PayerPays ==
  ASSUME Ledger, NEW m \in Margins, NEW a \in Assets, NEW r, NEW k \in Nat, NEW x \in Nat,
         Pays(m, a, r, k, x)
  PROVE  \A n \in Margins, b \in Assets : PaidFor(n, b)
<1>1. /\ debtShares \in [Margins -> [Assets -> Nat]] /\ reserve \in [Assets -> ReserveRecords]
      /\ liquidity \in [Assets -> U64] /\ liquidity[a] \in Nat
  BY DEF Ledger, LedgerTypes, U64
<1>2. /\ reserve' = [reserve EXCEPT ![a] = r] /\ liquidity' = [liquidity EXCEPT ![a] = @ + x]
      /\ debtShares' = [debtShares EXCEPT ![m][a] = k] /\ now' = now
      /\ r \in ReserveRecords /\ r.last_update_timestamp = now
  BY DEF Pays
<1>3. ASSUME NEW n \in Margins, NEW b \in Assets, n # m \/ b # a PROVE PaidFor(n, b)
  <2>1. debtShares'[n][b] = debtShares[n][b] /\ debtShares[n][b] \in Nat
    BY <1>1, <1>2, <1>3
  <2> QED
    BY <2>1 DEF PaidFor
<1>4. PaidFor(m, a)
  <2>1. Pool(a)!Current' = r
    <3>1. reserve'[a] = r
      BY <1>1, <1>2
    <3>2. accrue(r, ReserveConfig, now') = r
      BY <1>2, AccruedOnce
    <3> QED
      BY <3>1, <3>2, PoolAfter
  <2>2. debtShares'[m][a] = k /\ liquidity'[a] = liquidity[a] + x
    BY <1>1, <1>2
  <2>3. Pool(a)!Owed(m)' = debt_shares_to_assets_up(k, r.total_borrow_shares, r.total_borrow_assets)
    BY <2>1, <2>2, PoolAfter
  <2>4. liquidity'[a] - liquidity[a] = x
    BY <1>1, <2>2
  <2>5. debt_shares_to_assets_up(k, r.total_borrow_shares, r.total_borrow_assets) + x
          >= Pool(a)!Owed(m)
    BY DEF Pays
  <2> QED
    BY <2>3, <2>4, <2>5 DEF PaidFor
<1> QED
  BY <1>3, <1>4

\* Nor does one that takes shares from nobody.
LEMMA NothingBurned ==
  ASSUME Ledger,
         \A n \in Margins, b \in Assets :
            debtShares'[n][b] \in Nat /\ debtShares'[n][b] >= debtShares[n][b]
  PROVE  \A n \in Margins, b \in Assets : PaidFor(n, b)
<1>1. ASSUME NEW n \in Margins, NEW b \in Assets, debtShares'[n][b] < debtShares[n][b] PROVE FALSE
  <2>1. debtShares[n][b] \in Nat
    BY DEF Ledger, LedgerTypes
  <2> QED
    BY <1>1, <2>1
<1> QED
  BY <1>1 DEF PaidFor

\* A loan takes shares from nobody.
LEMMA LoanBurnsNothing ==
  ASSUME Ledger, NEW m \in Margins, NEW a \in Assets, NEW k \in Nat, k >= debtShares[m][a],
         debtShares' = [debtShares EXCEPT ![m][a] = k]
  PROVE  \A n \in Margins, b \in Assets : PaidFor(n, b)
<1>1. debtShares \in [Margins -> [Assets -> Nat]]
  BY DEF Ledger, LedgerTypes
<1>2. ASSUME NEW n \in Margins, NEW b \in Assets
      PROVE  debtShares'[n][b] \in Nat /\ debtShares'[n][b] >= debtShares[n][b]
  <2>1. CASE n = m /\ b = a
    BY <1>1, <2>1
  <2>2. CASE ~(n = m /\ b = a)
    <3>1. debtShares'[n][b] = debtShares[n][b] /\ debtShares[n][b] \in Nat
      BY <1>1, <2>2
    <3> QED
      BY <3>1
  <2> QED
    BY <2>1, <2>2
<1> QED
  BY <1>2, NothingBurned

\* A settlement of the margin instructions.
LEMMA SettlePays ==
  ASSUME Ledger, NEW m \in Margins, NEW a \in Assets, NEW sent \in U64, Pool(a)!AccrualOK,
         Pool(a)!Owed(m) > 0, Settle(m, a, Pool(a)!Settlement(m, sent, Pool(a)!Owed(m))),
         now' = now
  PROVE  \A n \in Margins, b \in Assets : PaidFor(n, b)
<1> DEFINE s == Pool(a)!Settlement(m, sent, Pool(a)!Owed(m))
<1>1. /\ reserve' = [reserve EXCEPT ![a] = s.reserve]
      /\ liquidity' = [liquidity EXCEPT ![a] = @ + s.received]
      /\ debtShares' = [debtShares EXCEPT ![m][a] = s.shares]
      /\ Pool(a)!SettlementSucceeds(m, s)
  BY DEF Settle
<1>2. /\ s.shares \in Nat /\ s.received \in Nat
      /\ Books(s.reserve, [SharesOf(a) EXCEPT ![m] = s.shares])
      /\ s.reserve.last_update_timestamp = now
  BY <1>1, SettlementBooks
<1>3. debt_shares_to_assets_up(s.shares, s.reserve.total_borrow_shares,
                               s.reserve.total_borrow_assets) + s.received >= Pool(a)!Owed(m)
  BY SettlementPays
<1> HIDE DEF s
<1>4. Pays(m, a, s.reserve, s.shares, s.received)
  BY <1>1, <1>2, <1>3 DEF Pays, Books
<1> QED
  BY <1>2, <1>4, PayerPays
\* No margin instruction forgives debt.
LEMMA MarginPays ==
  ASSUME IInv, Ledger, MarginStep
  PROVE  \A n \in Margins, b \in Assets : PaidFor(n, b)
<1> DEFINE Paid == \A n \in Margins, b \in Assets : PaidFor(n, b)
<1>1. ASSUME debtShares' = debtShares PROVE Paid
  <2>1. \A n \in Margins, b \in Assets :
           debtShares'[n][b] \in Nat /\ debtShares'[n][b] >= debtShares[n][b]
    BY <1>1 DEF Ledger, LedgerTypes
  <2> QED
    BY <2>1, NothingBurned
<1>2. ASSUME NEW m \in Margins, NEW a \in Assets, NEW x \in Amounts, NEW B,
             LoanAllowed(a, x), TakeLoan(m, a, x, B)
      PROVE  Paid
  <2> DEFINE k == Loan(m, a, x).position
  <2>1. /\ x \in Nat \ {0} /\ Pool(a)!AccrualOK
        /\ x <= Pool(a)!Current.accounted_liquidity_assets
        /\ Pool(a)!Current.total_borrow_assets + x \in U64
    BY <1>2, CrossMarginAssumption DEF LoanAllowed, LendingOpen, U64
  <2>2. debtShares' = [debtShares EXCEPT ![m][a] = k]
    BY <1>2 DEF TakeLoan
  <2>3. k \in Nat /\ k > debtShares[m][a]
    BY <2>1, LoanBooks
  <2>4. debtShares[m][a] \in Nat
    BY DEF Ledger, LedgerTypes
  <2> HIDE DEF k
  <2>5. k >= debtShares[m][a]
    BY <2>3, <2>4
  <2> QED
    BY <2>2, <2>3, <2>5, LoanBurnsNothing
<1>3. ASSUME NEW m \in Margins, user_create_margin(m) \/ user_close_margin(m) PROVE Paid
  BY <1>1, <1>3 DEF user_create_margin, user_close_margin
<1>4. ASSUME NEW m \in Margins, NEW a \in Assets,
             user_open_debt_position(m, a) \/ user_close_debt_position(m, a)
      PROVE  Paid
  BY <1>1, <1>4 DEF user_open_debt_position, user_close_debt_position
<1>5. ASSUME NEW m \in Margins, NEW a \in Assets, NEW x \in Amounts,
             user_deposit_collateral(m, a, x) \/ user_withdraw_collateral(m, a, x)
      PROVE  Paid
  BY <1>1, <1>5 DEF user_deposit_collateral, user_withdraw_collateral
<1>6. ASSUME NEW m \in Margins, NEW a \in Assets, NEW x \in Amounts, user_borrow(m, a, x) PROVE Paid
  BY <1>2, <1>6 DEF user_borrow
<1>7. ASSUME NEW m \in Margins, NEW c \in Assets, NEW a \in Assets,
             NEW x \in Amounts, NEW y \in Amounts, user_deposit_and_borrow(m, c, a, x, y)
      PROVE  Paid
  BY <1>2, <1>7 DEF user_deposit_and_borrow
<1>8. ASSUME NEW m \in Margins, NEW a \in Assets, NEW x \in Payments, user_repay_from_margin(m, a, x)
      PROVE  Paid
  <2> DEFINE sent == MinOf(GrossUp(MinOf(x, Pool(a)!Owed(m))), vault[m][a])
  <2>1. /\ Pool(a)!AccrualOK /\ Pool(a)!Owed(m) > 0
        /\ Settle(m, a, Pool(a)!Settlement(m, sent, Pool(a)!Owed(m)))
        /\ now' = now
    BY <1>8 DEF user_repay_from_margin, world
  <2>2. sent \in U64
    BY <2>1, RepaidType
  <2> HIDE DEF sent
  <2> QED
    BY <2>1, <2>2, SettlePays
<1>9. ASSUME NEW m \in Margins, NEW a \in Assets, NEW x \in Payments, public_repay_from_wallet(m, a, x)
      PROVE  Paid
  <2> DEFINE sent == GrossUp(MinOf(x, Pool(a)!Owed(m)))
  <2>1. /\ Pool(a)!AccrualOK /\ Pool(a)!Owed(m) > 0 /\ sent \in U64
        /\ Settle(m, a, Pool(a)!Settlement(m, sent, Pool(a)!Owed(m)))
        /\ now' = now
    BY <1>9 DEF public_repay_from_wallet, world
  <2> HIDE DEF sent
  <2> QED
    BY <2>1, SettlePays
<1>10. ASSUME NEW m \in Margins, NEW c \in Assets, NEW d \in Assets, NEW x \in Amounts,
              public_liquidate(m, c, d, x)
       PROVE  Paid
  <2> DEFINE repay == MinOf(MinOf(x, Pool(d)!Owed(m)), MaxOf(Pool(d)!Owed(m) \div 2, 1))
  <2>1. /\ Pool(d)!AccrualOK /\ Pool(d)!Owed(m) > 0
        /\ Settle(m, d, Pool(d)!Settlement(m, repay, Pool(d)!Owed(m)))
        /\ now' = now
    BY <1>10 DEF public_liquidate, world
  <2>2. repay \in U64
    BY <2>1, LiquidatedType
  <2> HIDE DEF repay
  <2> QED
    BY <2>1, <2>2, SettlePays
<1>11. ASSUME NEW m \in Margins, NEW c \in Assets, NEW a \in Assets,
              NEW x \in Amounts, NEW y \in Amounts, user_margin_swap(m, c, a, x, y)
       PROVE  Paid
  BY <1>1, <1>11 DEF user_margin_swap
<1>12. ASSUME NEW m \in Margins, NEW a \in Assets, NEW x \in Donations, Donate(m, a, x) PROVE Paid
  BY <1>1, <1>12 DEF Donate
<1>13. ASSUME NEW md \in Modes, admin_set_operating_mode(md) PROVE Paid
  BY <1>1, <1>13 DEF admin_set_operating_mode
<1>14. ASSUME NEW a \in Assets, NEW p \in Prices[a], SetPrice(a, p) PROVE Paid
  BY <1>1, <1>14 DEF SetPrice
<1>15. ASSUME NEW a \in Assets, NEW c \in AssetConfigs[a], admin_update_asset_config(a, c) PROVE Paid
  BY <1>1, <1>15 DEF admin_update_asset_config
<1>16. ASSUME Tick PROVE Paid
  BY <1>1, <1>16 DEF Tick
<1> HIDE DEF Paid
<1>17. Paid
  BY <1>3, <1>4, <1>5, <1>6, <1>7, <1>8, <1>9, <1>10, <1>11, <1>12, <1>13, <1>14, <1>15, <1>16
     DEF MarginStep
<1> QED
  BY <1>17 DEF Paid

\* An exit pays for the shares it burns, counted on the totals it finds.
LEMMA ExitPays ==
  ASSUME Accounts, NEW m \in Margins, NEW position, position.asset \in Assets,
         position.shares \in Nat, position.word \in Nat, NEW bps \in Exits
  PROVE  LET a    == position.asset
             exit == ExitRepayment(m, position, bps)
         IN  exit.paid > 0 =>
               debt_shares_to_assets_up(debtShares[m][a] - exit.burned,
                                        exit.reserve.total_borrow_shares,
                                        exit.reserve.total_borrow_assets) + exit.paid
                 >= debt_shares_to_assets_up(debtShares[m][a], reserve[a].total_borrow_shares,
                                             reserve[a].total_borrow_assets)
<1> DEFINE a == position.asset
           r == reserve[a]
           S == r.total_borrow_shares
           T == r.total_borrow_assets
           h == debtShares[m][a]
           attributed == debt_shares(position, h)
           target == mul_div_ceil(attributed, bps, BasisPoints)
           due == debt_shares_to_assets_up(target, S, T)
           paid == MinOf(due, position.word)
           burned == IF paid = 0 THEN 0 ELSE DebtSharesBurned(r, target, due, paid)
           after == AfterRepay(r, due, paid, burned)
           exit == ExitRepayment(m, position, bps)
<1>1. exit = [paid |-> paid, burned |-> burned, rest |-> attributed - target, reserve |-> after]
  BY DEF ExitRepayment
<1>2. a \in Assets
  OBVIOUS
<1> HIDE DEF a
<1>3. h \in Nat /\ r \in ReserveRecords /\ Books(r, SharesOf(a)) /\ SharesOf(a)[m] = h
  BY <1>2, AccountStanding
<1>4. S \in Nat /\ T \in Nat /\ S <= T /\ (S = 0 => T = 0) /\ h <= S
  BY <1>3, BooksBound DEF Books
<1>5. attributed \in Nat /\ attributed <= h
  BY <1>3 DEF debt_shares, MinOf
<1>6. target \in Nat /\ target <= attributed
  <2>1. BasisPoints \in Nat \ {0} /\ bps \in Nat /\ bps <= BasisPoints
    BY LiteAssumption, ReserveMathAssumption
  <2> HIDE DEF attributed
  <2> QED
    BY <1>5, <2>1, CeilBounds, CeilShrinks
<1> HIDE DEF attributed, target, h
<1>7. target <= h /\ target <= S
  BY <1>3, <1>4, <1>5, <1>6
<1>8. due \in Nat
  BY <1>4, <1>6, <1>7, OwedBounds
<1>9. ASSUME paid > 0
      PROVE  debt_shares_to_assets_up(h - burned, after.total_borrow_shares, after.total_borrow_assets)
               + paid >= debt_shares_to_assets_up(h, S, T)
  <2>1. burned = DebtSharesBurned(r, target, due, paid)
    BY <1>9
  <2>2. due > 0 /\ paid \in Nat
    <3> HIDE DEF due
    <3> QED
      BY <1>8, <1>9 DEF MinOf
  <2> HIDE DEF paid, burned
  <2>3. LET b == DebtSharesBurned(r, target, due, paid)
            f == AfterRepay(r, due, paid, b)
        IN  debt_shares_to_assets_up(h - b, f.total_borrow_shares, f.total_borrow_assets) + paid
              >= debt_shares_to_assets_up(h, S, T)
    BY <1>3, <1>4, <1>6, <1>7, <2>2, PartPaymentCovers
  <2> QED
    BY <2>1, <2>3
<1> HIDE DEF r, S, T, due, paid, burned, after, exit
<1> QED
  BY <1>1, <1>9 DEF a, h, r, S, T, exit
\* lite_open takes shares from nobody.
LEMMA OpenBurnsNothing ==
  ASSUME Accounts, NEW m \in Margins, NEW p, NEW a \in Strategies,
         NEW e \in Equities, NEW x \in Leverages, lite_open(m, p, a, e, x)
  PROVE  \A n \in Margins, b \in Assets : PaidFor(n, b)
<1> DEFINE borrowed == BorrowedFor(e, x)
           k == Loan(m, a, borrowed).position
<1>1. a \in Assets /\ borrowed \in Nat
  BY BorrowedType, LiteAssumption
<1>2. /\ Pool(a)!AccrualOK /\ OpenLoanAllowed(m, a, borrowed)
      /\ debtShares' = [debtShares EXCEPT ![m][a] = k]
  BY DEF lite_open, LendingOpen
<1>3. debtShares[m][a] \in Nat /\ Ledger
  BY <1>1, AccountStanding DEF Accounts
<1>4. CASE borrowed = 0
  <2>1. k = debtShares[m][a]
    BY <1>1, <1>2, <1>4, NoLoan
  <2> HIDE DEF k
  <2>2. k \in Nat /\ k >= debtShares[m][a]
    BY <1>3, <2>1
  <2> QED
    BY <1>1, <1>2, <1>3, <2>2, LoanBurnsNothing
<1>5. CASE borrowed > 0
  <2>1. /\ borrowed \in Nat \ {0} /\ borrowed <= Pool(a)!Current.accounted_liquidity_assets
        /\ Pool(a)!Current.total_borrow_assets + borrowed \in U64
    BY <1>1, <1>2, <1>5 DEF OpenLoanAllowed, LoanAllowed
  <2> HIDE DEF borrowed
  <2>2. k \in Nat /\ k > debtShares[m][a]
    BY <1>1, <1>2, <1>3, <2>1, LoanBooks
  <2> HIDE DEF k
  <2>3. k >= debtShares[m][a]
    BY <1>3, <2>2
  <2> QED
    BY <1>1, <1>2, <1>3, <2>2, <2>3, LoanBurnsNothing
<1> QED
  BY <1>1, <1>4, <1>5
\* A repayment that comes before any interest pays what the account owes now.
LEMMA RepayPays ==
  ASSUME Accounts, LiteInv, NEW m \in Margins, NEW p, NEW bps \in Exits, lite_reduce_repay(m, p, bps),
         lite[m][p].shares \in Nat, lite[m][p].word \in Nat,
         reserve[lite[m][p].asset].last_update_timestamp = now
  PROVE  \A n \in Margins, b \in Assets : PaidFor(n, b)
<1> DEFINE position == lite[m][p]
           a == position.asset
           exit == ExitRepayment(m, position, bps)
           r == exit.reserve
           k == debtShares[m][a] - exit.burned
<1>1. /\ p \in DOMAIN lite[m]
      /\ r.accounted_liquidity_assets \in U64
      /\ reserve' = [reserve EXCEPT ![a] = r]
      /\ liquidity' = [liquidity EXCEPT ![a] = @ + exit.paid]
      /\ debtShares' = [debtShares EXCEPT ![m][a] = k]
      /\ now' = now
  <2>1. /\ p \in DOMAIN lite[m]
        /\ r.accounted_liquidity_assets \in U64
        /\ reserve' = [reserve EXCEPT ![a] = r]
        /\ UNCHANGED world
    BY Zenon DEF lite_reduce_repay
  <2>2. /\ liquidity' = [liquidity EXCEPT ![a] = @ + exit.paid]
        /\ debtShares' = [debtShares EXCEPT ![m][a] = k]
    BY Zenon DEF lite_reduce_repay
  <2> HIDE DEF a, exit, r, k
  <2> QED
    BY <2>1, <2>2 DEF world
<1>2. a \in Assets
  BY <1>1 DEF LiteInv, LiteShape, PositionOK
<1>3. /\ exit.paid \in Nat /\ exit.burned \in 0..debtShares[m][a]
      /\ exit.paid = 0 => exit.burned = 0
      /\ Books(r, [SharesOf(a) EXCEPT ![m] = k])
      /\ r.last_update_timestamp = reserve[a].last_update_timestamp
  BY <1>1, <1>2, ExitBooks
<1>4. exit.paid > 0 =>
        debt_shares_to_assets_up(k, r.total_borrow_shares, r.total_borrow_assets) + exit.paid
          >= debt_shares_to_assets_up(debtShares[m][a], reserve[a].total_borrow_shares,
                                      reserve[a].total_borrow_assets)
  BY <1>2, ExitPays
<1>5. debtShares[m][a] \in Nat /\ reserve[a] \in ReserveRecords /\ Ledger
  BY <1>2, AccountStanding DEF Accounts
<1>6. Pool(a)!Owed(m) = debt_shares_to_assets_up(debtShares[m][a], reserve[a].total_borrow_shares,
                                                 reserve[a].total_borrow_assets)
  <2>1. reserve[a].last_update_timestamp = now
    OBVIOUS
  <2>2. accrue(reserve[a], ReserveConfig, now) = reserve[a]
    BY <1>5, <2>1, AccruedOnce
  <2> HIDE DEF a
  <2>3. Pool(a)!Current = reserve[a]
    BY <1>2, <2>2, PoolCurrent
  <2> QED
    BY <1>2, <2>3, PoolOwed
<1>7. r.last_update_timestamp = now
  BY <1>3
<1> HIDE DEF position, a, exit, r
<1>8. k \in Nat /\ k <= debtShares[m][a] /\ (exit.paid = 0 => k = debtShares[m][a])
  BY <1>3, <1>5
<1> HIDE DEF k
<1>9. CASE exit.paid = 0
  <2>1. k >= debtShares[m][a]
    BY <1>5, <1>8, <1>9
  <2> QED
    BY <1>1, <1>2, <1>5, <1>8, <2>1, LoanBurnsNothing
<1>10. CASE exit.paid > 0
  <2>1. Pays(m, a, r, k, exit.paid)
    BY <1>1, <1>3, <1>4, <1>6, <1>7, <1>10 DEF Pays, Books
  <2> QED
    BY <1>2, <1>3, <1>5, <1>8, <2>1, PayerPays
<1> QED
  BY <1>3, <1>9, <1>10

\* A repayment finds the totals of now, or comes after some interest.
LEMMA LateOrPaid ==
  ASSUME Accounts, LiteInv, LitePlaces(Nat), NEW m \in Margins, NEW p \in Places, NEW bps \in Exits,
         lite_reduce_repay(m, p, bps)
  PROVE  \A n \in Margins, b \in Assets : PaidFor(n, b) \/ reserve[b].last_update_timestamp < now
<1> DEFINE a == lite[m][p].asset
           k == debtShares[m][a] - ExitRepayment(m, lite[m][p], bps).burned
<1>1. p \in DOMAIN lite[m] /\ debtShares' = [debtShares EXCEPT ![m][a] = k]
  BY Zenon DEF lite_reduce_repay
<1>2. a \in Assets
  BY <1>1 DEF LiteInv, LiteShape, PositionOK
<1>3. lite[m][p].shares \in Nat /\ lite[m][p].word \in Nat
  BY <1>1 DEF LitePlaces, RecordsOf
<1>4. /\ debtShares \in [Margins -> [Assets -> Nat]]
      /\ reserve[a].last_update_timestamp \in Nat /\ now \in Nat
      /\ reserve[a].last_update_timestamp <= now
  <2>1. reserve[a] \in ReserveRecords /\ reserve[a].last_update_timestamp <= now
    BY <1>2, AccountStanding
  <2> QED
    BY <2>1 DEF Accounts, Ledger, LedgerTypes, ReserveRecords
<1> HIDE DEF k
<1>5. CASE reserve[a].last_update_timestamp = now
  <2>1. reserve[lite[m][p].asset].last_update_timestamp = now
    BY <1>5
  <2>2. \A n \in Margins, b \in Assets : PaidFor(n, b)
    BY <1>3, <2>1, RepayPays
  <2> QED
    BY <2>2
<1>6. CASE reserve[a].last_update_timestamp < now
  <2>1. ASSUME NEW n \in Margins, NEW b \in Assets \ {a} PROVE PaidFor(n, b)
    <3>1. debtShares'[n][b] = debtShares[n][b] /\ debtShares[n][b] \in Nat
      BY <1>1, <1>4
    <3> QED
      BY <3>1 DEF PaidFor
  <2> QED
    BY <1>6, <2>1
<1>7. reserve[a].last_update_timestamp = now \/ reserve[a].last_update_timestamp < now
  <2> HIDE DEF a
  <2>1. PICK t \in Nat : t = reserve[a].last_update_timestamp
    BY <1>4
  <2>2. t <= now /\ now \in Nat
    BY Zenon, <1>4, <2>1
  <2>3. t = now \/ t < now
    BY <2>2
  <2> QED
    BY Zenon, <2>1, <2>3
<1> QED
  BY Zenon, <1>5, <1>6, <1>7

\* An exit across two assets settles with the pool like a margin instruction.
LEMMA UnwindPays ==
  ASSUME Accounts, LiteInv, NEW m \in Margins, NEW p, NEW s \in Assets, NEW bps \in Exits,
         NEW out, NEW extra \in {0, 1}, lite_reduce_and_repay(m, p, s, bps, out, extra)
  PROVE  \A n \in Margins, b \in Assets : PaidFor(n, b)
<1> DEFINE y == lite[m][p].asset
           leg1 == UnwindRedemption(m, p, bps)
           leg2 == UnwindSwap(m, y, s, leg1.redeemed, out, extra)
           leg3 == UnwindRepayment(m, s, leg2.stock)
           settled == leg3.settlement
<1>1. /\ Pool(s)!AccrualOK /\ leg2.stock \in U64
      /\ leg3.sent > 0 => Pool(s)!SettlementSucceeds(m, settled)
      /\ reserve' = [reserve EXCEPT ![s] = settled.reserve]
      /\ liquidity' = [liquidity EXCEPT ![s] = @ + settled.received]
      /\ debtShares' = [debtShares EXCEPT ![m][s] = settled.shares]
      /\ now' = now
  <2>1. Pool(s)!AccrualOK
    BY Zenon DEF lite_reduce_and_repay, UnwindAllowed
  <2>2. {vault[m][y] + leg1.redeemed, leg2.stock} \subseteq U64 /\ UNCHANGED world
    BY Zenon DEF lite_reduce_and_repay
  <2>3. leg3.sent > 0 => Pool(s)!SettlementSucceeds(m, settled)
    BY Zenon DEF lite_reduce_and_repay
  <2>4. /\ reserve' = [reserve EXCEPT ![s] = settled.reserve]
        /\ liquidity' = [liquidity EXCEPT ![s] = @ + settled.received]
        /\ debtShares' = [debtShares EXCEPT ![m][s] = settled.shares]
    BY Zenon DEF lite_reduce_and_repay
  <2> HIDE DEF y, leg1, leg2, leg3, settled
  <2> QED
    BY <2>1, <2>2, <2>3, <2>4 DEF world
<1>2. PICK stock \in U64 : stock = leg2.stock
  BY <1>1
<1> DEFINE owed == Pool(s)!Owed(m)
           sent == MinOf(owed, stock)
<1>3. leg3 = UnwindRepayment(m, s, stock)
  BY <1>2
<1> HIDE DEF leg1, leg2, leg3
<1>4. LET leg == UnwindRepayment(m, s, stock)
      IN  leg.sent > 0 => Pool(s)!SettlementSucceeds(m, leg.settlement)
  BY <1>1, <1>3 DEF Pool!SettlementSucceeds
<1>5. LET leg == UnwindRepayment(m, s, stock)
          v == leg.settlement
      IN  /\ leg.sent \in 0..stock /\ v.received \in Nat
          /\ v.shares \in Nat
          /\ leg.sent = 0 => v.shares = debtShares[m][s]
          /\ Books(v.reserve, [SharesOf(s) EXCEPT ![m] = v.shares])
          /\ v.reserve.last_update_timestamp = now
  BY <1>1, <1>4, UnwindBooks
<1>6. /\ leg3.sent \in 0..stock /\ settled.received \in Nat /\ settled.shares \in Nat
      /\ leg3.sent = 0 => settled.shares = debtShares[m][s]
      /\ Books(settled.reserve, [SharesOf(s) EXCEPT ![m] = settled.shares])
      /\ settled.reserve.last_update_timestamp = now
  BY <1>3, <1>5
<1>7. Ledger /\ debtShares[m][s] \in Nat /\ owed \in Nat
  <2>1. Ledger /\ IInv /\ debtShares[m][s] \in Nat
    BY AccountStanding DEF Accounts
  <2>2. owed \in Nat
    BY <1>1, <2>1, OwedType DEF IInv, Types
  <2> QED
    BY <2>1, <2>2
<1>8. CASE leg3.sent = 0
  <2>1. settled.shares >= debtShares[m][s]
    BY <1>6, <1>7, <1>8
  <2> QED
    BY <1>1, <1>6, <1>7, <2>1, LoanBurnsNothing
<1>9. CASE leg3.sent > 0
  <2>1. leg3.sent = sent
    BY <1>3 DEF UnwindRepayment
  <2>2. settled = Pool(s)!Settlement(m, sent, owed)
    BY <1>3, <1>9, <2>1 DEF UnwindRepayment
  <2>3. sent \in U64 /\ owed > 0
    <3> HIDE DEF owed
    <3>1. stock \in Nat
      BY DEF U64
    <3>2. sent \in U64
      BY <1>7, PartOf
    <3> QED
      BY <1>7, <1>9, <2>1, <3>1, <3>2 DEF MinOf
  <2>4. PICK t \in U64 : t = sent
    BY <2>3
  <2>5. settled = Pool(s)!Settlement(m, t, owed)
    BY <2>2, <2>4
  <2>6. LET v == Pool(s)!Settlement(m, t, owed)
        IN  debt_shares_to_assets_up(v.shares, v.reserve.total_borrow_shares,
                                     v.reserve.total_borrow_assets) + v.received >= owed
    BY <1>1, <1>7, <2>3, SettlementPays
  <2> HIDE DEF settled, owed, sent
  <2>7. debt_shares_to_assets_up(settled.shares, settled.reserve.total_borrow_shares,
                                 settled.reserve.total_borrow_assets) + settled.received >= owed
    BY <2>5, <2>6
  <2>8. Pays(m, s, settled.reserve, settled.shares, settled.received)
    BY <1>1, <1>6, <2>7 DEF Pays, Books, owed
  <2> QED
    BY <1>6, <1>7, <2>8, PayerPays
<1>10. leg3.sent = 0 \/ leg3.sent > 0
  <2>1. leg3.sent \in Nat
    BY <1>6 DEF U64
  <2> QED
    BY <2>1
<1> QED
  BY <1>8, <1>9, <1>10

\* No exit forgives debt, and neither does anything else: what an account owes
\* falls by no more than a reserve receives, unless a repayment counts on totals
\* that miss some interest.
THEOREM ExitsAlwaysPay == LiteSpec => ExitsPayTheirDebt
<1> DEFINE Paid == \A m \in Margins, a \in Assets :
                      PaidFor(m, a) \/ reserve[a].last_update_timestamp < now
<1>1. LitePools(Nat) /\ [LiteNext]_vars => Paid
  <2> SUFFICES ASSUME LitePools(Nat), [LiteNext]_vars PROVE Paid
    OBVIOUS
  <2>1. Accounts /\ LiteInv /\ LitePlaces(Nat) /\ IInv /\ Ledger
    BY DEF LitePools, Accounts
  <2>2. (\A m \in Margins, a \in Assets : PaidFor(m, a)) => Paid
    OBVIOUS
  <2> HIDE DEF Paid
  <2>3. ASSUME debtShares' = debtShares PROVE Paid
    <3>1. \A n \in Margins, b \in Assets :
             debtShares'[n][b] \in Nat /\ debtShares'[n][b] >= debtShares[n][b]
      BY <2>1, <2>3 DEF Ledger, LedgerTypes
    <3> QED
      BY <2>1, <2>2, <3>1, NothingBurned
  <2>4. ASSUME NEW m \in Margins, NEW a \in Strategies, NEW p \in Chosen,
               NEW e \in Equities, NEW x \in Leverages, lite_open(m, p, a, e, x)
        PROVE  Paid
    BY <2>1, <2>2, <2>4, OpenBurnsNothing
  <2>5. ASSUME NEW m \in Margins, NEW a \in Strategies, NEW p \in Chosen,
               NEW x \in Supplies, NEW d \in Deltas, lite_supply(m, p, a, x, d)
        PROVE  Paid
    BY <2>3, <2>5 DEF lite_supply, unlent
  <2>6. ASSUME NEW m \in Margins, NEW p \in Places, NEW bps \in Exits, lite_reduce_redeem(m, p, bps)
        PROVE  Paid
    BY <2>3, <2>6 DEF lite_reduce_redeem
  <2>7. ASSUME NEW m \in Margins, NEW p \in Places, NEW bps \in Exits, lite_reduce_repay(m, p, bps)
        PROVE  Paid
    BY <2>1, <2>7, LateOrPaid DEF Paid
  <2>8. ASSUME NEW m \in Margins, NEW p \in Places, NEW s \in Assets, NEW bps \in Exits,
               NEW out \in Amounts, NEW extra \in {0, 1}, lite_reduce_and_repay(m, p, s, bps, out, extra)
        PROVE  Paid
    BY <2>1, <2>2, <2>8, UnwindPays
  <2>9. ASSUME NEW a \in Strategies, NEW x \in Rates, SetRate(a, x) PROVE Paid
    BY <2>3, <2>9 DEF SetRate
  <2>10. ASSUME Next PROVE Paid
    BY <2>1, <2>2, <2>10, MarginPays DEF Next
  <2>11. ASSUME UNCHANGED vars PROVE Paid
    BY <2>3, <2>11 DEF vars
  <2>12. ASSUME LiteStep PROVE Paid
    BY <2>4, <2>5, <2>6, <2>7, <2>8, <2>9, <2>12 DEF LiteStep
  <2> QED
    BY <2>10, <2>11, <2>12 DEF LiteNext
<1>2. ExitsPayTheirDebt <=> [][Paid]_vars
  BY DEF ExitsPayTheirDebt
<1> HIDE DEF Paid
<1> QED
  BY <1>1, <1>2, AnyWord, PTL DEF LiteSpec

-----------------------------------------------------------------------------
(* Health with Lite positions among the collateral *)

\* Positions of eight bytes are what the invariant of CrossMargin asks for.
LEMMA PoolsOfLite == LitePools(Words) => PoolsInv
<1> SUFFICES ASSUME LitePools(Words) PROVE PoolsInv
  OBVIOUS
<1>1. RecordsOf(Words) = LiteRecords
  BY DEF RecordsOf, LiteRecords, Words
<1>2. LiteTypes
  BY <1>1 DEF LitePools, LiteInv, LiteShape, LitePlaces, LiteTypes
<1> QED
  BY <1>2 DEF LitePools, Accounts, PoolsInv

\* A position that is stored is not the one that was there.
LEMMA StoreShows ==
  ASSUME LiteInv, NEW m \in Margins, NEW p, NEW position, StoresAt(m, p, position),
         p \notin DOMAIN lite[m] \/ lite[m][p] # position
  PROVE  lite'[m] # lite[m]
BY StoredThere

\* A position that is closed is gone.
LEMMA CloseShows ==
  ASSUME LiteInv, NEW m \in Margins, NEW p, ClosesAt(m, p)
  PROVE  lite'[m] # lite[m]
<1>1. DOMAIN lite = Margins /\ p \in DOMAIN lite[m]
  BY DEF LiteInv, LiteShape, ClosesAt
<1>2. lite'[m] = Restrict(lite[m], DOMAIN lite[m] \ {p})
  BY <1>1 DEF ClosesAt
<1>3. DOMAIN lite'[m] = DOMAIN lite[m] \ {p}
  BY <1>2 DEF Restrict
<1> QED
  BY <1>1, <1>3

\* Every Lite instruction changes a position of the account it is about, and
\* nothing in the vaults or debts of another.
MovesPosition(m) == lite'[m] # lite[m] /\ OnlyAccount(m)

\* An opening adds receipts to the position it stores.
LEMMA OpenShows ==
  ASSUME IInv, LiteInv, NEW m \in Margins, NEW p, NEW a \in Strategies, NEW e \in Equities,
         NEW x \in Leverages, lite_open(m, p, a, e, x)
  PROVE  MovesPosition(m)
<1> DEFINE minted == Minted(e + BorrowedFor(e, x), a)
           position == OpenedPosition(PositionAt(m, p, a), debtShares[m][a], e, BorrowedFor(e, x),
                           minted, Loan(m, a, BorrowedFor(e, x)).position - debtShares[m][a])
<1>1. StoresAt(m, p, position)
  BY OpenStores
<1>2. /\ minted > 0 /\ vault' = vault
      /\ debtShares' = [debtShares EXCEPT ![m][a] = Loan(m, a, BorrowedFor(e, x)).position]
  BY DEF lite_open
<1>3. minted \in Int
  <2>1. e + BorrowedFor(e, x) \in Int
    BY BorrowedType, LiteAssumption, ReserveMathAssumption DEF U64
  <2> QED
    BY <2>1, MintedType
<1>4. PositionOK(PositionAt(m, p, a))
  BY HeldOK
<1> HIDE DEF minted
<1>5. position.receipts = PositionAt(m, p, a).receipts + minted
  BY <1>4 DEF OpenedPosition, PositionOK, LiteFields
<1>6. p \in DOMAIN lite[m] => lite[m][p] # position
  BY <1>2, <1>3, <1>4, <1>5 DEF PositionAt, PositionOK
<1> HIDE DEF position
<1>7. lite'[m] # lite[m]
  BY <1>1, <1>6, StoreShows
<1>8. OnlyAccount(m)
  BY <1>2 DEF OnlyAccount, IInv, Types
<1> QED
  BY <1>7, <1>8 DEF MovesPosition

\* A supply does the same.
LEMMA SupplyShows ==
  ASSUME IInv, LiteInv, NEW m \in Margins, NEW p, NEW a \in Strategies, NEW x \in Supplies,
         NEW d \in Deltas, lite_supply(m, p, a, x, d)
  PROVE  MovesPosition(m)
<1> DEFINE minted == Minted(x, a)
           position == SuppliedPosition(PositionAt(m, p, a), debtShares[m][a], x, minted, d)
<1>1. StoresAt(m, p, position)
  BY SupplyStores
<1>2. /\ minted > 0 /\ debtShares' = debtShares
      /\ vault' = [vault EXCEPT ![m][a] = vault[m][a] - x]
  BY DEF lite_supply, unlent
<1>3. minted \in Int
  BY MintedType, LiteAssumption, ReserveMathAssumption DEF U64
<1>4. PositionOK(PositionAt(m, p, a))
  BY HeldOK
<1> HIDE DEF minted
<1>5. position.receipts = PositionAt(m, p, a).receipts + minted
  BY <1>4 DEF SuppliedPosition, PositionOK, LiteFields
<1>6. p \in DOMAIN lite[m] => lite[m][p] # position
  BY <1>2, <1>3, <1>4, <1>5 DEF PositionAt, PositionOK
<1> HIDE DEF position
<1>7. lite'[m] # lite[m]
  BY <1>1, <1>6, StoreShows
<1>8. OnlyAccount(m)
  BY <1>2 DEF OnlyAccount, IInv, Types
<1> QED
  BY <1>7, <1>8 DEF MovesPosition

\* The first half of an exit leaves a redemption pending that was not.
LEMMA RedeemShows ==
  ASSUME IInv, LiteInv, NEW m \in Margins, NEW p, NEW bps \in Exits, lite_reduce_redeem(m, p, bps)
  PROVE  MovesPosition(m)
<1>1. StoresAt(m, p, RedeemedPosition(m, p, bps)) /\ p \in DOMAIN lite[m] /\ ~lite[m][p].pending
  BY RedeemStores
<1>2. PositionOK(lite[m][p])
  BY <1>1 DEF LiteInv, LiteShape
<1>3. RedeemedPosition(m, p, bps).pending = TRUE
  BY <1>2 DEF RedeemedPosition, Reduced, PositionOK, LiteFields
<1>4. lite'[m] # lite[m]
  BY <1>1, <1>3, StoreShows
<1>5. OnlyAccount(m)
  BY DEF lite_reduce_redeem, OnlyAccount, IInv, Types
<1> QED
  BY <1>4, <1>5 DEF MovesPosition

\* The second half takes the pending redemption back, or closes the position.
LEMMA RepayShows ==
  ASSUME IInv, LiteInv, NEW m \in Margins, NEW p, NEW bps \in Exits, lite_reduce_repay(m, p, bps)
  PROVE  MovesPosition(m)
<1> DEFINE position == [lite[m][p] EXCEPT !.shares = ExitRepayment(m, lite[m][p], bps).rest,
                                          !.word = 0, !.pending = FALSE]
<1>1. /\ p \in DOMAIN lite[m] /\ lite[m][p].pending /\ UNCHANGED rate
      /\ StoredOrClosed(m, p, position, bps)
  BY Zenon DEF lite_reduce_repay
<1>2. position.pending = FALSE
  BY <1>1 DEF LiteInv, LiteShape, PositionOK, LiteFields
<1>3. lite[m][p] # position
  BY <1>1, <1>2
<1> HIDE DEF position
<1>4. lite'[m] # lite[m]
  BY <1>1, <1>3, ExitStores, StoreShows, CloseShows
<1>5. OnlyAccount(m)
  <2> DEFINE a == lite[m][p].asset
             left == vault[m][a] - lite[m][p].word
             shares == debtShares[m][a] - ExitRepayment(m, lite[m][p], bps).burned
  <2>1. /\ vault' = [vault EXCEPT ![m][a] = left]
        /\ debtShares' = [debtShares EXCEPT ![m][a] = shares]
    BY Zenon DEF lite_reduce_repay
  <2> HIDE DEF a, left, shares
  <2> QED
    BY <2>1 DEF OnlyAccount, IInv, Types
<1> QED
  BY <1>4, <1>5 DEF MovesPosition

\* An exit in one instruction takes receipts from the position, or closes it.
LEMMA UnwindShows ==
  ASSUME IInv, LiteInv, NEW m \in Margins, NEW p, NEW s \in Assets, NEW bps \in Exits,
         NEW out, NEW extra, lite_reduce_and_repay(m, p, s, bps, out, extra)
  PROVE  MovesPosition(m)
<1> DEFINE burned == UnwindRedemption(m, p, bps).burned
           position == Reduced(lite[m][p], burned)
<1>1. /\ UnwindAllowed(m, p, s) /\ burned > 0 /\ UNCHANGED rate
      /\ StoredOrClosed(m, p, position, bps)
  BY Zenon DEF lite_reduce_and_repay
<1>2. p \in DOMAIN lite[m] /\ lite[m][p].receipts > 0
  BY <1>1 DEF UnwindAllowed
<1>3. PositionOK(lite[m][p])
  BY <1>2 DEF LiteInv, LiteShape
<1>4. burned \in Nat
  BY <1>2, <1>3, ReducedOK DEF UnwindRedemption
<1> HIDE DEF burned
<1>5. position.receipts = lite[m][p].receipts - burned
  BY <1>3 DEF Reduced, PositionOK, LiteFields
<1>6. lite[m][p] # position
  BY <1>1, <1>3, <1>4, <1>5 DEF PositionOK
<1> HIDE DEF position
<1>7. lite'[m] # lite[m]
  BY <1>1, <1>2, <1>6, ExitStores, StoreShows, CloseShows
<1>8. OnlyAccount(m)
  <2> DEFINE y == lite[m][p].asset
             leg1 == UnwindRedemption(m, p, bps)
             leg2 == UnwindSwap(m, y, s, leg1.redeemed, out, extra)
             leg3 == UnwindRepayment(m, s, leg2.stock)
             k == leg3.settlement.shares
             back == leg2.yieldLeft
             rest == leg2.stock - leg3.sent
  <2>1. /\ vault' = [vault EXCEPT ![m][y] = back, ![m][s] = rest]
        /\ debtShares' = [debtShares EXCEPT ![m][s] = k]
    BY Zenon DEF lite_reduce_and_repay
  <2> HIDE DEF y, k, back, rest
  <2> QED
    BY <2>1 DEF OnlyAccount, IInv, Types
<1> QED
  BY <1>7, <1>8 DEF MovesPosition

\* A Lite instruction takes nothing from an account whose positions it leaves.
LEMMA LiteTakesNothing ==
  ASSUME IInv, LiteInv, LiteStep, NEW n \in Margins, lite'[n] = lite[n]
  PROVE  ~OwnerTakes(n)
<1>1. ASSUME NEW m \in Margins, MovesPosition(m) PROVE ~OwnerTakes(n)
  BY <1>1, NothingTaken DEF MovesPosition, OnlyAccount
<1>2. ASSUME NEW a \in Strategies, NEW x \in Rates, SetRate(a, x) PROVE ~OwnerTakes(n)
  BY <1>2, NothingTaken DEF SetRate
<1> QED
  BY <1>1, <1>2, OpenShows, SupplyShows, RedeemShows, RepayShows, UnwindShows DEF LiteStep

\* With the receipts of other programs among the collateral, what an owner
\* takes from vaults and reserves leaves a healthy account: at any exchange
\* rate and between the halves of an exit, while no tokens lie in a vault
\* without a slot.
THEOREM OwnersStillLeaveHealthy ==
  ASSUME NoFees, ProgramOnly, WordHolds
  PROVE  LiteSpec => OwnerStillLeavesHealthy
<1> DEFINE Left == \A m \in Margins :
                     NothingHidden(m) /\ lite'[m] = lite[m] /\ OwnerTakes(m)
                       => AccountHealthy(m)' \/ BorrowsHeldAsset(m)
<1>1. PoolsInv /\ PoolsInv' /\ LitePools(Words) /\ [LiteNext]_vars => Left
  <2> SUFFICES ASSUME PoolsInv, PoolsInv', LitePools(Words), [LiteNext]_vars PROVE Left
    OBVIOUS
  <2>1. IInv /\ LiteInv
    BY DEF LitePools, PoolsInv
  <2>2. ASSUME [Next]_vars PROVE Left
    BY <2>2, StepLeaves DEF StaysHealthy, LeavesHealthy, Seen, NothingHidden
  <2>3. ASSUME LiteStep PROVE Left
    BY <2>1, <2>3, LiteTakesNothing
  <2> QED
    BY <2>2, <2>3 DEF LiteNext
<1>2. LitePools(Words) => PoolsInv
  BY PoolsOfLite
<1>3. OwnerStillLeavesHealthy <=> [][Left]_vars
  BY DEF OwnerStillLeavesHealthy
<1> HIDE DEF Left
<1> QED
  BY <1>1, <1>2, <1>3, EightBytes, PTL DEF LiteSpec

-----------------------------------------------------------------------------
(* What positions are worth before and after an instruction that stores one *)

\* What the positions of an account are worth, by address.
LitePrices(m) == [p \in Places |-> IF p \in DOMAIN lite[m] THEN LiteValue(m, p) ELSE 0]

\* Receipts are worth a natural number.
LEMMA WorthType ==
  ASSUME NEW x \in Nat, NEW r \in Nat, NEW p \in Nat
  PROVE  /\ mul_div_floor(x, r, 100) \in Nat
         /\ mul_div_floor(mul_div_floor(x, r, 100), p, Scale) \in Nat
<1>1. PICK y \in Nat : y = mul_div_floor(x, r, 100)
  BY FloorBounds, 100 \in Nat \ {0}
<1>2. Scale \in Nat \ {0}
  BY CrossMarginAssumption
<1>3. mul_div_floor(y, p, Scale) \in Nat
  BY <1>2, FloorBounds
<1> QED
  BY <1>1, <1>3

\* A position is worth a natural number,
LEMMA LitePricesType ==
  ASSUME PoolsInv, NEW m \in Margins
  PROVE  LitePrices(m) \in [Places -> Nat]
<1>1. ASSUME NEW p \in DOMAIN lite[m] PROVE LiteValue(m, p) \in Nat
  <2>1. lite[m][p] \in LiteRecords
    BY DEF PoolsInv, LiteTypes
  <2>2. PICK a \in Assets, x \in Nat : a = lite[m][p].asset /\ x = lite[m][p].receipts
    BY <2>1, ReserveMathAssumption DEF LiteRecords, U64
  <2>3. rate[a] \in Nat /\ price[a] \in Nat
    BY CrossMarginAssumption DEF PoolsInv, LiteTypes, IInv, Types
  <2>4. ValueDown(receipt_value(x, a), a) \in Nat
    BY <2>3, WorthType DEF ValueDown, receipt_value
  <2> QED
    BY <2>2, <2>4 DEF LiteValue
<1> QED
  BY <1>1 DEF LitePrices

\* also after a step.
LEMMA LitePricesAfter ==
  ASSUME PoolsInv', NEW m \in Margins
  PROVE  LitePrices(m)' \in [Places -> Nat]
<1>1. ASSUME NEW p \in DOMAIN lite'[m] PROVE LiteValue(m, p)' \in Nat
  <2>1. lite'[m][p] \in LiteRecords
    BY DEF PoolsInv, LiteTypes
  <2>2. PICK a \in Assets, x \in Nat : a = lite'[m][p].asset /\ x = lite'[m][p].receipts
    BY <2>1, ReserveMathAssumption DEF LiteRecords, U64
  <2>3. PICK r \in Nat, c \in Nat : r = rate'[a] /\ c = price'[a]
    BY CrossMarginAssumption DEF PoolsInv, LiteTypes, IInv, Types
  <2>4. mul_div_floor(mul_div_floor(x, r, 100), c, Scale) \in Nat
    BY WorthType
  <2> QED
    BY <2>2, <2>3, <2>4 DEF LiteValue, ValueDown, receipt_value
<1> QED
  BY <1>1 DEF LitePrices

\* There are finitely many addresses.
LEMMA PlacesFinite == IsFiniteSet(Places)
BY Finite, FS_AddElement DEF Places

\* A check visits every position it does not name, because the registry lists
\* them all.
LEMMA LiteNow ==
  ASSUME PoolsInv, LiteInv, NEW m \in Margins, NEW N
  PROVE  LiteIn(m, N) = SumOver(LitePrices(m), DOMAIN lite[m] \ N)
<1>1. PICK s \in SUBSET Places : s = DOMAIN lite[m] \ N
  BY DEF PoolsInv, LiteTypes
<1>2. LiteVisited(m, N) = s
  BY <1>1 DEF LiteVisited, LiteInv, LiteShape, LiteRegistered
<1>3. PICK f \in [Places -> Nat] : f = LitePrices(m)
  BY LitePricesType
<1>4. \A p \in s : LiteValue(m, p) = f[p]
  BY <1>1, <1>3 DEF LitePrices
<1>5. IsFiniteSet(s)
  BY <1>1, PlacesFinite, FS_Subset
<1>6. \A p \in s : LiteValue(m, p) \in Nat
  BY <1>3, <1>4
<1>7. LiteIn(m, N) = SumOver([p \in s |-> LiteValue(m, p)], s)
  BY <1>2, <1>5, <1>6, LiteSum
<1>8. \A p \in s : [q \in s |-> LiteValue(m, q)][p] = f[p]
  BY <1>4
<1>9. SumOver([p \in s |-> LiteValue(m, p)], s) = SumOver(f, s)
  BY <1>8, SameSum
<1> QED
  BY <1>1, <1>3, <1>7, <1>9

\* The same for a check of the state after a step.
LEMMA LiteAfter ==
  ASSUME PoolsInv', LiteInv', NEW m \in Margins
  PROVE  LiteIn(m, {})' = SumOver(LitePrices(m)', DOMAIN lite'[m])
<1>1. PICK s \in SUBSET Places : s = DOMAIN lite'[m]
  BY DEF PoolsInv, LiteTypes
<1>2. LiteVisited(m, {})' = s
  BY <1>1 DEF LiteVisited, LiteInv, LiteShape, LiteRegistered
<1>3. PICK w \in [Places -> Nat] : w = LitePrices(m)'
  BY LitePricesAfter
<1>4. PICK f \in [s -> Nat] : f = [p \in s |-> w[p]]
  OBVIOUS
<1>5. IsFiniteSet(s)
  BY <1>1, PlacesFinite, FS_Subset
<1> DEFINE V(p) == LiteValue(m, p)'
           F(g) == [r \in SUBSET s |-> IF r = {} THEN 0 ELSE V(AnyOf(r)) + g[r \ {AnyOf(r)}]]
           iter == CHOOSE g : g = F(g)
<1>6. LiteIn(m, {})' = iter[s]
  BY <1>2 DEF LiteIn, MapThenSumSet, MapThenFoldSet, AnyOf, LiteValue
<1>7. \A p \in s : V(p) = f[p]
  BY <1>1, <1>3, <1>4 DEF LitePrices
<1> HIDE DEF V
<1>8. \A g : F(g) = FoldStep(s, f, g)
  BY <1>7 DEF AnyOf, FoldStep
<1> HIDE DEF F
<1>9. iter = CHOOSE g : g = FoldStep(s, f, g)
  BY <1>8
<1>10. iter[s] = SumOver(f, s)
  BY <1>5, <1>9, ChosenFold
<1>11. SumOver(f, s) = SumOver(w, s)
  BY <1>4, SameSum
<1> QED
  BY <1>1, <1>3, <1>6, <1>10, <1>11

\* Whatever is stored at p: the rest is worth what it was.
LEMMA LiteStored ==
  ASSUME PoolsInv, PoolsInv', LiteInv, LiteInv', UNCHANGED price, NEW m \in Margins,
         NEW p \in Places, NEW position, StoresAt(m, p, position)
  PROVE  LiteIn(m, {})' = LiteIn(m, {p}) + ReceiptsValue(position.receipts, position.asset)
<1>1. PICK f \in [Places -> Nat] : f = LitePrices(m)
  BY LitePricesType
<1>2. PICK g \in [Places -> Nat] : g = LitePrices(m)'
  BY LitePricesAfter
<1>3. PICK C \in SUBSET Places : C = DOMAIN lite[m]
  BY DEF PoolsInv, LiteTypes
<1>4. lite'[m] = [q \in C \cup {p} |-> IF q = p THEN position ELSE lite[m][q]]
  BY <1>3 DEF StoresAt, Stored, LiteInv, LiteShape
<1>5. PICK D \in SUBSET Places : D = C \cup {p} /\ D = DOMAIN lite'[m]
  BY <1>4
<1>6. PICK K \in SUBSET Places : K = C \ {p} /\ K = D \ {p}
  BY <1>5
<1>7. \A q \in K : g[q] = f[q]
  BY <1>1, <1>2, <1>3, <1>4, <1>5, <1>6
     DEF LitePrices, LiteValue, ValueDown, receipt_value, StoresAt
<1>8. g[p] = ReceiptsValue(position.receipts, position.asset)
  BY <1>2, <1>4, <1>5 DEF LitePrices, LiteValue, ValueDown, receipt_value, ReceiptsValue, StoresAt
<1>9. Revalued(Places, f, g, K, D, {p})
  BY <1>1, <1>2, <1>5, <1>6, <1>7, PlacesFinite DEF Revalued
<1>10. SumOver(g, D) = SumOver(f, K) + g[p]
  BY <1>9, OneRevalued
<1>11. LiteIn(m, {})' = SumOver(g, D)
  BY <1>2, <1>5, LiteAfter
<1>12. LiteIn(m, {p}) = SumOver(f, K)
  BY <1>1, <1>3, <1>6, LiteNow
<1> QED
  BY <1>8, <1>10, <1>11, <1>12

\* A position that is closed counts no more.
LEMMA LiteClosed ==
  ASSUME PoolsInv, PoolsInv', LiteInv, LiteInv', UNCHANGED price, NEW m \in Margins,
         NEW p \in Places, ClosesAt(m, p)
  PROVE  LiteIn(m, {})' = LiteIn(m, {p})
<1>1. PICK f \in [Places -> Nat] : f = LitePrices(m)
  BY LitePricesType
<1>2. PICK g \in [Places -> Nat] : g = LitePrices(m)'
  BY LitePricesAfter
<1>3. PICK D \in SUBSET Places : D = DOMAIN lite[m] \ {p}
  BY DEF PoolsInv, LiteTypes
<1>4. lite'[m] = [q \in D |-> lite[m][q]]
  BY <1>3 DEF ClosesAt, Restrict, LiteInv, LiteShape
<1>5. \A q \in D : g[q] = f[q]
  <2>1. UNCHANGED <<rate, price>>
    BY DEF ClosesAt
  <2>2. \A q \in D : LiteValue(m, q)' = LiteValue(m, q)
    BY <1>4, <2>1 DEF LiteValue, ValueDown, receipt_value
  <2>3. \A q \in D : q \in DOMAIN lite[m] /\ q \in DOMAIN lite'[m]
    BY <1>3, <1>4
  <2> QED
    BY <1>1, <1>2, <2>2, <2>3 DEF LitePrices
<1>6. SumOver(g, D) = SumOver(f, D)
  BY <1>5, SameSum
<1>7. LiteIn(m, {})' = SumOver(g, D)
  BY <1>2, <1>4, LiteAfter
<1>8. LiteIn(m, {p}) = SumOver(f, D)
  BY <1>1, <1>3, LiteNow
<1> QED
  BY <1>6, <1>7, <1>8
\* What a check finds is what it finds beside the position at p, and that one.
LEMMA LiteSplit ==
  ASSUME PoolsInv, LiteInv, NEW m \in Margins, NEW p \in Places
  PROVE  /\ LiteIn(m, {}) = LiteIn(m, {p}) + LitePrices(m)[p]
         /\ LiteIn(m, {p}) \in Nat /\ LitePrices(m)[p] \in Nat
<1>1. PICK f \in [Places -> Nat] : f = LitePrices(m)
  BY LitePricesType
<1>2. PICK D \in SUBSET Places : D = DOMAIN lite[m]
  BY DEF PoolsInv, LiteTypes
<1>3. PICK K \in SUBSET Places : K = D \ {p}
  OBVIOUS
<1>4. p \notin D => f[p] = 0
  BY <1>1, <1>2 DEF LitePrices
<1>5. Revalued(Places, f, f, K, D, {p})
  BY <1>3, <1>4, PlacesFinite DEF Revalued
<1>6. SumOver(f, D) = SumOver(f, K) + f[p]
  BY <1>5, OneRevalued
<1>7. SumOver(f, K) \in Nat
  BY PlacesFinite, SumType
<1>8. LiteIn(m, {p}) = SumOver(f, K)
  BY <1>1, <1>2, <1>3, LiteNow
<1>9. LiteIn(m, {}) = SumOver(f, D)
  <2>1. D \ {} = D
    OBVIOUS
  <2> QED
    BY <1>1, <1>2, <2>1, LiteNow
<1> QED
  BY <1>1, <1>6, <1>7, <1>8, <1>9

-----------------------------------------------------------------------------
(* A supply costs no more than its roundings *)

\* Of v tokens at price c, x are exchanged for receipts at rate r, on top of h:
\* two divisions round down, the exchange of the tokens and the value of what is
\* left of them.
LEMMA SupplyCosts ==
  ASSUME NEW left \in Nat, NEW x \in Nat, NEW h \in Nat, NEW r \in Nat \ {0}, NEW c \in Nat
  PROVE  LET minted == mul_div_floor(x, 100, r)
             worth(n) == mul_div_floor(n, c, Scale)
             held(n)  == worth(mul_div_floor(n, r, 100))
         IN  /\ minted \in Nat
             /\ worth(left + x) + held(h)
                  <= worth(left) + held(h + minted)
                       + mul_div_ceil(mul_div_floor(1, r, 100) + 1, c, Scale) + 1
<1>1. Scale \in Nat \ {0} /\ 100 \in Nat \ {0}
  BY CrossMarginAssumption
<1>2. PICK n \in Nat : n = mul_div_floor(x, 100, r)
  BY <1>1, FloorBounds
<1>3. PICK i, j, k, u \in Nat : /\ i = mul_div_floor(h, r, 100) /\ j = mul_div_floor(n, r, 100)
                                /\ k = mul_div_floor(h + n, r, 100) /\ u = mul_div_floor(1, r, 100)
  <2>1. h + n \in Nat
    OBVIOUS
  <2> QED
    BY <1>1, <2>1, FloorBounds
<1>4. i + j <= k
  BY <1>1, <1>3, FloorOfParts
<1>5. x <= j + (u + 1)
  <2>1. x <= j + u + 1
    BY <1>1, <1>2, <1>3, BoughtAndSold
  <2> QED
    BY <2>1
<1>6. PICK s, t, q \in Nat : s = left + x /\ t = j + (u + 1) /\ q = i + j
  OBVIOUS
<1>7. PICK ws, wl, wx, wi, wj, wk, wt, wq, up \in Nat :
        /\ ws = mul_div_floor(s, c, Scale) /\ wl = mul_div_floor(left, c, Scale)
        /\ wx = mul_div_floor(x, c, Scale) /\ wi = mul_div_floor(i, c, Scale)
        /\ wj = mul_div_floor(j, c, Scale) /\ wk = mul_div_floor(k, c, Scale)
        /\ wt = mul_div_floor(t, c, Scale) /\ wq = mul_div_floor(q, c, Scale)
        /\ up = mul_div_ceil(u + 1, c, Scale)
  <2>1. u + 1 \in Nat
    OBVIOUS
  <2> QED
    BY <1>1, <2>1, FloorBounds, CeilBounds
<1>8. ws <= wl + wx + 1
  BY <1>1, <1>6, <1>7, FloorOfParts
<1>9. wx <= wt
  BY <1>1, <1>5, <1>6, <1>7, FloorMonotone
<1>10. wt <= wj + up
  <2>1. u + 1 \in Nat
    OBVIOUS
  <2> QED
    BY <1>1, <1>6, <1>7, <2>1, FloorBelowCeil
<1>11. wi + wj <= wq
  BY <1>1, <1>6, <1>7, FloorOfParts
<1>12. wq <= wk
  BY <1>1, <1>4, <1>6, <1>7, FloorMonotone
<1>13. ws + wi <= wl + wk + up + 1
  BY <1>8, <1>9, <1>10, <1>11, <1>12
<1> QED
  BY <1>2, <1>3, <1>6, <1>7, <1>13

\* What a supply does to vaults and slots.
LeavesInVault(m, a, left) ==
  /\ vault' = [vault EXCEPT ![m][a] = left]
  /\ collActive' = SlotAfterSupply(m, a, left)
  /\ UNCHANGED price

\* The vaults of an account when a supply takes tokens from that of a, and a
\* slot only from a vault it empties.
LEMMA VaultsAfterSupply ==
  ASSUME IInv, IInv', NEW m \in Margins, NEW a \in Assets, a \in collActive[m], NEW left,
         LeavesInVault(m, a, left)
  PROVE  \E rest \in Nat :
           /\ VaultsIn(m, collActive[m]) = rest + ValueDown(vault[m][a], a)
           /\ VaultsIn(m, collActive[m])' = rest + ValueDown(left, a)
<1>1. PICK f \in [Assets -> Nat] : f = VaultValues(m)
  BY VaultValuesType
<1>2. PICK g \in [Assets -> Nat] : g = VaultValues(m)'
  BY VaultValuesAfter
<1>3. PICK C \in SUBSET Assets : C = collActive[m]
  BY DEF IInv, Types
<1>4. PICK D \in SUBSET Assets : D = collActive'[m]
  BY DEF IInv, Types
<1>5. a \in C
  BY <1>3
<1>6. PICK K \in SUBSET Assets : K = C \ {a} /\ K = D \ {a}
  BY <1>3, <1>4 DEF LeavesInVault, SlotAfterSupply, IInv, Types
<1>7. f[a] = ValueDown(vault[m][a], a)
  BY <1>1, <1>5 DEF VaultValues
<1>8. g[a] = ValueDown(left, a)
  BY <1>2, <1>5 DEF LeavesInVault, VaultValues, ValueDown, IInv, Types
<1>9. \A b \in K : g[b] = f[b]
  BY <1>1, <1>2, <1>6 DEF LeavesInVault, VaultValues, ValueDown, IInv, Types
<1>10. a \notin D => g[a] = 0
  <2> SUFFICES ASSUME a \notin D PROVE g[a] = 0
    OBVIOUS
  <2>1. left = 0
    BY <1>3, <1>4, <1>5 DEF LeavesInVault, SlotAfterSupply
  <2>2. PICK c \in Nat : c = price[a]
    BY <1>5 DEF IInv, Types
  <2>3. Scale \in Nat \ {0}
    BY CrossMarginAssumption
  <2>4. 0 * c = 0 /\ 0 \div Scale = 0
    BY <2>3
  <2> QED
    BY <1>8, <2>1, <2>2, <2>4 DEF ValueDown, mul_div_floor
<1>11. IsFiniteSet(Assets)
  BY Finite
<1>12. Revalued(Assets, f, f, K, C, {a})
  BY <1>5, <1>6, <1>11 DEF Revalued
<1>13. SumOver(f, C) = SumOver(f, K) + f[a]
  BY <1>12, OneRevalued
<1>14. SumOver(g, D) = SumOver(f, K) + g[a]
  <2>1. Revalued(Assets, f, g, K, D, {a})
    BY <1>5, <1>6, <1>9, <1>10, <1>11 DEF Revalued
  <2> QED
    BY <2>1, OneRevalued
<1>15. SumOver(f, K) \in Nat
  BY <1>11, SumType
<1>16. VaultsIn(m, C) = SumOver(f, C)
  BY <1>1, <1>11, FS_Subset, VaultsSum
<1>17. VaultsIn(m, D)' = SumOver(g, D)
  BY <1>2, <1>11, FS_Subset, VaultsSumAfter
<1>18. VaultsIn(m, collActive[m])' = VaultsIn(m, D)'
  BY <1>4 DEF VaultsIn, MapThenSumSet, MapThenFoldSet
<1> QED
  BY <1>3, <1>7, <1>8, <1>13, <1>14, <1>15, <1>16, <1>17, <1>18

\* A supply costs an account no more than three roundings.
LEMMA SupplyKeeps ==
  ASSUME PoolsInv, PoolsInv', LiteInv, LiteInv', NEW m \in Margins, NEW p \in Places,
         NEW a \in Strategies, NEW x \in Supplies, NEW d \in Deltas, lite_supply(m, p, a, x, d),
         a \in collActive[m]
  PROVE  AccountCollateral(m)' + ValueUp(receipt_value(1, a) + 1, a) + 1 >= AccountCollateral(m)
<1>1. a \in Assets /\ x \in Nat /\ UNCHANGED <<price, rate>>
  BY LiteAssumption, ReserveMathAssumption DEF lite_supply, world, U64
<1>2. PICK c \in Nat, r \in Nat \ {0} : c = price[a] /\ r = rate[a]
  BY <1>1, CrossMarginAssumption DEF PoolsInv, IInv, Types, LiteInv, LiteShape
<1>3. PICK left \in Nat : left = vault[m][a] - x
  BY <1>1, ReserveMathAssumption DEF lite_supply, PoolsInv, IInv, Types, U64
<1>4. vault[m][a] = left + x
  BY <1>1, <1>3, ReserveMathAssumption DEF PoolsInv, IInv, Types, U64
<1>5. LeavesInVault(m, a, left)
  BY <1>1, <1>3 DEF lite_supply, LeavesInVault
<1>6. PICK rest \in Nat : /\ VaultsIn(m, collActive[m]) = rest + ValueDown(left + x, a)
                          /\ VaultsIn(m, collActive[m])' = rest + ValueDown(left, a)
  BY <1>1, <1>4, <1>5, VaultsAfterSupply DEF PoolsInv
<1>7. PICK h \in Nat : h = PositionAt(m, p, a).receipts
  BY HeldOK DEF PositionOK
<1>8. PICK n \in Nat : n = Minted(x, a) /\ n = mul_div_floor(x, 100, r)
  BY <1>1, <1>2, SupplyCosts, 0 \in Nat DEF Minted
<1>9. PICK position \in LiteRecords :
        StoresAt(m, p, position) /\ position.asset = a /\ position.receipts = h + n
  <2> DEFINE position == SuppliedPosition(PositionAt(m, p, a), debtShares[m][a], x, Minted(x, a), d)
  <2>1. StoresAt(m, p, position) /\ position \in LiteRecords
    BY SupplyStores
  <2>2. PositionOK(PositionAt(m, p, a)) /\ PositionAt(m, p, a).asset = a
    BY HeldOK DEF lite_supply, position_seed
  <2>3. position.asset = a /\ position.receipts = h + n
    BY <1>7, <1>8, <2>2 DEF SuppliedPosition, PositionOK, LiteFields
  <2> HIDE DEF position
  <2> QED
    BY <2>1, <2>3
<1>10. LiteIn(m, {})' = LiteIn(m, {p}) + ReceiptsValue(h + n, a)
  BY <1>1, <1>9, LiteStored
<1>11. LitePrices(m)[p] = ReceiptsValue(h, a)
  <2>1. CASE p \in DOMAIN lite[m]
    <3>1. lite[m][p].asset = a /\ lite[m][p].receipts = h
      BY <1>7, <2>1 DEF lite_supply, position_seed, PositionAt
    <3> QED
      BY <2>1, <3>1 DEF LitePrices, LiteValue, ReceiptsValue
  <2>2. CASE p \notin DOMAIN lite[m]
    <3>1. h = 0
      BY <1>7, <2>2 DEF PositionAt, NewPosition
    <3>2. 0 * r = 0 /\ 0 \div 100 = 0 /\ 0 * c = 0 /\ 0 \div Scale = 0
      BY CrossMarginAssumption
    <3>3. ReceiptsValue(h, a) = 0
      BY <1>2, <3>1, <3>2 DEF ReceiptsValue, receipt_value, ValueDown, mul_div_floor
    <3> QED
      BY <2>2, <3>3 DEF LitePrices
  <2> QED
    BY <2>1, <2>2
<1>12. LiteIn(m, {}) = LiteIn(m, {p}) + ReceiptsValue(h, a)
  BY <1>11, LiteSplit
<1>13. PICK others, now1, then1 \in Nat :
         others = LiteIn(m, {p}) /\ now1 = ReceiptsValue(h, a) /\ then1 = ReceiptsValue(h + n, a)
  <2>1. LiteIn(m, {p}) \in Nat /\ ReceiptsValue(h, a) \in Nat
    BY <1>11, LiteSplit
  <2>2. ReceiptsValue(h + n, a) \in Nat
    <3>1. h + n \in Nat
      OBVIOUS
    <3> QED
      BY <1>2, <3>1, WorthType DEF ReceiptsValue, ValueDown, receipt_value
  <2> QED
    BY <2>1, <2>2
<1>14. PICK v, w, up \in Nat :
         v = ValueDown(left + x, a) /\ w = ValueDown(left, a) /\ up = ValueUp(receipt_value(1, a) + 1, a)
  <2>1. left + x \in Nat /\ Scale \in Nat \ {0}
    BY <1>1, CrossMarginAssumption
  <2>2. PICK u \in Nat : u = receipt_value(1, a)
    BY <1>2, WorthType, 1 \in Nat DEF receipt_value
  <2>3. ValueUp(u + 1, a) \in Nat
    BY <1>2, <2>1, CeilBounds, u + 1 \in Nat DEF ValueUp
  <2> QED
    BY <1>2, <2>1, <2>2, <2>3, FloorBounds DEF ValueDown
<1>15. v + now1 <= w + then1 + up + 1
  <2>1. mul_div_floor(left + x, c, Scale) + mul_div_floor(mul_div_floor(h, r, 100), c, Scale)
          <= mul_div_floor(left, c, Scale)
               + mul_div_floor(mul_div_floor(h + mul_div_floor(x, 100, r), r, 100), c, Scale)
               + mul_div_ceil(mul_div_floor(1, r, 100) + 1, c, Scale) + 1
    BY <1>1, SupplyCosts
  <2>2. /\ v = mul_div_floor(left + x, c, Scale) /\ w = mul_div_floor(left, c, Scale)
        /\ now1 = mul_div_floor(mul_div_floor(h, r, 100), c, Scale)
        /\ then1 = mul_div_floor(mul_div_floor(h + n, r, 100), c, Scale)
        /\ up = mul_div_ceil(mul_div_floor(1, r, 100) + 1, c, Scale)
    BY <1>2, <1>13, <1>14 DEF ReceiptsValue, receipt_value, ValueDown, ValueUp
  <2> QED
    BY <1>8, <2>1, <2>2
<1>16. AccountCollateral(m) = (rest + v) + (others + now1)
  BY <1>6, <1>12, <1>13, <1>14 DEF AccountCollateral, CollateralIn
<1>17. AccountCollateral(m)' = (rest + w) + (others + then1)
  BY <1>6, <1>10, <1>13, <1>14 DEF AccountCollateral, CollateralIn
<1>18. (rest + w) + (others + then1) + up + 1 >= (rest + v) + (others + now1)
  BY <1>15
<1> QED
  BY <1>14, <1>16, <1>17, <1>18

\* lite_supply exchanges collateral for receipts and looks at nobody's health;
\* what the account is worth falls by no more than the roundings of that
\* exchange, at any price and any rate above zero.
THEOREM SuppliesKeepValue ==
  ASSUME WordHolds
  PROVE  LiteSpec => SupplyKeepsValue
<1> DEFINE Kept == \A m \in Margins, p \in Places, a \in Strategies, x \in Supplies, d \in Deltas :
                     lite_supply(m, p, a, x, d) /\ price[a] > 0 /\ a \in collActive[m]
                       => AccountCollateral(m)' + ValueUp(receipt_value(1, a) + 1, a) + 1
                            >= AccountCollateral(m)
<1>1. PoolsInv /\ PoolsInv' /\ LitePools(Words) /\ LitePools(Words)' => Kept
  BY SupplyKeeps DEF LitePools
<1>2. LitePools(Words) => PoolsInv
  BY PoolsOfLite
<1>3. SupplyKeepsValue <=> [][Kept]_vars
  BY DEF SupplyKeepsValue
<1> HIDE DEF Kept
<1> QED
  BY <1>1, <1>2, <1>3, EightBytes, PTL DEF LiteSpec
-----------------------------------------------------------------------------
(* Openings and exits leave a healthy account *)

\* The receipt account covers each position alone.
LEMMA PositionCovered ==
  ASSUME ReceiptsOK, NEW m \in Margins, NEW p \in DOMAIN lite[m]
  PROVE  /\ lite[m][p].asset \in Assets /\ lite[m][p].receipts \in Nat
         /\ lite[m][p].receipts <= receipts[m][lite[m][p].asset]
<1>1. LiteInv /\ PositionOK(lite[m][p]) /\ p \in Places
  BY DEF ReceiptsOK, LiteInv, LiteShape
<1>2. PICK a \in Assets : a = lite[m][p].asset
  BY <1>1 DEF PositionOK
<1>3. lite[m][p].receipts \in Nat
  BY <1>1 DEF PositionOK
<1>4. PICK f \in [Places -> Nat] : f = Recorded(m, a)
  BY <1>1, RecordedType
<1>5. f[p] = lite[m][p].receipts
  BY <1>1, <1>2, <1>4 DEF Recorded
<1>6. f[p] <= TotalOf(f) /\ TotalOf(f) \in Nat
  BY <1>1, PlacesFinite, TotalOfExcept, 0 \in Nat
<1>7. TotalOf(f) <= receipts[m][a] /\ receipts[m][a] \in Nat
  BY <1>4 DEF ReceiptsOK, ReceiptsBacked
<1>8. lite[m][p].receipts <= receipts[m][a]
  BY <1>3, <1>5, <1>6, <1>7
<1> QED
  BY <1>2, <1>3, <1>8

\* What an instruction about the position at p leaves to the other positions,
\* which it has scanned: their assets are others, their receipts there.
SparesOthers(m, p, a) ==
  /\ LiteScannable(m, {p}, {a}) /\ price[a] > 0 /\ UNCHANGED price
  /\ \A b \in Assets \ {a} : receipts'[m][b] = receipts[m][b]

\* A scan finds the stored position and all the others.
LEMMA StoredScannable ==
  ASSUME LiteInv, LiteInv', NEW m \in Margins, NEW p \in Places, NEW a \in Assets, NEW position,
         StoresAt(m, p, position), SparesOthers(m, p, a),
         position.asset = a, position.receipts <= receipts'[m][a]
  PROVE  LiteScannable(m, {}, {})'
<1>1. LiteVisited(m, {p}) = DOMAIN lite[m] \ {p}
  BY DEF LiteVisited, LiteInv, LiteShape, LiteRegistered
<1>2. LiteVisited(m, {})' = DOMAIN lite'[m]
  BY DEF LiteVisited, LiteInv, LiteShape, LiteRegistered
<1>3. lite'[m] = [q \in DOMAIN lite[m] \cup {p} |-> IF q = p THEN position ELSE lite[m][q]]
  BY DEF StoresAt, Stored, LiteInv, LiteShape
<1>4. ASSUME NEW q \in DOMAIN lite[m] \ {p}
      PROVE  /\ lite'[m][q] = lite[m][q] /\ lite[m][q].asset \in Assets \ {a}
             /\ price[lite[m][q].asset] > 0
             /\ lite[m][q].receipts <= receipts[m][lite[m][q].asset]
             /\ \A o \in DOMAIN lite[m] \ {p, q} : lite[m][o].asset # lite[m][q].asset
  <2>1. PositionOK(lite[m][q])
    BY DEF LiteInv, LiteShape
  <2> QED
    BY <1>1, <1>3, <2>1 DEF SparesOthers, LiteScannable, PositionOK
<1>5. ASSUME NEW q \in DOMAIN lite[m] \ {p}
      PROVE  /\ price'[lite'[m][q].asset] > 0
             /\ lite'[m][q].receipts <= receipts'[m][lite'[m][q].asset]
             /\ \A o \in DOMAIN lite'[m] \ {q} : lite'[m][o].asset # lite'[m][q].asset
  <2>1. price'[lite'[m][q].asset] > 0 /\ lite'[m][q].receipts <= receipts'[m][lite'[m][q].asset]
    BY <1>4 DEF SparesOthers
  <2>2. ASSUME NEW o \in DOMAIN lite'[m] \ {q} PROVE lite'[m][o].asset # lite'[m][q].asset
    <3>1. CASE o = p
      BY <1>3, <1>4, <3>1
    <3>2. CASE o # p
      BY <1>3, <1>4, <3>2
    <3> QED
      BY <3>1, <3>2
  <2> QED
    BY <2>1, <2>2
<1>6. /\ price'[lite'[m][p].asset] > 0
      /\ lite'[m][p].receipts <= receipts'[m][lite'[m][p].asset]
      /\ \A o \in DOMAIN lite'[m] \ {p} : lite'[m][o].asset # lite'[m][p].asset
  BY <1>3, <1>4 DEF SparesOthers
<1> QED
  BY <1>2, <1>3, <1>5, <1>6 DEF LiteScannable

\* A scan finds all the others when a position is closed.
LEMMA ClosedScannable ==
  ASSUME LiteInv, LiteInv', NEW m \in Margins, NEW p, NEW a \in Assets, ClosesAt(m, p),
         SparesOthers(m, p, a)
  PROVE  LiteScannable(m, {}, {})'
<1>1. LiteVisited(m, {p}) = DOMAIN lite[m] \ {p}
  BY DEF LiteVisited, LiteInv, LiteShape, LiteRegistered
<1>2. LiteVisited(m, {})' = DOMAIN lite'[m]
  BY DEF LiteVisited, LiteInv, LiteShape, LiteRegistered
<1>3. lite'[m] = [q \in DOMAIN lite[m] \ {p} |-> lite[m][q]]
  BY DEF ClosesAt, Restrict, LiteInv, LiteShape
<1>4. ASSUME NEW q \in DOMAIN lite[m] \ {p}
      PROVE  /\ lite'[m][q] = lite[m][q] /\ lite[m][q].asset \in Assets \ {a}
             /\ price[lite[m][q].asset] > 0
             /\ lite[m][q].receipts <= receipts[m][lite[m][q].asset]
             /\ \A o \in DOMAIN lite[m] \ {p, q} : lite[m][o].asset # lite[m][q].asset
  <2>1. PositionOK(lite[m][q])
    BY DEF LiteInv, LiteShape
  <2> QED
    BY <1>1, <1>3, <2>1 DEF SparesOthers, LiteScannable, PositionOK
<1>5. ASSUME NEW q \in DOMAIN lite'[m]
      PROVE  /\ price'[lite'[m][q].asset] > 0
             /\ lite'[m][q].receipts <= receipts'[m][lite'[m][q].asset]
             /\ \A o \in DOMAIN lite'[m] \ {q} : lite'[m][o].asset # lite'[m][q].asset
  <2>1. q \in DOMAIN lite[m] \ {p} /\ DOMAIN lite'[m] = DOMAIN lite[m] \ {p}
    BY <1>3
  <2>2. /\ lite'[m][q] = lite[m][q] /\ lite[m][q].asset \in Assets \ {a}
        /\ price[lite[m][q].asset] > 0
        /\ lite[m][q].receipts <= receipts[m][lite[m][q].asset]
    BY <2>1, <1>4
  <2>3. price'[lite'[m][q].asset] > 0 /\ lite'[m][q].receipts <= receipts'[m][lite'[m][q].asset]
    BY <2>2 DEF SparesOthers
  <2>4. ASSUME NEW o \in DOMAIN lite'[m] \ {q} PROVE lite'[m][o].asset # lite'[m][q].asset
    <3>1. o \in DOMAIN lite[m] \ {p, q} /\ o \in DOMAIN lite[m] \ {p}
      BY <2>1
    <3> QED
      BY <2>1, <3>1, <1>4
  <2> QED
    BY <2>3, <2>4
<1> QED
  BY <1>2, <1>5 DEF LiteScannable

\* What a Lite instruction does to the debts of account m: only the one in d
\* changes, on a reserve that is up to date.
FreshDebtMove(m, d, r, k) ==
  /\ reserve' = [reserve EXCEPT ![d] = r]
  /\ debtShares' = [debtShares EXCEPT ![m][d] = k]
  /\ debtActive'[m] \ {d} = debtActive[m] \ {d}
  /\ r.last_update_timestamp = now

\* The debt of the account is then the scanned one of the other slots and what
\* is owed on that reserve, and every slot can be scanned.
LEMMA FreshDebt ==
  ASSUME Stepped, NEW m \in Margins, NEW d \in Assets, NEW r, NEW k, FreshDebtMove(m, d, r, k),
         SlotsScannable(m, {}, {d}), price[d] > 0, collActive' = collActive
  PROVE  /\ AccountDebt(m)' = DebtIn(m, debtActive[m] \ {d})
              + ValueUp(debt_shares_to_assets_up(k, r.total_borrow_shares, r.total_borrow_assets), d)
         /\ SlotsScannable(m, {}, {})'
<1>1. /\ reserve \in [Assets -> ReserveRecords]
      /\ debtShares \in [Margins -> [Assets -> Nat]]
      /\ debtActive' \in [Margins -> SUBSET Assets]
      /\ price' = price /\ now' = now /\ Ledger'
  BY DEF Stepped, PoolsInv, Ledger, LedgerTypes
<1>2. /\ reserve'[d] = r /\ debtShares'[m][d] = k
      /\ debtActive'[m] \ {d} = debtActive[m] \ {d}
      /\ \A x \in Assets \ {d} : /\ reserve'[x] = reserve[x]
                                 /\ debtShares'[m][x] = debtShares[m][x]
  BY <1>1 DEF FreshDebtMove
<1>3. /\ Pool(d)!AccrualOK'
      /\ Pool(d)!Owed(m)' = debt_shares_to_assets_up(k, r.total_borrow_shares, r.total_borrow_assets)
  BY <1>1, <1>2, FreshPool DEF FreshDebtMove
<1>4. AccountDebt(m)' = DebtIn(m, debtActive[m] \ {d}) + ValueUp(Pool(d)!Owed(m), d)'
  BY <1>2, DebtAfter
<1>5. ValueUp(Pool(d)!Owed(m), d)' =
        ValueUp(debt_shares_to_assets_up(k, r.total_borrow_shares, r.total_borrow_assets), d)
  BY <1>1, <1>3 DEF ValueUp
<1>6. \A b \in Assets \ {d} : Pool(b)!AccrualOK => Pool(b)!AccrualOK'
  BY <1>1, <1>2, SameOwed
<1>7. \A b \in debtActive'[m] : price'[b] > 0 /\ Pool(b)!AccrualOK'
  BY <1>1, <1>2, <1>3, <1>6 DEF SlotsScannable
<1>8. SlotsScannable(m, {}, {})'
  BY <1>1, <1>7 DEF SlotsScannable
<1> QED
  BY <1>4, <1>5, <1>8

\* The vaults of an account that nothing touches.
LEMMA VaultsKept ==
  ASSUME PoolsInv, PoolsInv', NEW m \in Margins, UNCHANGED <<vault, collActive, price>>
  PROVE  /\ VaultsIn(m, collActive[m])' = VaultsIn(m, collActive[m])
         /\ VaultsIn(m, collActive[m]) \in Nat
<1>1. PICK f \in [Assets -> Nat] : f = VaultValues(m)
  BY VaultValuesType DEF PoolsInv
<1>2. PICK C \in SUBSET Assets : C = collActive[m]
  BY DEF PoolsInv, IInv, Types
<1>3. IsFiniteSet(Assets) /\ IsFiniteSet(C)
  BY Finite, FS_Subset
<1>4. VaultsIn(m, C) = SumOver(f, C)
  BY <1>1, <1>3, VaultsSum
<1>5. SumOver(f, C) \in Nat
  BY <1>3, SumType
<1>6. VaultsIn(m, collActive[m])' = VaultsIn(m, collActive[m])
  BY DEF VaultsIn, MapThenSumSet, MapThenFoldSet, ValueDown
<1> QED
  BY <1>2, <1>4, <1>5, <1>6

\* What a repayment does to vaults and slots.
LeavesSlots(m, a, left) ==
  /\ vault' = [vault EXCEPT ![m][a] = left]
  /\ UNCHANGED <<collActive, price>>

\* What a repayment judges in the vaults is what it leaves there: a slot of the
\* asset that it pays from counts what is left, and no slot counts nothing.
LEMMA VaultsAfterRepay ==
  ASSUME IInv, IInv', NEW m \in Margins, NEW a \in Assets, NEW left \in Nat, LeavesSlots(m, a, left)
  PROVE  /\ VaultsIn(m, collActive[m])' =
              VaultsIn(m, collActive[m] \ {a})
                + (IF a \in collActive[m] THEN ValueDown(left, a) ELSE 0)
         /\ VaultsIn(m, collActive[m])' \in Nat
<1>1. PICK f \in [Assets -> Nat] : f = VaultValues(m)
  BY VaultValuesType
<1>2. PICK g \in [Assets -> Nat] : g = VaultValues(m)'
  BY VaultValuesAfter
<1>3. PICK C \in SUBSET Assets : C = collActive[m]
  BY DEF IInv, Types
<1>4. PICK K \in SUBSET Assets : K = C \ {a}
  BY <1>3
<1>5. g[a] = ValueDown(left, a)
  BY <1>2 DEF LeavesSlots, VaultValues, ValueDown, IInv, Types
<1>6. \A b \in K : g[b] = f[b]
  BY <1>1, <1>2, <1>4 DEF LeavesSlots, VaultValues, ValueDown, IInv, Types
<1>7. IsFiniteSet(Assets) /\ IsFiniteSet(C) /\ IsFiniteSet(K)
  BY Finite, FS_Subset
<1>8. VaultsIn(m, K) = SumOver(f, K)
  BY <1>1, <1>7, VaultsSum
<1>9. VaultsIn(m, C)' = SumOver(g, C)
  BY <1>2, <1>7, VaultsSumAfter
<1>10. VaultsIn(m, collActive[m])' = VaultsIn(m, C)'
  BY <1>3 DEF LeavesSlots, VaultsIn, MapThenSumSet, MapThenFoldSet
<1>11. SumOver(f, K) \in Nat /\ SumOver(g, C) \in Nat
  BY <1>7, SumType
<1>12. CASE a \in C
  <2>1. Revalued(Assets, f, g, K, C, {a})
    BY <1>4, <1>6, <1>7, <1>12 DEF Revalued
  <2>2. SumOver(g, C) = SumOver(f, K) + g[a]
    BY <2>1, OneRevalued
  <2> QED
    BY <1>3, <1>4, <1>5, <1>8, <1>9, <1>10, <1>11, <1>12, <2>2
<1>13. CASE a \notin C
  <2>1. K = C
    BY <1>4, <1>13
  <2>2. SumOver(g, C) = SumOver(f, K)
    BY <1>6, <2>1, SameSum
  <2> QED
    BY <1>3, <1>4, <1>8, <1>9, <1>10, <1>11, <1>13, <2>2
<1> QED
  BY <1>12, <1>13

\* The reserve of an opening is up to date, with a loan and without.
LEMMA OpenFresh ==
  ASSUME Accounts, NEW m \in Margins, NEW a \in Assets, NEW x \in Nat,
         Pool(a)!AccrualOK, OpenLoanAllowed(m, a, x)
  PROVE  Loan(m, a, x).reserve.last_update_timestamp = now
<1>1. CASE x = 0
  BY <1>1, NoLoan, CurrentBooks DEF Accounts
<1>2. CASE x > 0
  <2>1. /\ x \in Nat \ {0} /\ x <= Pool(a)!Current.accounted_liquidity_assets
        /\ Pool(a)!Current.total_borrow_assets + x \in U64
    BY <1>2 DEF OpenLoanAllowed, LoanAllowed
  <2> QED
    BY <2>1, LoanBooks DEF Accounts
<1> QED
  BY <1>1, <1>2

\* A leveraged position leaves a healthy account: the check counts the position
\* and the loan as they are stored, and everything else once.
LEMMA OpenHealthyAfter ==
  ASSUME PoolsInv, PoolsInv', LiteInv, LiteInv', ReceiptsOK, NEW m \in Margins, NEW p \in Places,
         NEW a \in Strategies, NEW e \in Equities, NEW x \in Leverages, lite_open(m, p, a, e, x)
  PROVE  AccountHealthy(m)'
<1> DEFINE borrowed == BorrowedFor(e, x)
           loan == Loan(m, a, borrowed)
           minted == Minted(e + borrowed, a)
           held == PositionAt(m, p, a)
           position == OpenedPosition(held, debtShares[m][a], e, borrowed, minted,
                                      loan.position - debtShares[m][a])
<1>1. a \in Assets /\ borrowed \in Nat
  BY BorrowedType, LiteAssumption
<1>2. /\ Pool(a)!AccrualOK /\ OpenLoanAllowed(m, a, borrowed) /\ held.asset = a
      /\ LiteScan(m, p, a, a) /\ OpenHealthy(m, p, a, position, loan)
      /\ receipts' = [receipts EXCEPT ![m][a] = @ + minted]
      /\ reserve' = [reserve EXCEPT ![a] = loan.reserve]
      /\ debtShares' = [debtShares EXCEPT ![m][a] = loan.position]
      /\ debtActive' = IF borrowed > 0 THEN [debtActive EXCEPT ![m] = @ \cup {a}] ELSE debtActive
      /\ UNCHANGED <<world, collActive, vault>>
  BY DEF lite_open, LendingOpen, position_seed
<1>3. /\ debtActive \in [Margins -> SUBSET Assets] /\ Accounts /\ UNCHANGED <<price, now>>
      /\ receipts \in [Margins -> [Assets -> Nat]]
  BY <1>2 DEF PoolsInv, Accounts, IInv, Types, world, ReceiptsOK
<1>4. StoresAt(m, p, position) /\ position \in LiteRecords
  BY OpenStores
<1>5. PositionOK(held) /\ minted \in Int
  <2>1. e \in Int
    BY LiteAssumption, ReserveMathAssumption DEF U64
  <2> HIDE DEF borrowed
  <2>2. e + borrowed \in Int
    BY <1>1, <2>1
  <2> QED
    BY <2>2, HeldOK, MintedType
<1>6. position.asset = a /\ position.receipts = held.receipts + minted
  BY <1>2, <1>5 DEF OpenedPosition, PositionOK, LiteFields
<1>7. held.receipts \in Nat /\ receipts[m][a] \in Nat /\ held.receipts <= receipts[m][a]
  <2>1. CASE p \in DOMAIN lite[m]
    BY <1>1, <1>2, <1>3, <2>1, PositionCovered DEF PositionAt
  <2>2. CASE p \notin DOMAIN lite[m]
    BY <1>1, <1>3, <2>2 DEF PositionAt, NewPosition
  <2> QED
    BY <2>1, <2>2
<1>8. debtActive'[m] \ {a} = debtActive[m] \ {a}
  <2> HIDE DEF borrowed
  <2> QED
    BY <1>1, <1>2, <1>3
<1>9. loan.reserve.last_update_timestamp = now
  BY <1>1, <1>2, <1>3, OpenFresh
<1>10. loan.owed = debt_shares_to_assets_up(loan.position, loan.reserve.total_borrow_shares,
                                            loan.reserve.total_borrow_assets)
  BY DEF Loan
<1> HIDE DEF borrowed, loan, minted, held, position
<1>11. FreshDebtMove(m, a, loan.reserve, loan.position)
  BY <1>2, <1>8, <1>9 DEF FreshDebtMove
<1>12. SlotsScannable(m, {}, {a}) /\ LiteScannable(m, {p}, {a}) /\ price[a] > 0
  BY <1>2 DEF LiteScan
<1>13. /\ AccountDebt(m)' = DebtIn(m, debtActive[m] \ {a}) + ValueUp(loan.owed, a)
       /\ SlotsScannable(m, {}, {})'
  <2>1. Stepped
    BY <1>3 DEF Stepped
  <2> QED
    BY <1>1, <1>2, <1>10, <1>11, <1>12, <2>1, FreshDebt
<1>14. SparesOthers(m, p, a)
  BY <1>1, <1>2, <1>3, <1>12 DEF SparesOthers
<1>15. position.receipts <= receipts'[m][a]
  <2>1. receipts'[m][a] = receipts[m][a] + minted
    BY <1>1, <1>2, <1>3
  <2> QED
    BY <1>5, <1>6, <1>7, <2>1
<1>16. LiteScannable(m, {}, {})'
  BY <1>1, <1>4, <1>6, <1>14, <1>15, StoredScannable
<1>17. PICK v \in Nat : v = VaultsIn(m, collActive[m]) /\ v = VaultsIn(m, collActive[m])'
  BY <1>2, <1>3, VaultsKept
<1>18. PICK others \in Nat : others = LiteIn(m, {p})
  BY LiteSplit
<1>19. PICK worth \in Nat : worth = ReceiptsValue(position.receipts, a)
  <2>1. position.receipts \in Nat
    BY <1>4, ReserveMathAssumption DEF LiteRecords, U64
  <2>2. rate[a] \in Nat /\ price[a] \in Nat
    BY <1>1, CrossMarginAssumption DEF PoolsInv, LiteTypes, IInv, Types
  <2> QED
    BY <2>1, <2>2, WorthType DEF ReceiptsValue, ValueDown, receipt_value
<1>20. LiteIn(m, {})' = others + worth
  BY <1>3, <1>4, <1>6, <1>18, <1>19, LiteStored
<1>21. AccountCollateral(m)' = v + others + worth
  <2>1. AccountCollateral(m)' = v + (others + worth)
    BY <1>17, <1>20 DEF AccountCollateral, CollateralIn
  <2> QED
    BY <2>1
<1>22. Healthy(v + others + worth, DebtIn(m, debtActive[m] \ {a}) + ValueUp(loan.owed, a))
  BY <1>2, <1>17, <1>18, <1>19 DEF OpenHealthy
<1>23. Scannable(m, {}, {})'
  BY <1>13, <1>16 DEF Scannable
<1> QED
  BY <1>13, <1>21, <1>22, <1>23, HealthyAfter

\* The second half of an exit leaves a healthy account when it finds the totals
\* of now: it judges what it leaves in the vault, all other slots once, and the
\* position that stays, or closes one in which nothing is left.
LEMMA RepayHealthyAfter ==
  ASSUME PoolsInv, PoolsInv', LiteInv, LiteInv', ReceiptsOK, NEW m \in Margins,
         NEW p \in DOMAIN lite[m], NEW bps \in Exits, lite_reduce_repay(m, p, bps),
         reserve[lite[m][p].asset].last_update_timestamp = now,
         bps = BasisPoints => lite[m][p].receipts = 0
  PROVE  AccountHealthy(m)'
<1> DEFINE position == lite[m][p]
           a == position.asset
           exit == ExitRepayment(m, position, bps)
           left == vault[m][a] - position.word
           k == debtShares[m][a] - exit.burned
           owed == debt_shares_to_assets_up(k, exit.reserve.total_borrow_shares,
                                            exit.reserve.total_borrow_assets)
           inVaults == VaultsIn(m, collActive[m] \ {a})
                         + (IF a \in collActive[m] THEN ValueDown(left, a) ELSE 0)
           after == [position EXCEPT !.shares = exit.rest, !.word = 0, !.pending = FALSE]
<1>1. /\ left >= 0 /\ exit.reserve.accounted_liquidity_assets \in U64
      /\ LiteScan(m, p, a, a)
      /\ Healthy(inVaults + LiteIn(m, {p}) + ReceiptsValue(position.receipts, a),
                 DebtIn(m, debtActive[m] \ {a}) + ValueUp(owed, a))
      /\ vault' = [vault EXCEPT ![m][a] = left]
      /\ reserve' = [reserve EXCEPT ![a] = exit.reserve]
      /\ debtShares' = [debtShares EXCEPT ![m][a] = k]
      /\ debtActive' = IF exit.paid > 0 /\ k = 0
                         THEN [debtActive EXCEPT ![m] = @ \ {a}] ELSE debtActive
      /\ StoredOrClosed(m, p, after, bps)
  BY Zenon DEF lite_reduce_repay
<1>2. UNCHANGED <<price, now, collActive, receipts, rate>>
  BY Zenon DEF lite_reduce_repay, world
<1>3. /\ p \in Places /\ position \in LiteRecords /\ PositionOK(position)
      /\ position.asset \in Assets /\ position.receipts \in Nat
      /\ position.receipts <= receipts[m][position.asset]
      /\ position.shares \in Nat /\ position.word \in Nat
  <2>1. p \in Places /\ position \in LiteRecords /\ PositionOK(position)
    BY DEF PoolsInv, LiteTypes, LiteInv, LiteShape
  <2>2. position.shares \in Nat /\ position.word \in Nat
    BY <2>1, ReserveMathAssumption, CrossMarginAssumption DEF LiteRecords, U64
  <2> QED
    BY <2>1, <2>2, PositionCovered
<1>4. /\ debtActive \in [Margins -> SUBSET Assets] /\ Accounts
      /\ vault \in [Margins -> [Assets -> U64]] /\ debtShares \in [Margins -> [Assets -> Nat]]
  BY DEF PoolsInv, Accounts, IInv, Types, Ledger, LedgerTypes
<1>5. exit.reserve.last_update_timestamp = now
  <2>1. exit.reserve.accounted_liquidity_assets \in U64
    BY <1>1, Zenon
  <2>2. exit.reserve.last_update_timestamp = reserve[a].last_update_timestamp
    BY <1>3, <1>4, <2>1, ExitBooks
  <2> QED
    BY <2>2
<1>6. left \in Nat
  <2>1. PICK v, w \in Int : v = vault[m][a] /\ w = position.word
    BY <1>3, <1>4, ReserveMathAssumption DEF U64
  <2>2. left >= 0
    BY <1>1, Zenon
  <2> QED
    BY <2>1, <2>2
<1>7. after.asset = a /\ after.receipts = position.receipts
  BY <1>3 DEF PositionOK, LiteFields
<1> HIDE DEF exit, left, owed, inVaults, after
<1>8. debtActive'[m] \ {a} = debtActive[m] \ {a}
  <2> HIDE DEF k, a
  <2> QED
    BY <1>1, <1>4
<1> HIDE DEF k
<1>9. FreshDebtMove(m, a, exit.reserve, k)
  BY <1>1, <1>5, <1>8 DEF FreshDebtMove
<1>10. SlotsScannable(m, {}, {a}) /\ LiteScannable(m, {p}, {a}) /\ price[a] > 0
  BY <1>1 DEF LiteScan
<1>11. /\ AccountDebt(m)' = DebtIn(m, debtActive[m] \ {a}) + ValueUp(owed, a)
       /\ SlotsScannable(m, {}, {})'
  <2>1. Stepped
    BY <1>2 DEF Stepped
  <2> QED
    BY <1>2, <1>3, <1>9, <1>10, <2>1, FreshDebt DEF owed
<1>12. SparesOthers(m, p, a)
  BY <1>2, <1>10 DEF SparesOthers
<1>13. PICK others \in Nat : others = LiteIn(m, {p})
  BY <1>3, LiteSplit
<1>14. PICK c \in Nat, r \in Nat : c = price[a] /\ r = rate[a]
  BY <1>3, CrossMarginAssumption DEF PoolsInv, LiteTypes, IInv, Types
<1>15. PICK worth \in Nat : worth = ReceiptsValue(position.receipts, a)
  BY <1>3, <1>14, WorthType DEF ReceiptsValue, ValueDown, receipt_value
<1>16. LiteScannable(m, {}, {})' /\ LiteIn(m, {})' = others + worth
  <2>1. CASE bps = BasisPoints
    <3>1. ClosesAt(m, p)
      BY <1>1, <1>2, <2>1 DEF StoredOrClosed, ClosesAt
    <3>2. LiteIn(m, {})' = others
      BY <1>2, <1>3, <1>13, <3>1, LiteClosed
    <3>3. 0 * r = 0 /\ 0 \div 100 = 0 /\ 0 * c = 0 /\ 0 \div Scale = 0
      BY CrossMarginAssumption
    <3>4. worth = 0
      BY <1>14, <1>15, <2>1, <3>3 DEF ReceiptsValue, receipt_value, ValueDown, mul_div_floor
    <3> QED
      BY <1>3, <1>12, <3>1, <3>2, <3>4, ClosedScannable
  <2>2. CASE bps # BasisPoints
    <3>1. StoresAt(m, p, after)
      BY <1>1, <1>2, <2>2 DEF StoredOrClosed, StoresAt
    <3>2. LiteIn(m, {})' = others + worth
      BY <1>2, <1>3, <1>7, <1>13, <1>15, <3>1, LiteStored
    <3>3. after.receipts <= receipts'[m][a]
      BY <1>2, <1>3, <1>7
    <3> QED
      BY <1>3, <1>7, <1>12, <3>1, <3>2, <3>3, StoredScannable
  <2> QED
    BY <2>1, <2>2
<1>17. PICK v \in Nat : v = VaultsIn(m, collActive[m])' /\ v = inVaults
  <2>1. LeavesSlots(m, a, left)
    BY <1>1, <1>2 DEF LeavesSlots
  <2> QED
    BY <1>3, <1>6, <2>1, VaultsAfterRepay DEF PoolsInv, inVaults
<1>18. AccountCollateral(m)' = v + others + worth
  <2>1. AccountCollateral(m)' = v + (others + worth)
    BY <1>16, <1>17 DEF AccountCollateral, CollateralIn
  <2> QED
    BY <2>1
<1>19. Healthy(v + others + worth, DebtIn(m, debtActive[m] \ {a}) + ValueUp(owed, a))
  BY <1>1, <1>13, <1>15, <1>17
<1>20. Scannable(m, {}, {})'
  BY <1>11, <1>16 DEF Scannable
<1> QED
  BY <1>11, <1>18, <1>19, <1>20, HealthyAfter

\* What an opening and a matching repayment have judged is the account that
\* they leave.  Only the second half of an exit at full size that finds
\* receipts in the position leaves another one: it closes what it counted.
THEOREM LitesLeaveHealthy ==
  ASSUME WordHolds
  PROVE  LiteSpec => LiteLeavesHealthy
<1> DEFINE Left == \A m \in Margins : Opens(m) \/ MatchingRepay(m) => AccountHealthy(m)'
           Known == LitePools(Words) /\ ReceiptsOK
<1>1. Known /\ Known' /\ PoolsInv /\ PoolsInv' => Left
  <2> SUFFICES ASSUME Known, Known', PoolsInv, PoolsInv', NEW m \in Margins,
                      Opens(m) \/ MatchingRepay(m)
               PROVE  AccountHealthy(m)'
    OBVIOUS
  <2>1. LiteInv /\ LiteInv' /\ ReceiptsOK
    BY DEF ReceiptsOK
  <2>2. CASE Opens(m)
    BY <2>1, <2>2, OpenHealthyAfter DEF Opens
  <2>3. CASE MatchingRepay(m)
    BY <2>1, <2>3, RepayHealthyAfter DEF MatchingRepay
  <2> QED
    BY <2>2, <2>3
<1>2. LitePools(Words) => PoolsInv
  BY PoolsOfLite
<1>3. LiteSpec => []ReceiptsOK
  BY InitReceipts, EveryStepBacked, PTL DEF LiteSpec
<1>4. LiteLeavesHealthy <=> [][Left]_vars
  BY DEF LiteLeavesHealthy
<1> HIDE DEF Left
<1> QED
  BY <1>1, <1>2, <1>3, <1>4, EightBytes, PTL DEF LiteSpec
=============================================================================
