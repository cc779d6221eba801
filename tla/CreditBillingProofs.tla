------------------------ MODULE CreditBillingProofs ------------------------
(***************************************************************************)
(* Proofs about the credit of an organization, for any number of sessions, *)
(* leases and amounts.                                                     *)
(***************************************************************************)
EXTENDS BillingRefinesLedger, TLAPS, FiniteSetTheorems

USE PoolsAssumption, LeasesAssumption, BillingAssumption

---------------------------------------------------------------------------
(* A draw takes no more than is asked for and no more than the allowance.  *)
LEMMA DrawBounds ==
  ASSUME NEW m \in Int, NEW a \in Nat
  PROVE  /\ MonthlyDraw(m, a) \in Nat
         /\ MonthlyDraw(m, a) <= a
         /\ m >= 0 => MonthlyDraw(m, a) <= m
         /\ m >= 0 /\ m < a => MonthlyDraw(m, a) = m
         /\ m >= a => MonthlyDraw(m, a) = a
  BY DEF MonthlyDraw, Larger, Smaller

LEMMA Division ==
  ASSUME NEW a \in Nat, NEW b \in Nat \ {0}
  PROVE  /\ a \div b \in Nat
         /\ b * (a \div b) <= a
         /\ a < b * (a \div b) + b
  OBVIOUS

(* A refund is divided between the pools without giving one of them more   *)
(* than was drawn from it.                                                 *)
LEMMA RefundBounds ==
  ASSUME NEW m \in Nat, NEW t \in Nat, NEW r \in Nat, r <= m + t
  PROVE  /\ MonthlyRefund(m, t, r) \in Nat
         /\ MonthlyRefund(m, t, r) <= m
         /\ MonthlyRefund(m, t, r) <= r
         /\ r - MonthlyRefund(m, t, r) <= t
  <1>1. CASE t = 0
    BY <1>1 DEF MonthlyRefund
  <1>2. CASE t # 0 /\ m = 0
    BY <1>2 DEF MonthlyRefund
  <1>3. CASE t # 0 /\ m # 0
    <2> DEFINE g == m + t
               x == r * m
               q == (2 * x + g) \div (2 * g)
    <2>1. g \in Nat \ {0} /\ x \in Nat
      BY <1>3
    <2>2. MonthlyRefund(m, t, r) = q
      BY <1>3 DEF MonthlyRefund
    <2>3. x <= g * m /\ x <= r * g /\ r * g - x <= g * t
      <3>1. r * m <= g * m
        OBVIOUS
      <3>2. r * m <= r * g
        OBVIOUS
      <3>3. r * g - r * m = r * t
        OBVIOUS
      <3>4. r * t <= g * t
        OBVIOUS
      <3> QED BY <3>1, <3>2, <3>3, <3>4
    <2>4. /\ q \in Nat
          /\ 2 * (g * q) <= 2 * x + g
          /\ 2 * x + g < 2 * (g * q) + 2 * g
      <3>1. 2 * x + g \in Nat /\ 2 * g \in Nat \ {0}
        BY <2>1
      <3>2. q \in Nat /\ (2 * g) * q <= 2 * x + g /\ 2 * x + g < (2 * g) * q + 2 * g
        BY <3>1, Division
      <3>3. (2 * g) * q = 2 * (g * q)
        BY <2>1, <3>2
      <3> QED BY <3>2, <3>3
    <2> HIDE DEF g, x, q
    <2>5. q <= m
      <3>1. g * q < g * m + g
        BY <2>1, <2>3, <2>4
      <3> QED BY <2>1, <2>4, <3>1
    <2>6. q <= r
      <3>1. g * q < r * g + g
        BY <2>1, <2>3, <2>4
      <3> QED BY <2>1, <2>4, <3>1
    <2>7. r - q <= t
      <3>1. g * r - g * q < g * t + g
        BY <2>1, <2>3, <2>4
      <3>2. ASSUME t + 1 <= r - q PROVE FALSE
        <4>1. g * (t + 1) <= g * (r - q)
          BY <2>1, <2>4, <3>2
        <4>2. g * (t + 1) = g * t + g /\ g * (r - q) = g * r - g * q
          BY <2>1, <2>4
        <4> QED BY <2>1, <2>4, <3>1, <4>1, <4>2
      <3> QED BY <2>4, <3>2
    <2> QED BY <2>2, <2>4, <2>5, <2>6, <2>7
  <1> QED BY <1>1, <1>2, <1>3


LEMMA IdleTyped == Idle \in Transactions
  BY DEF Idle, Transactions

(* What a grant or a settlement, and what a closure begins with.           *)
LEMMA BegunTyped ==
  ASSUME NEW op \in {"grant", "settle"}, NEW l \in Leases, NEW n \in Nat,
         NEW flag \in BOOLEAN
  PROVE  [Idle EXCEPT !.op = op, !.on = {l}, !.asked = n, !.lenient = flag] \in Transactions
  <1> DEFINE one   == [Idle EXCEPT !.op = op]
             two   == [one EXCEPT !.on = {l}]
             three == [two EXCEPT !.asked = n]
             four  == [three EXCEPT !.lenient = flag]
  <1>1. one \in Transactions
    BY IdleTyped DEF Transactions
  <1>2. [Idle EXCEPT !.op = op, !.on = {l}, !.asked = n, !.lenient = flag] = four
    OBVIOUS
  <1> HIDE DEF one
  <1>3. two \in Transactions
    BY <1>1 DEF Transactions
  <1> HIDE DEF two
  <1>4. three \in Transactions
    BY <1>3 DEF Transactions
  <1> HIDE DEF three
  <1>5. four \in Transactions
    BY <1>4 DEF Transactions
  <1> QED BY <1>2, <1>5

LEMMA ClosingTyped ==
  ASSUME NEW l \in Leases, NEW flag \in BOOLEAN
  PROVE  [Idle EXCEPT !.op = "close", !.on = {l}, !.lenient = flag] \in Transactions
  <1> DEFINE one   == [Idle EXCEPT !.op = "close"]
             two   == [one EXCEPT !.on = {l}]
             three == [two EXCEPT !.lenient = flag]
  <1>1. one \in Transactions
    BY IdleTyped DEF Transactions
  <1>2. [Idle EXCEPT !.op = "close", !.on = {l}, !.lenient = flag] = three
    OBVIOUS
  <1> HIDE DEF one
  <1>3. two \in Transactions
    BY <1>1 DEF Transactions
  <1> HIDE DEF two
  <1>4. three \in Transactions
    BY <1>3 DEF Transactions
  <1> QED BY <1>2, <1>4

LEMMA TypeInit == Init => TypeOK
  <1>1. Init => txn \in [Sessions -> Transactions]
    BY IdleTyped DEF Init, LeasesInit
  <1>2. Init => PoolsTypeOK
    BY DEF Init, PoolsInit, PoolsTypeOK
  <1>3. Init => LeasesTypeOK
    BY <1>1 DEF Init, LeasesInit, LeasesTypeOK, Statuses
  <1>4. Init => /\ refill \in [Refillers -> {"idle", "low", "locked", "charged", "granted"}]
                /\ request \in [Requests -> {"idle", "passed", "charged"}]
    BY DEF Init
  <1>5. Init => charges \in 0 .. MaxCharges
    BY DEF Init, BillingAssumption
  <1>6. Init => refillLock \in BOOLEAN /\ refillOn \in BOOLEAN
    BY DEF Init
  <1> QED BY <1>2, <1>3, <1>4, <1>5, <1>6 DEF TypeOK

(* What the money of other paths than leases may do.                       *)
LEMMA OutsideSteps ==
  ASSUME TypeOK, Renew \/ RefillStep \/ RequestStep
  PROVE  /\ TypeOK'
         /\ UNCHANGED <<leaseVars, closure, txn, paidVars>>
         /\ OrgUnlocked \/ UNCHANGED <<monthly, topup>>
         /\ monthly' \in {monthly, PlanGrant}
         /\ topup >= 0 => topup' >= 0
  <1> USE DEF TypeOK, PoolsTypeOK, PoolsOnly, poolVars, creditVars, refillVars, LeasesTypeOK,
              leaseVars, paidVars, RefillMoves
  <1>1. CASE Renew
    BY <1>1 DEF Renew, MonthlyReset
  <1>2. ASSUME NEW r \in Refillers, RefillReads(r) \/ RefillTakesLock(r) \/ RefillFindsLock(r)
        PROVE  UNCHANGED creditVars /\ TypeOK'
    <2>1. CASE RefillReads(r)
      BY <2>1 DEF RefillReads
    <2>2. CASE RefillTakesLock(r)
      BY <2>2 DEF RefillTakesLock
    <2>3. CASE RefillFindsLock(r)
      BY <2>3 DEF RefillFindsLock
    <2> QED BY <1>2, <2>1, <2>2, <2>3
  <1>3. ASSUME NEW r \in Refillers, RefillCharges(r) \/ RefillDeclined(r) \/ RefillReturns(r)
        PROVE  UNCHANGED creditVars /\ TypeOK'
    <2>1. CASE RefillCharges(r)
      BY <2>1 DEF RefillCharges
    <2>2. CASE RefillDeclined(r)
      BY <2>2 DEF RefillDeclined
    <2>3. CASE RefillReturns(r)
      BY <2>3 DEF RefillReturns
    <2> QED BY <1>3, <2>1, <2>2, <2>3
  <1>4. ASSUME NEW r \in Refillers, RefillGrants(r)
        PROVE  /\ TypeOK' /\ OrgUnlocked /\ PoolsOnly
               /\ monthly' = monthly /\ topup' = topup + RefillAmount
    BY <1>4 DEF RefillGrants, AddTopup
  <1>5. ASSUME NEW r \in Refillers, RefillBreaks(r)
        PROVE  /\ TypeOK'
               /\ UNCHANGED <<poolVars, leaseVars, closure, txn, paidVars>>
    <2>1. /\ refill' \in [Refillers -> {"idle", "low", "locked", "charged", "granted"}]
          /\ refillLock' \in BOOLEAN
      BY <1>5 DEF RefillBreaks
    <2>2. rollbacks' \in 0 .. MaxRollbacks
      BY <1>5 DEF RefillBreaks
    <2> QED BY <1>5, <2>1, <2>2 DEF RefillBreaks
  <1>6. CASE RefillLockExpires
    BY <1>6 DEF RefillLockExpires
  <1>7. ASSUME NEW q \in Requests,
               RequestPassesGate(q) \/ RequestFails(q) \/ RequestReturns(q)
        PROVE  UNCHANGED creditVars /\ TypeOK'
    BY <1>7 DEF RequestPassesGate, RequestFails, RequestReturns
  <1>8. ASSUME NEW q \in Requests, NEW price \in Prices, RequestCharged(q, price)
        PROVE  /\ TypeOK' /\ OrgUnlocked /\ PoolsOnly
               /\ monthly' = monthly /\ topup' = Larger(0, topup - price)
    BY <1>8 DEF RequestCharged, DeductTopup, Larger
  <1> QED BY <1>1, <1>2, <1>3, <1>4, <1>5, <1>6, <1>7, <1>8 DEF RefillStep, RequestStep, Larger

(* The portions of a lease and its settlement are what the pools can give. *)
LEMMA AmountTyped == TypeOK => \A l \in Leases : Amount(l) \in Nat
  BY DEF TypeOK, LeasesTypeOK, Amount

LEMMA ChargeTyped ==
  ASSUME TypeOK, NEW s \in Sessions, NEW l \in Leases
  PROVE  /\ Charge(s, l) \in Nat
         /\ ~ txn[s].lenient => Charge(s, l) <= Amount(l)
  BY AmountTyped DEF TypeOK, LeasesTypeOK, Charge, Transactions, Smaller

LEMMA GrantedTyped ==
  ASSUME TypeOK, NEW s \in Sessions, Admitted(s)
  PROVE  /\ Granted(s) \in Nat
         /\ ~ txn[s].lenient => Granted(s) <= Seen(s)
         /\ txn[s].seenMonthly \in Int /\ txn[s].seenTopup \in Int
         /\ Seen(s) = txn[s].seenMonthly + txn[s].seenTopup
  BY DEF TypeOK, LeasesTypeOK, Transactions, Granted, Admitted, Seen, Balance, Smaller

(* What an admitted grant draws from the allowance is part of the grant.    *)
LEMMA GrantDrawTyped ==
  ASSUME TypeOK, NEW s \in Sessions, Admitted(s)
  PROVE  /\ Granted(s) \in Nat
         /\ MonthlyDraw(txn[s].seenMonthly, Granted(s)) \in Nat
         /\ MonthlyDraw(txn[s].seenMonthly, Granted(s)) <= Granted(s)
  <1> DEFINE g == Granted(s)
             m == txn[s].seenMonthly
  <1>1. g \in Nat /\ m \in Int
    BY GrantedTyped
  <1> HIDE DEF g, m
  <1>2. MonthlyDraw(m, g) \in Nat /\ MonthlyDraw(m, g) <= g
    BY <1>1, DrawBounds
  <1> QED BY <1>1, <1>2 DEF g, m

(* What a true-up draws from the allowance, and what a settlement gives    *)
(* back to it.                                                             *)
TrueUpDraw(s, l) == MonthlyDraw(monthly, Charge(s, l) - Amount(l))
RefundBack(s, l) == MonthlyRefund(fromMonthly[l], fromTopup[l], Amount(l) - Charge(s, l))

LEMMA TrueUpTyped ==
  ASSUME TypeOK, NEW s \in Sessions, NEW l \in Leases, Charge(s, l) - Amount(l) > 0
  PROVE  /\ TrueUpDraw(s, l) \in Nat
         /\ TrueUpDraw(s, l) <= Charge(s, l) - Amount(l)
         /\ monthly >= 0 => TrueUpDraw(s, l) <= monthly
  <1>1. Charge(s, l) - Amount(l) \in Nat /\ monthly \in Int
    BY AmountTyped, ChargeTyped DEF TypeOK, PoolsTypeOK
  <1> QED BY <1>1, DrawBounds DEF TrueUpDraw

LEMMA RefundTyped ==
  ASSUME TypeOK, NEW s \in Sessions, NEW l \in Leases, Amount(l) - Charge(s, l) > 0
  PROVE  /\ RefundBack(s, l) \in Nat
         /\ RefundBack(s, l) <= fromMonthly[l]
         /\ RefundBack(s, l) <= Amount(l) - Charge(s, l)
         /\ Amount(l) - Charge(s, l) - RefundBack(s, l) <= fromTopup[l]
  <1>1. /\ fromMonthly[l] \in Nat /\ fromTopup[l] \in Nat
        /\ Amount(l) = fromMonthly[l] + fromTopup[l]
    BY DEF TypeOK, LeasesTypeOK, Amount
  <1>2. Amount(l) - Charge(s, l) \in Nat /\ Amount(l) - Charge(s, l) <= fromMonthly[l] + fromTopup[l]
    BY <1>1, ChargeTyped
  <1> QED BY <1>1, <1>2, RefundBounds DEF RefundBack

(* Moving an integer amount between pools and leases keeps their types.     *)
LEMMA MovePoolsTyped ==
  ASSUME TypeOK, NEW l \in Leases, NEW a \in Int, NEW b \in Int, MovePools(l, a, b)
  PROVE  PoolsTypeOK' /\ paidMonthly' \in [Leases -> Int] /\ paidTopup' \in [Leases -> Int]
  <1>1. monthly' \in Int /\ topup' \in Int
    BY DEF MovePools, TypeOK, PoolsTypeOK
  <1>2. PoolsTypeOK'
    BY <1>1 DEF MovePools, TypeOK, PoolsTypeOK
  <1>3. paidMonthly' \in [Leases -> Int] /\ paidTopup' \in [Leases -> Int]
    BY <1>1 DEF MovePools, TypeOK, PoolsTypeOK, LeasesTypeOK
  <1> QED BY <1>2, <1>3

(* What a settlement does to the lease's row has its type.                 *)
LEMMA SettleMarksTyped ==
  ASSUME TypeOK, NEW s \in Sessions, NEW l \in Leases, SettleMarks(s, l)
  PROVE  /\ status' \in [Leases -> Statuses] /\ txn' \in [Sessions -> Transactions]
         /\ settledFor' \in [Leases -> Nat]
  <1>1. Charge(s, l) \in Nat
    BY ChargeTyped
  <1>2. status' \in [Leases -> Statuses]
    BY DEF SettleMarks, TypeOK, LeasesTypeOK, Statuses
  <1>3. txn' \in [Sessions -> Transactions]
    BY IdleTyped DEF SettleMarks, End, TypeOK, LeasesTypeOK
  <1>4. settledFor' \in [Leases -> Nat]
    BY <1>1 DEF SettleMarks, TypeOK, LeasesTypeOK
  <1> QED BY <1>2, <1>3, <1>4

LEMMA TypeLeaseStep ==
  ASSUME TypeOK, LeaseStep, UNCHANGED <<refillVars, request>>
  PROVE  TypeOK'
  <1> USE DEF TypeOK, refillVars
  <1> SUFFICES PoolsTypeOK' /\ LeasesTypeOK'
    OBVIOUS
  <1> USE DEF PoolsTypeOK, LeasesTypeOK, poolVars, leaseVars, paidVars
  <1>1. ASSUME NEW s \in Sessions, NEW l \in Leases, NEW flag \in Modes, NEW amount \in Asked(flag),
               GrantBegins(s, l, amount, flag)
        PROVE  PoolsTypeOK' /\ LeasesTypeOK'
    <2>1. txn' \in [Sessions -> Transactions]
      BY <1>1 DEF GrantBegins, Begin, Idle, Asked, Transactions
    <2> QED BY <1>1, <2>1 DEF GrantBegins
  <1>2. ASSUME NEW s \in Sessions, NEW l \in Leases, NEW flag \in Modes, NEW actual \in Costs,
               SettleBegins(s, l, actual, flag)
        PROVE  PoolsTypeOK' /\ LeasesTypeOK'
    <2> DEFINE begun == [Idle EXCEPT !.op = "settle", !.on = {l}, !.asked = actual,
                                     !.lenient = flag]
    <2>1. txn' \in [Sessions -> Transactions]
      <3>1. begun \in Transactions
        BY LeasesAssumption, BegunTyped
      <3>2. txn' = [txn EXCEPT ![s] = begun]
        BY <1>2 DEF SettleBegins, Begin
      <3> HIDE DEF begun
      <3> QED BY <3>1, <3>2
    <2> QED BY <1>2, <2>1 DEF SettleBegins
  <1>3. ASSUME NEW s \in Sessions, NEW l \in Reservations,
               CloseBegins(s, l)
        PROVE  PoolsTypeOK' /\ LeasesTypeOK'
    <2> DEFINE begun == [Idle EXCEPT !.op = "close", !.on = {l},
                                     !.lenient = status[l] # "none"]
    <2>1. txn' \in [Sessions -> Transactions]
      <3>1. begun \in Transactions
        BY LeasesAssumption, ClosingTyped
      <3>2. txn' = [txn EXCEPT ![s] = begun]
        BY <1>3 DEF CloseBegins, Begin
      <3> HIDE DEF begun
      <3> QED BY <3>1, <3>2
    <2> QED BY <1>3, <2>1 DEF CloseBegins
  <1>4. ASSUME NEW s \in Sessions,
               ReclaimBegins(s)
        PROVE  PoolsTypeOK' /\ LeasesTypeOK'
    <2>1. txn' \in [Sessions -> Transactions]
      BY <1>4 DEF ReclaimBegins, Begin, Idle, Transactions
    <2> QED BY <1>4, <2>1 DEF ReclaimBegins
  <1>5. ASSUME NEW s \in Sessions,
               GrantLocksOrg(s)
        PROVE  PoolsTypeOK' /\ LeasesTypeOK'
    <2>1. txn' \in [Sessions -> Transactions]
      <3> DEFINE one   == [txn[s] EXCEPT !.op = "grantFunded"]
                 two   == [one EXCEPT !.seenMonthly = monthly]
                 three == [two EXCEPT !.seenTopup = topup]
      <3>1. one \in Transactions
        BY DEF Transactions
      <3>2. two \in Transactions
        BY <3>1 DEF Transactions
      <3>3. three \in Transactions
        BY <3>2 DEF Transactions
      <3>4. txn' = [txn EXCEPT ![s] = three]
        BY <1>5 DEF GrantLocksOrg
      <3> QED BY <3>3, <3>4
    <2> QED BY <1>5, <2>1 DEF GrantLocksOrg
  <1>6. ASSUME NEW s \in Sessions, NEW l \in Leases,
               GrantReplays(s, l)
        PROVE  PoolsTypeOK' /\ LeasesTypeOK'
    BY IdleTyped, <1>6 DEF GrantReplays, End
  <1>7. ASSUME NEW s \in Sessions, NEW l \in Leases,
               GrantRefused(s, l)
        PROVE  PoolsTypeOK' /\ LeasesTypeOK'
    BY IdleTyped, <1>7 DEF GrantRefused, End
  <1>8. ASSUME NEW s \in Sessions, NEW l \in Leases,
               GrantCommits(s, l)
        PROVE  PoolsTypeOK' /\ LeasesTypeOK'
    <2>1. status' \in [Leases -> Statuses] /\ txn' \in [Sessions -> Transactions]
      BY IdleTyped, <1>8 DEF GrantCommits, End, Statuses
    <2>2. Admitted(s)
      BY <1>8 DEF GrantCommits
    <2>3. /\ Granted(s) \in Nat
          /\ MonthlyDraw(txn[s].seenMonthly, Granted(s)) \in Nat
          /\ MonthlyDraw(txn[s].seenMonthly, Granted(s)) <= Granted(s)
      BY <2>2, GrantDrawTyped
    <2> DEFINE draw == MonthlyDraw(txn[s].seenMonthly, Granted(s))
               rest == Granted(s) - draw
    <2>4. MovePools(l, -draw, -rest)
      BY <1>8 DEF GrantCommits
    <2>5. fromMonthly' = [fromMonthly EXCEPT ![l] = draw] /\ fromTopup' = [fromTopup EXCEPT ![l] = rest]
      BY <1>8 DEF GrantCommits
    <2>6. draw \in Nat /\ rest \in Nat /\ -draw \in Int /\ -rest \in Int
      BY <2>3
    <2> HIDE DEF draw, rest
    <2>7. PoolsTypeOK' /\ paidMonthly' \in [Leases -> Int] /\ paidTopup' \in [Leases -> Int]
      BY <2>4, <2>6, MovePoolsTyped
    <2>8. fromMonthly' \in [Leases -> Nat] /\ fromTopup' \in [Leases -> Nat]
      BY <2>5, <2>6
    <2> QED BY <1>8, <2>1, <2>7, <2>8 DEF GrantCommits
  <1>9. ASSUME NEW s \in Sessions, NEW l \in Leases,
               SettleExactly(s, l)
        PROVE  PoolsTypeOK' /\ LeasesTypeOK'
    <2>1. SettleMarks(s, l)
      BY <1>9 DEF SettleExactly
    <2>2. /\ status' \in [Leases -> Statuses] /\ txn' \in [Sessions -> Transactions]
          /\ settledFor' \in [Leases -> Nat]
      BY <2>1, SettleMarksTyped
    <2> QED BY <1>9, <2>1, <2>2 DEF SettleExactly, SettleMarks
  <1>10. ASSUME NEW s \in Sessions, NEW l \in Leases,
               SettleTruesUp(s, l)
        PROVE  PoolsTypeOK' /\ LeasesTypeOK'
    <2>1. SettleMarks(s, l)
      BY <1>10 DEF SettleTruesUp
    <2>2. /\ status' \in [Leases -> Statuses] /\ txn' \in [Sessions -> Transactions]
          /\ settledFor' \in [Leases -> Nat]
      BY <2>1, SettleMarksTyped
    <2>3. TrueUpDraw(s, l) \in Nat
      BY TrueUpTyped, <1>10 DEF SettleTruesUp
    <2> QED BY AmountTyped, ChargeTyped, <1>10, <2>1, <2>2, <2>3
         DEF SettleTruesUp, SettleMarks, MovePools, TrueUpDraw
  <1>11. ASSUME NEW s \in Sessions, NEW l \in Leases,
               SettleRefunds(s, l)
        PROVE  PoolsTypeOK' /\ LeasesTypeOK'
    <2>1. SettleMarks(s, l)
      BY <1>11 DEF SettleRefunds
    <2>2. /\ status' \in [Leases -> Statuses] /\ txn' \in [Sessions -> Transactions]
          /\ settledFor' \in [Leases -> Nat]
      BY <2>1, SettleMarksTyped
    <2>3. RefundBack(s, l) \in Nat
      BY RefundTyped, <1>11 DEF SettleRefunds
    <2> QED BY AmountTyped, ChargeTyped, <1>11, <2>1, <2>2, <2>3
         DEF SettleRefunds, SettleMarks, MovePools, RefundBack
  <1>12. ASSUME NEW s \in Sessions, NEW l \in Leases,
               ReclaimAbandons(s, l)
        PROVE  PoolsTypeOK' /\ LeasesTypeOK'
    <2>1. txn' \in [Sessions -> Transactions]
      <3> DEFINE swept == [txn[s] EXCEPT !.swept = txn[s].swept \cup {l}]
      <3>1. txn' = [txn EXCEPT ![s] = swept]
        BY <1>12 DEF ReclaimAbandons, Transactions
      <3>2. swept \in Transactions
        BY DEF Transactions
      <3> HIDE DEF swept
      <3> QED BY <3>1, <3>2
    <2> QED BY <1>12, <2>1 DEF ReclaimAbandons
  <1>13. ASSUME NEW s \in Sessions, NEW l \in Leases,
               ReclaimRefunds(s, l)
        PROVE  PoolsTypeOK' /\ LeasesTypeOK'
    <2>1. txn' \in [Sessions -> Transactions]
      <3> DEFINE toMonthly == txn[s].backMonthly + fromMonthly[l]
                 toTopup   == txn[s].backTopup + fromTopup[l]
                 one   == [txn[s] EXCEPT !.swept = txn[s].swept \cup {l}]
                 two   == [one EXCEPT !.backMonthly = toMonthly]
                 three == [two EXCEPT !.backTopup = toTopup]
      <3>1. txn' = [txn EXCEPT ![s] = three]
        BY <1>13 DEF ReclaimRefunds, Transactions
      <3>2. toMonthly \in Nat /\ toTopup \in Nat
        BY DEF Transactions
      <3>3. one \in Transactions
        BY DEF Transactions
      <3> HIDE DEF toMonthly, toTopup, one
      <3>4. two \in Transactions
        BY <3>2, <3>3 DEF Transactions
      <3> HIDE DEF two
      <3>5. three \in Transactions
        BY <3>2, <3>4 DEF Transactions
      <3> QED BY <3>1, <3>5
    <2> QED BY <1>13, <2>1 DEF ReclaimRefunds
  <1>14. ASSUME NEW s \in Sessions,
               ReclaimCommits(s)
        PROVE  PoolsTypeOK' /\ LeasesTypeOK'
    <2>1. status' \in [Leases -> Statuses] /\ txn' \in [Sessions -> Transactions]
      BY IdleTyped, <1>14 DEF ReclaimCommits, End, Statuses
    <2>2. txn[s].backMonthly \in Nat /\ txn[s].backTopup \in Nat
      BY DEF Transactions
    <2> QED BY <1>14, <2>1, <2>2 DEF ReclaimCommits
  <1>15. ASSUME NEW s \in Sessions, NEW l \in Reservations,
               CloseCommits(s, l)
        PROVE  PoolsTypeOK' /\ LeasesTypeOK'
    BY IdleTyped, <1>15 DEF CloseCommits, End
  <1>16. ASSUME NEW s \in Sessions,
               Rollback(s)
        PROVE  PoolsTypeOK' /\ LeasesTypeOK'
    BY IdleTyped, <1>16 DEF Rollback, End
  <1>17. ASSUME NEW l \in Leases,
               LeaseExpires(l)
        PROVE  PoolsTypeOK' /\ LeasesTypeOK'
    BY <1>17 DEF LeaseExpires
  <1> QED
    BY <1>1, <1>2, <1>3, <1>4, <1>5, <1>6, <1>7, <1>8, <1>9, <1>10, <1>11, <1>12, <1>13, <1>14, <1>15, <1>16, <1>17
    DEF LeaseStep, SessionStep, Proceeds

LEMMA TypeStep == TypeOK /\ [Next]_billingVars => TypeOK'
  <1>1. TypeOK /\ UNCHANGED billingVars => TypeOK'
    BY DEF TypeOK, PoolsTypeOK, LeasesTypeOK, billingVars, creditVars, poolVars, leaseVars,
       paidVars, refillVars
  <1> QED BY <1>1, OutsideSteps, TypeLeaseStep DEF Next

(* The variables keep their types, and no portion of a lease is negative.  *)
THEOREM CreditTypes == Spec => []TypeOK
  BY TypeInit, TypeStep, PTL DEF Spec

---------------------------------------------------------------------------
(* The inductive invariant.  The locks are exclusive; what a transaction   *)
(* read under a lock is still so while it holds the lock; and each lease   *)
(* accounts for what it has cost.                                          *)

OnReservation(s) == txn[s].op \in {"grant", "grantFunded", "close"}
OnLease(s) == txn[s].op \in {"settle", "reclaim"}

LocksExclude ==
  \A s, t \in Sessions : s # t =>
    /\ OnReservation(s) /\ OnReservation(t) => txn[s].on \cap txn[t].on = {}
    /\ OnLease(s) /\ OnLease(t) => txn[s].on \cap txn[t].on = {}
    /\ ~ (LocksOrg(s) /\ LocksOrg(t))

(* A sweep gives money back under the row lock only.                       *)
SweepsOwn ==
  \A s \in Sessions :
    /\ txn[s].swept \subseteq txn[s].on
    /\ txn[s].swept # {} => txn[s].op = "reclaim"
    /\ ~ LocksOrg(s) => txn[s].backMonthly = 0 /\ txn[s].backTopup = 0

LeasesHeld ==
  \A s \in Sessions : \A l \in txn[s].on :
    /\ txn[s].op = "reclaim" => status[l] = "active"
    /\ txn[s].op = "settle" => status[l] \in {"active", "abandoned"}

LockInv == LocksExclude /\ SweepsOwn /\ LeasesHeld

ReadsHold ==
  \A s \in Sessions :
    txn[s].op = "grantFunded" => txn[s].seenMonthly = monthly /\ txn[s].seenTopup = topup

PaidFor(l) ==
  /\ status[l] \in {"none", "reclaimed"} => paidMonthly[l] = 0 /\ paidTopup[l] = 0
  /\ status[l] \in {"active", "abandoned"} =>
       paidMonthly[l] = fromMonthly[l] /\ paidTopup[l] = fromTopup[l]
  /\ status[l] = "settled" =>
       /\ paidMonthly[l] + paidTopup[l] = settledFor[l]
       /\ paidMonthly[l] >= 0 /\ paidTopup[l] >= 0

Accounts == \A l \in Leases : PaidFor(l)

MoneyInv == ReadsHold /\ MonthlyNonNegative /\ Accounts

ClosingSees ==
  \A s \in Sessions : \A l \in txn[s].on \cap Reservations :
    /\ txn[s].op \in {"grant", "grantFunded"} => closure[l] = "open"
    /\ txn[s].op = "close" => (txn[s].lenient <=> status[l] # "none")

(* Who may go beyond what is there: a nominal grant, and a settlement with *)
(* overdraft, which alone settles what a sweep has abandoned.              *)
LenientRules ==
  \A s \in Sessions :
    /\ txn[s].op \in {"grant", "grantFunded", "settle"} => txn[s].lenient \in Modes
    /\ txn[s].op \in {"grant", "grantFunded"} /\ txn[s].lenient => txn[s].asked = MinLease
    /\ txn[s].op = "settle" =>
         \A l \in txn[s].on : status[l] = "abandoned" => txn[s].lenient

---------------------------------------------------------------------------
(* A step of a session begins a transaction, continues it or ends it.      *)

Beginning(s) ==
  \/ \E l \in Leases, flag \in Modes :
       \/ \E amount \in Asked(flag) : GrantBegins(s, l, amount, flag)
       \/ \E actual \in Costs : SettleBegins(s, l, actual, flag)
  \/ \E l \in Reservations : CloseBegins(s, l)
  \/ ReclaimBegins(s)

Continuing(s) ==
  \/ GrantLocksOrg(s)
  \/ \E l \in Leases : ReclaimAbandons(s, l) \/ ReclaimRefunds(s, l)

Paying(s) ==
  \/ \E l \in Leases :
       GrantCommits(s, l) \/ SettleExactly(s, l) \/ SettleTruesUp(s, l) \/ SettleRefunds(s, l)
  \/ ReclaimCommits(s)

Closing(s) == \E l \in Reservations : CloseCommits(s, l)

Leaving(s) == Rollback(s) \/ \E l \in Leases : GrantReplays(s, l) \/ GrantRefused(s, l)

LEMMA StepKinds ==
  ASSUME NEW s \in Sessions, SessionStep(s)
  PROVE  Beginning(s) \/ Continuing(s) \/ Paying(s) \/ Closing(s) \/ Leaving(s)
  BY DEF SessionStep, Proceeds, Beginning, Continuing, Paying, Closing, Leaving

Quiet == UNCHANGED <<poolVars, leaseVars, closure, paidVars>>

OthersKeepTxn(s) == \A t \in Sessions \ {s} : txn'[t] = txn[t]

LEMMA LeavingStep ==
  ASSUME TypeOK, NEW s \in Sessions, Leaving(s)
  PROVE  Quiet /\ OthersKeepTxn(s) /\ txn'[s] = Idle
  BY DEF Leaving, GrantReplays, GrantRefused, Rollback, End, Quiet, OthersKeepTxn, TypeOK,
     LeasesTypeOK

LEMMA EndingStep ==
  ASSUME TypeOK, NEW s \in Sessions, Paying(s) \/ Closing(s)
  PROVE  OthersKeepTxn(s) /\ txn'[s] = Idle
  <1>1. End(s)
    BY DEF Paying, Closing, GrantCommits, SettleExactly, SettleTruesUp, SettleRefunds,
       SettleMarks, ReclaimCommits, CloseCommits
  <1> QED BY <1>1 DEF End, OthersKeepTxn, TypeOK, LeasesTypeOK

(* What a transaction that has just begun looks like.                      *)
Begun(r) ==
  /\ r.swept = {} /\ r.backMonthly = 0 /\ r.backTopup = 0
  /\ \/ /\ r.op = "grant" /\ r.lenient \in Modes /\ (r.lenient => r.asked = MinLease)
        /\ \E l \in Leases : /\ r.on = {l} /\ ReservationFree(l)
                             /\ l \in Reservations => closure[l] = "open"
     \/ /\ r.op = "close"
        /\ \E l \in Reservations : /\ r.on = {l} /\ ReservationFree(l)
                                   /\ r.lenient = (status[l] # "none")
     \/ /\ r.op = "settle" /\ r.lenient \in Modes
        /\ \E l \in Leases : /\ r.on = {l} /\ LeaseFree(l)
                             /\ status[l] \in {"active", "abandoned"}
                             /\ status[l] = "abandoned" => r.lenient
     \/ /\ r.op = "reclaim"
        /\ \A l \in r.on : l \in Leases /\ LeaseFree(l) /\ status[l] = "active"

LEMMA BeginningStep ==
  ASSUME TypeOK, NEW s \in Sessions, Beginning(s)
  PROVE  Quiet /\ OthersKeepTxn(s) /\ txn[s] = Idle /\ Begun(txn'[s])
  <1> USE DEF Begin, Quiet, OthersKeepTxn, TypeOK, LeasesTypeOK, Idle, Begun
  <1>1. ASSUME NEW l \in Leases, NEW flag \in Modes, NEW amount \in Asked(flag),
               GrantBegins(s, l, amount, flag)
        PROVE  Quiet /\ OthersKeepTxn(s) /\ txn[s] = Idle /\ Begun(txn'[s])
    BY <1>1 DEF GrantBegins, Asked
  <1>2. ASSUME NEW l \in Leases, NEW flag \in Modes, NEW actual \in Costs,
               SettleBegins(s, l, actual, flag)
        PROVE  Quiet /\ OthersKeepTxn(s) /\ txn[s] = Idle /\ Begun(txn'[s])
    BY <1>2 DEF SettleBegins, Settleable
  <1>3. ASSUME NEW l \in Reservations, CloseBegins(s, l)
        PROVE  Quiet /\ OthersKeepTxn(s) /\ txn[s] = Idle /\ Begun(txn'[s])
    BY <1>3 DEF CloseBegins
  <1>4. ASSUME ReclaimBegins(s)
        PROVE  Quiet /\ OthersKeepTxn(s) /\ txn[s] = Idle /\ Begun(txn'[s])
    BY <1>4 DEF ReclaimBegins, Sweepable
  <1> QED BY <1>1, <1>2, <1>3, <1>4 DEF Beginning

(* What may change in a transaction that goes on.                          *)
Continued(s) ==
  /\ txn'[s].on = txn[s].on /\ txn'[s].lenient = txn[s].lenient
  /\ txn'[s].asked = txn[s].asked
  /\ \/ /\ txn[s].op = "grant" /\ txn'[s].op = "grantFunded" /\ OrgFree(s)
        /\ txn'[s].seenMonthly = monthly /\ txn'[s].seenTopup = topup
        /\ txn'[s].swept = txn[s].swept
        /\ txn'[s].backMonthly = txn[s].backMonthly /\ txn'[s].backTopup = txn[s].backTopup
     \/ /\ txn[s].op = "reclaim" /\ txn'[s].op = "reclaim"
        /\ \E l \in txn[s].on :
             /\ txn'[s].swept = txn[s].swept \cup {l}
             /\ \/ /\ Amount(l) <= MinLease
                   /\ txn'[s].backMonthly = txn[s].backMonthly
                   /\ txn'[s].backTopup = txn[s].backTopup
                \/ Amount(l) > MinLease /\ OrgFree(s)

LEMMA ContinuingStep ==
  ASSUME TypeOK, NEW s \in Sessions, Continuing(s)
  PROVE  Quiet /\ OthersKeepTxn(s) /\ Continued(s)
  <1> USE DEF Quiet, OthersKeepTxn, TypeOK, LeasesTypeOK, Transactions, Continued
  <1>1. ASSUME GrantLocksOrg(s) PROVE Quiet /\ OthersKeepTxn(s) /\ Continued(s)
    BY <1>1 DEF GrantLocksOrg
  <1>2. ASSUME NEW l \in Leases, ReclaimAbandons(s, l)
        PROVE  Quiet /\ OthersKeepTxn(s) /\ Continued(s)
    BY <1>2 DEF ReclaimAbandons, Sweeps
  <1>3. ASSUME NEW l \in Leases, ReclaimRefunds(s, l)
        PROVE  Quiet /\ OthersKeepTxn(s) /\ Continued(s)
    BY <1>3 DEF ReclaimRefunds, Sweeps
  <1> QED BY <1>1, <1>2, <1>3 DEF Continuing

---------------------------------------------------------------------------
(* Locks.                                                                  *)

(* The portions of the leases that are being swept do not change.          *)
LEMMA SweptKeepAmount ==
  ASSUME TypeOK, LockInv, NEW s \in Sessions, SessionStep(s),
         NEW t \in Sessions, NEW l \in txn[t].swept
  PROVE  UNCHANGED <<fromMonthly[l], fromTopup[l], Amount(l)>>
  <1>1. CASE Beginning(s) \/ Continuing(s) \/ Closing(s) \/ Leaving(s)
    BY <1>1, BeginningStep, ContinuingStep, LeavingStep
       DEF Quiet, leaseVars, Closing, CloseCommits, Amount
  <1>2. ASSUME NEW g \in Leases, GrantCommits(s, g)
        PROVE  UNCHANGED <<fromMonthly[l], fromTopup[l], Amount(l)>>
    <2>1. status[l] = "active" /\ status[g] = "none"
      BY <1>2 DEF LockInv, SweepsOwn, LeasesHeld, GrantCommits
    <2> QED BY <1>2, <2>1 DEF GrantCommits, Amount, TypeOK, LeasesTypeOK
  <1>3. CASE ReclaimCommits(s)
    BY <1>3 DEF ReclaimCommits, Amount
  <1>4. ASSUME NEW g \in Leases,
               SettleExactly(s, g) \/ SettleTruesUp(s, g) \/ SettleRefunds(s, g)
        PROVE  UNCHANGED <<fromMonthly[l], fromTopup[l], Amount(l)>>
    BY <1>4 DEF SettleExactly, SettleTruesUp, SettleRefunds, SettleMarks, Amount
  <1> QED BY <1>1, <1>2, <1>3, <1>4, StepKinds DEF Paying

LEMMA OthersKeep ==
  ASSUME TypeOK, LockInv, NEW s \in Sessions, SessionStep(s)
  PROVE  \A t \in Sessions \ {s} : txn'[t] = txn[t] /\ (LocksOrg(t)' <=> LocksOrg(t))
  <1>1. OthersKeepTxn(s)
    BY StepKinds, BeginningStep, ContinuingStep, LeavingStep, EndingStep
  <1> QED BY <1>1, SweptKeepAmount DEF OthersKeepTxn, LocksOrg

LEMMA LocksExcludeStep ==
  ASSUME TypeOK, LockInv, NEW s \in Sessions, SessionStep(s)
  PROVE  LocksExclude'
  <1>1. SUFFICES ASSUME NEW t \in Sessions \ {s}
                 PROVE  /\ OnReservation(s)' /\ OnReservation(t) =>
                             txn'[s].on \cap txn[t].on = {}
                        /\ OnLease(s)' /\ OnLease(t) => txn'[s].on \cap txn[t].on = {}
                        /\ ~ (LocksOrg(s)' /\ LocksOrg(t))
    <2> DEFINE Apart(a, b) ==
                 /\ OnReservation(a) /\ OnReservation(b) => txn[a].on \cap txn[b].on = {}
                 /\ OnLease(a) /\ OnLease(b) => txn[a].on \cap txn[b].on = {}
                 /\ ~ (LocksOrg(a) /\ LocksOrg(b))
    <2>1. ASSUME NEW a \in Sessions \ {s}, NEW b \in Sessions \ {s}, a # b
          PROVE  Apart(a, b)'
      BY <2>1, OthersKeep DEF LockInv, LocksExclude, OnReservation, OnLease
    <2>2. ASSUME NEW t \in Sessions \ {s}
          PROVE  Apart(s, t)' /\ Apart(t, s)'
      BY <1>1, <2>2, OthersKeep DEF OnReservation, OnLease
    <2> QED BY <2>1, <2>2 DEF LocksExclude
  <1> USE DEF OnReservation, OnLease
  <1>2. CASE Beginning(s)
    <2>1. Begun(txn'[s]) /\ ~ LocksOrg(s)'
      BY <1>2, BeginningStep DEF Begun, LocksOrg
    <2> QED BY <2>1 DEF Begun, ReservationFree, LeaseFree
  <1>3. CASE Continuing(s)
    <2>1. Continued(s) /\ leaseVars' = leaseVars
      BY <1>3, ContinuingStep DEF Quiet
    <2>2. LocksOrg(s)' => LocksOrg(s) \/ OrgFree(s)
      <3>1. \A k : Amount(k)' = Amount(k)
        BY <2>1 DEF Amount, leaseVars
      <3>2. MinLease \in Nat /\ \A l \in txn[s].on : Amount(l) \in Nat
        BY AmountTyped DEF TypeOK, LeasesTypeOK, Transactions
      <3> QED BY <2>1, <3>1, <3>2 DEF Continued, LocksOrg
    <2> QED BY <2>1, <2>2 DEF Continued, OrgFree, LockInv, LocksExclude
  <1>4. CASE Paying(s) \/ Closing(s) \/ Leaving(s)
    <2>1. txn'[s] = Idle
      BY <1>4, EndingStep, LeavingStep
    <2> QED BY <2>1 DEF Idle, LocksOrg
  <1> QED BY <1>2, <1>3, <1>4, StepKinds

LEMMA SweepsOwnStep ==
  ASSUME TypeOK, LockInv, NEW s \in Sessions, SessionStep(s)
  PROVE  SweepsOwn'
  <1> DEFINE Owns(t) == /\ txn[t].swept \subseteq txn[t].on
                        /\ txn[t].swept # {} => txn[t].op = "reclaim"
                        /\ ~ LocksOrg(t) => txn[t].backMonthly = 0 /\ txn[t].backTopup = 0
  <1>1. ASSUME NEW t \in Sessions \ {s} PROVE Owns(t)'
    BY OthersKeep DEF LockInv, SweepsOwn
  <1>2. CASE Beginning(s)
    <2>1. Owns(s)'
      BY <1>2, BeginningStep DEF Begun
    <2> QED BY <1>1, <2>1 DEF SweepsOwn
  <1>3. CASE Continuing(s)
    <2>1. Continued(s) /\ leaseVars' = leaseVars
      BY <1>3, ContinuingStep DEF Quiet
    <2>2. ~ LocksOrg(s)' => ~ LocksOrg(s)
      BY <2>1 DEF Continued, LocksOrg, Amount, leaseVars
    <2>3. ~ LocksOrg(s)' => txn'[s].backMonthly = 0 /\ txn'[s].backTopup = 0
      BY <2>1, <2>2 DEF Continued, LockInv, SweepsOwn, LocksOrg, Amount, leaseVars
    <2>4. Owns(s)'
      BY <2>1, <2>3 DEF Continued, LockInv, SweepsOwn
    <2> QED BY <1>1, <2>4 DEF SweepsOwn
  <1>4. CASE Paying(s) \/ Closing(s) \/ Leaving(s)
    <2>1. txn'[s] = Idle
      BY <1>4, EndingStep, LeavingStep
    <2>2. Owns(s)'
      BY <2>1 DEF Idle
    <2> QED BY <1>1, <2>2 DEF SweepsOwn
  <1> QED BY <1>2, <1>3, <1>4, StepKinds

(* Which statuses a step changes: only those of leases it works on.        *)
LEMMA StatusStep ==
  ASSUME TypeOK, LockInv, NEW s \in Sessions, SessionStep(s), NEW l \in Leases,
         status'[l] # status[l]
  PROVE  /\ Paying(s) /\ l \in txn[s].on
         /\ \/ txn[s].op = "grantFunded" /\ status[l] = "none" /\ status'[l] = "active"
            \/ OnLease(s) /\ status[l] = "active"
            \/ OnLease(s) /\ status[l] = "abandoned" /\ status'[l] = "settled"
  <1>1. Paying(s)
    BY StepKinds, BeginningStep, ContinuingStep, LeavingStep
       DEF Quiet, leaseVars, Closing, CloseCommits
  <1> USE DEF LockInv, LeasesHeld, SweepsOwn, TypeOK, LeasesTypeOK, OnLease
  <1>2. ASSUME NEW g \in Leases, GrantCommits(s, g)
        PROVE  /\ l = g /\ l \in txn[s].on
               /\ txn[s].op = "grantFunded" /\ status[l] = "none" /\ status'[l] = "active"
    BY <1>2 DEF GrantCommits
  <1>3. ASSUME NEW g \in Leases, SettleMarks(s, g)
        PROVE  /\ l \in txn[s].on /\ OnLease(s)
               /\ status[l] \in {"active", "abandoned"} /\ status'[l] = "settled"
    BY <1>3 DEF SettleMarks
  <1>4. ASSUME ReclaimCommits(s)
        PROVE  l \in txn[s].on /\ OnLease(s) /\ status[l] = "active"
    BY <1>4 DEF ReclaimCommits
  <1> QED BY <1>1, <1>2, <1>3, <1>4 DEF Paying, SettleExactly, SettleTruesUp, SettleRefunds

LEMMA LeasesHeldStep ==
  ASSUME TypeOK, LockInv, NEW s \in Sessions, SessionStep(s)
  PROVE  LeasesHeld'
  <1> DEFINE Holds(t) == \A l \in txn[t].on :
                           /\ txn[t].op = "reclaim" => status[l] = "active"
                           /\ txn[t].op = "settle" => status[l] \in {"active", "abandoned"}
  <1>0. \A t \in Sessions : txn[t].on \subseteq Leases
    BY DEF TypeOK, LeasesTypeOK, Transactions
  <1>1. ASSUME NEW t \in Sessions \ {s} PROVE Holds(t)'
    <2>1. ASSUME NEW l \in txn[t].on, OnLease(t) PROVE status'[l] = status[l]
      BY <1>0, <2>1, StatusStep DEF LockInv, LocksExclude, LeasesHeld, OnLease
    <2> QED BY <2>1, OthersKeep DEF LockInv, LeasesHeld, OnLease
  <1>2. CASE Beginning(s) \/ Continuing(s)
    <2>1. Holds(s)'
      BY <1>2, BeginningStep, ContinuingStep
         DEF Quiet, leaseVars, Begun, Continued, LockInv, LeasesHeld
    <2> QED BY <1>1, <2>1 DEF LeasesHeld
  <1>3. CASE Paying(s) \/ Closing(s) \/ Leaving(s)
    <2>1. Holds(s)'
      BY <1>3, EndingStep, LeavingStep DEF Idle
    <2> QED BY <1>1, <2>1 DEF LeasesHeld
  <1> QED BY <1>2, <1>3, StepKinds

---------------------------------------------------------------------------
(* Money.                                                                  *)

(* While a session holds the organization's row no other changes it.       *)
LEMMA RowIsLocked ==
  ASSUME TypeOK, LockInv, NEW s \in Sessions, SessionStep(s),
         NEW t \in Sessions \ {s}, LocksOrg(t)
  PROVE  UNCHANGED <<monthly, topup>>
  <1>0. ~ LocksOrg(s) /\ ~ OrgFree(s)
    BY DEF LockInv, LocksExclude, OrgFree
  <1>1. CASE Beginning(s) \/ Continuing(s) \/ Leaving(s)
    BY <1>1, BeginningStep, ContinuingStep, LeavingStep DEF Quiet, poolVars
  <1>2. CASE Closing(s)
    BY <1>2 DEF Closing, CloseCommits, poolVars
  <1>3. ASSUME NEW l \in Leases,
               GrantCommits(s, l) \/ SettleTruesUp(s, l) \/ SettleRefunds(s, l)
        PROVE  FALSE
    BY <1>0, <1>3 DEF GrantCommits, SettleTruesUp, SettleRefunds, LocksOrg
  <1>4. ASSUME NEW l \in Leases, SettleExactly(s, l)
        PROVE  UNCHANGED <<monthly, topup>>
    BY <1>4 DEF SettleExactly, poolVars
  <1>5. ASSUME ReclaimCommits(s)
        PROVE  UNCHANGED <<monthly, topup>>
    <2>1. txn[s].backMonthly = 0 /\ txn[s].backTopup = 0
      BY <1>0 DEF LockInv, SweepsOwn
    <2>2. monthly' = monthly + 0 /\ topup' = topup + 0
      BY <1>5, <2>1 DEF ReclaimCommits
    <2> QED BY <2>2 DEF TypeOK, PoolsTypeOK
  <1> QED BY <1>1, <1>2, <1>3, <1>4, <1>5, StepKinds DEF Paying

LEMMA ReadsHoldStep ==
  ASSUME TypeOK, LockInv, ReadsHold, NEW s \in Sessions, SessionStep(s)
  PROVE  ReadsHold'
  <1> DEFINE Holds(t) == txn[t].op = "grantFunded" =>
                           txn[t].seenMonthly = monthly /\ txn[t].seenTopup = topup
  <1>1. ASSUME NEW t \in Sessions \ {s} PROVE Holds(t)'
    <2>1. txn[t].op = "grantFunded" => LocksOrg(t)
      BY DEF LocksOrg
    <2> QED BY <2>1, RowIsLocked, OthersKeep DEF ReadsHold
  <1>2. Holds(s)'
    <2>1. CASE Beginning(s)
      BY <2>1, BeginningStep DEF Begun
    <2>2. CASE Continuing(s)
      BY <2>2, ContinuingStep DEF Continued, Quiet, poolVars
    <2>3. CASE Paying(s) \/ Closing(s) \/ Leaving(s)
      BY <2>3, EndingStep, LeavingStep DEF Idle
    <2> QED BY <2>1, <2>2, <2>3, StepKinds
  <1> QED BY <1>1, <1>2 DEF ReadsHold

(* What a grant takes from the pools becomes the portions of its lease.    *)
LEMMA GrantPays ==
  ASSUME TypeOK, ReadsHold, MonthlyNonNegative, NEW s \in Sessions, NEW l \in Leases,
         GrantCommits(s, l), PaidFor(l)
  PROVE  /\ fromMonthly'[l] \in 0 .. monthly /\ monthly' = monthly - fromMonthly'[l]
         /\ topup' = topup - fromTopup'[l]
         /\ fromTopup'[l] \in Nat /\ fromMonthly'[l] + fromTopup'[l] = Granted(s)
         /\ fromMonthly'[l] < Granted(s) => fromMonthly'[l] = monthly
         /\ PaidFor(l)'
  <1> DEFINE draw == MonthlyDraw(txn[s].seenMonthly, Granted(s))
             rest == Granted(s) - draw
  <1>1. txn[s].seenMonthly = monthly /\ txn[s].seenTopup = topup
    BY DEF ReadsHold, GrantCommits
  <1>2. Granted(s) \in Nat /\ monthly \in Nat /\ topup \in Int
    BY GrantedTyped DEF GrantCommits, MonthlyNonNegative, TypeOK, PoolsTypeOK
  <1>3. /\ draw \in Nat /\ draw <= monthly /\ draw <= Granted(s)
        /\ draw < Granted(s) => draw = monthly
    BY <1>1, <1>2, DrawBounds
  <1>4. /\ monthly' = monthly + (-draw) /\ topup' = topup + (-rest)
        /\ status'[l] = "active" /\ fromMonthly'[l] = draw /\ fromTopup'[l] = rest
        /\ paidMonthly'[l] = paidMonthly[l] + monthly - monthly'
        /\ paidTopup'[l] = paidTopup[l] + topup - topup'
    BY DEF GrantCommits, MovePools, TypeOK, LeasesTypeOK
  <1>5. paidMonthly[l] = 0 /\ paidTopup[l] = 0
    BY DEF GrantCommits, PaidFor
  <1> HIDE DEF draw
  <1>6. paidMonthly'[l] = draw /\ paidTopup'[l] = rest
    BY <1>2, <1>3, <1>4, <1>5
  <1>7. PaidFor(l)'
    BY <1>4, <1>6 DEF PaidFor
  <1>8. rest \in Nat /\ draw + rest = Granted(s)
    BY <1>2, <1>3
  <1>9. /\ monthly + (-draw) = monthly - draw /\ topup + (-rest) = topup - rest
        /\ draw \in 0 .. monthly
    BY <1>2, <1>3, <1>8
  <1> HIDE DEF rest
  <1> QED BY <1>3, <1>4, <1>7, <1>8, <1>9

(* A settlement brings what the lease has cost to what it is settled for.  *)
LEMMA SettlementPays ==
  ASSUME TypeOK, LockInv, MonthlyNonNegative, NEW s \in Sessions, NEW l \in Leases,
         SettleExactly(s, l) \/ SettleTruesUp(s, l) \/ SettleRefunds(s, l), PaidFor(l)
  PROVE  monthly' >= 0 /\ PaidFor(l)'
  <1>1. /\ paidMonthly[l] = fromMonthly[l] /\ paidTopup[l] = fromTopup[l]
        /\ fromMonthly[l] \in Nat /\ fromTopup[l] \in Nat
        /\ Amount(l) = fromMonthly[l] + fromTopup[l]
    <2>1. txn[s].op = "settle" /\ l \in txn[s].on
      BY DEF SettleExactly, SettleTruesUp, SettleRefunds, SettleMarks
    <2>2. status[l] \in {"active", "abandoned"}
      BY <2>1 DEF LockInv, LeasesHeld
    <2> QED BY <2>2 DEF PaidFor, TypeOK, LeasesTypeOK, Amount
  <1>2. monthly \in Nat /\ topup \in Int /\ Charge(s, l) \in Nat
    BY ChargeTyped DEF MonthlyNonNegative, TypeOK, PoolsTypeOK
  <1>3. status'[l] = "settled" /\ settledFor'[l] = Charge(s, l)
    BY DEF SettleExactly, SettleTruesUp, SettleRefunds, SettleMarks, TypeOK, LeasesTypeOK
  <1>4. CASE SettleExactly(s, l)
    <2>1. UNCHANGED <<monthly, paidMonthly, paidTopup>> /\ Charge(s, l) = Amount(l)
      BY <1>4 DEF SettleExactly, poolVars, paidVars
    <2> QED BY <1>1, <1>2, <1>3, <2>1 DEF PaidFor
  <1>5. ASSUME NEW toMonthly \in Int, NEW toTopup \in Int, MovePools(l, toMonthly, toTopup)
        PROVE  /\ monthly' = monthly + toMonthly
               /\ paidMonthly'[l] = fromMonthly[l] - toMonthly
               /\ paidTopup'[l] = fromTopup[l] - toTopup
    BY <1>1, <1>2, <1>5 DEF MovePools, TypeOK, LeasesTypeOK
  <1>6. CASE SettleTruesUp(s, l)
    <2> DEFINE delta == Charge(s, l) - Amount(l)
               draw  == TrueUpDraw(s, l)
    <2>1. delta \in Nat /\ draw \in Nat /\ draw <= delta /\ draw <= monthly
      BY <1>1, <1>2, <1>6, TrueUpTyped DEF SettleTruesUp
    <2>2. MovePools(l, -draw, -(delta - draw))
      BY <1>6 DEF SettleTruesUp, TrueUpDraw
    <2> HIDE DEF draw
    <2>3. /\ monthly' = monthly - draw
          /\ paidMonthly'[l] = fromMonthly[l] + draw
          /\ paidTopup'[l] = fromTopup[l] + (delta - draw)
      <3> DEFINE toMonthly == -draw
                 toTopup   == -(delta - draw)
      <3>1. toMonthly \in Int /\ toTopup \in Int
        BY <2>1
      <3>2. MovePools(l, toMonthly, toTopup)
        BY <2>2
      <3> HIDE DEF toMonthly, toTopup
      <3>3. /\ monthly' = monthly + toMonthly
            /\ paidMonthly'[l] = fromMonthly[l] - toMonthly
            /\ paidTopup'[l] = fromTopup[l] - toTopup
        BY <1>5, <3>1, <3>2
      <3> QED BY <1>1, <1>2, <2>1, <3>3 DEF toMonthly, toTopup
    <2> QED BY <1>1, <1>2, <1>3, <2>1, <2>3 DEF PaidFor
  <1>7. CASE SettleRefunds(s, l)
    <2> DEFINE refund == Amount(l) - Charge(s, l)
               back   == RefundBack(s, l)
    <2>1. /\ refund \in Nat /\ back \in Nat /\ back <= refund
          /\ back <= fromMonthly[l] /\ refund - back <= fromTopup[l]
      BY <1>1, <1>2, <1>7, RefundTyped DEF SettleRefunds
    <2>2. MovePools(l, back, refund - back)
      BY <1>7 DEF SettleRefunds, RefundBack
    <2> HIDE DEF back
    <2>3. /\ monthly' = monthly + back
          /\ paidMonthly'[l] = fromMonthly[l] - back
          /\ paidTopup'[l] = fromTopup[l] - (refund - back)
      BY <1>1, <1>2, <1>5, <2>1, <2>2
    <2> QED BY <1>1, <1>2, <1>3, <2>1, <2>3 DEF PaidFor
  <1> QED BY <1>4, <1>6, <1>7

LEMMA OtherLeasesKeep ==
  ASSUME TypeOK, NEW s \in Sessions, NEW l \in Leases, NEW k \in Leases \ {l},
         \/ GrantCommits(s, l) \/ SettleExactly(s, l)
         \/ SettleTruesUp(s, l) \/ SettleRefunds(s, l),
         PaidFor(k)
  PROVE  PaidFor(k)'
  <1>1. /\ status'[k] = status[k] /\ settledFor'[k] = settledFor[k]
        /\ fromMonthly'[k] = fromMonthly[k] /\ fromTopup'[k] = fromTopup[k]
    BY DEF GrantCommits, SettleExactly, SettleTruesUp, SettleRefunds, SettleMarks, TypeOK,
       LeasesTypeOK
  <1>2. paidMonthly'[k] = paidMonthly[k] /\ paidTopup'[k] = paidTopup[k]
    BY DEF GrantCommits, SettleExactly, SettleTruesUp, SettleRefunds, MovePools, paidVars,
       TypeOK, LeasesTypeOK
  <1> QED BY <1>1, <1>2 DEF PaidFor

LEMMA MoneyStep ==
  ASSUME TypeOK, LockInv, MoneyInv, NEW s \in Sessions, SessionStep(s)
  PROVE  MonthlyNonNegative' /\ Accounts'
  <1> USE DEF MoneyInv
  <1>1. CASE Beginning(s) \/ Continuing(s) \/ Closing(s) \/ Leaving(s)
    <2>1. UNCHANGED <<poolVars, leaseVars, paidVars>>
      BY <1>1, BeginningStep, ContinuingStep, LeavingStep DEF Quiet, Closing, CloseCommits
    <2> QED BY <2>1 DEF poolVars, leaseVars, paidVars, MonthlyNonNegative, Accounts, PaidFor
  <1>2. ASSUME NEW l \in Leases, GrantCommits(s, l)
        PROVE  MonthlyNonNegative' /\ Accounts'
    <2>1. PaidFor(l)' /\ monthly' >= 0
      BY <1>2, GrantPays DEF Accounts, TypeOK, PoolsTypeOK
    <2> QED BY <1>2, <2>1, OtherLeasesKeep DEF MonthlyNonNegative, Accounts
  <1>3. ASSUME NEW l \in Leases,
               SettleExactly(s, l) \/ SettleTruesUp(s, l) \/ SettleRefunds(s, l)
        PROVE  MonthlyNonNegative' /\ Accounts'
    <2>1. PaidFor(l)' /\ monthly' >= 0
      BY <1>3, SettlementPays DEF Accounts
    <2> QED BY <1>3, <2>1, OtherLeasesKeep DEF MonthlyNonNegative, Accounts
  <1>4. ASSUME ReclaimCommits(s)
        PROVE  MonthlyNonNegative' /\ Accounts'
    <2>1. monthly' >= 0
      BY <1>4 DEF ReclaimCommits, MonthlyNonNegative, TypeOK, PoolsTypeOK, LeasesTypeOK,
         Transactions
    <2>2. ASSUME NEW l \in Leases PROVE PaidFor(l)'
      <3>1. PaidFor(l) /\ (l \in txn[s].swept => status[l] = "active")
        BY <1>4 DEF Accounts, LockInv, LeasesHeld, ReclaimCommits
      <3>2. UNCHANGED <<fromMonthly, fromTopup, settledFor>>
        BY <1>4 DEF ReclaimCommits
      <3>3. fromMonthly[l] \in Nat /\ fromTopup[l] \in Nat
        BY DEF TypeOK, LeasesTypeOK
      <3>4. CASE l \in txn[s].swept /\ Amount(l) > MinLease
        BY <1>4, <3>1, <3>2, <3>3, <3>4 DEF ReclaimCommits, PaidFor
      <3>5. CASE l \in txn[s].swept /\ ~ (Amount(l) > MinLease)
        BY <1>4, <3>1, <3>2, <3>5 DEF ReclaimCommits, PaidFor
      <3>6. CASE l \notin txn[s].swept
        BY <1>4, <3>1, <3>2, <3>6 DEF ReclaimCommits, PaidFor
      <3> QED BY <3>4, <3>5, <3>6
    <2> QED BY <2>1, <2>2 DEF MonthlyNonNegative, Accounts
  <1> QED BY <1>1, <1>2, <1>3, <1>4, StepKinds DEF Paying

---------------------------------------------------------------------------
(* The invariant holds.                                                    *)

LEMMA OutsideKeepsInv ==
  ASSUME TypeOK, LockInv, MoneyInv, Renew \/ RefillStep \/ RequestStep
  PROVE  LockInv' /\ MoneyInv'
  <1>1. /\ UNCHANGED <<leaseVars, txn, paidVars>>
        /\ OrgUnlocked \/ UNCHANGED <<monthly, topup>>
        /\ monthly' \in {monthly, PlanGrant}
    BY OutsideSteps
  <1>2. LockInv'
    BY <1>1 DEF leaseVars, LockInv, LocksExclude, SweepsOwn, LeasesHeld, OnReservation, OnLease,
       LocksOrg, Amount
  <1>3. MonthlyNonNegative' /\ Accounts'
    BY <1>1 DEF MoneyInv, MonthlyNonNegative, Accounts, PaidFor, leaseVars, paidVars
  <1>4. ReadsHold'
    BY <1>1 DEF MoneyInv, ReadsHold, OrgUnlocked, LocksOrg
  <1> QED BY <1>2, <1>3, <1>4 DEF MoneyInv

LEMMA ExpiryKeepsInv ==
  ASSUME LockInv, MoneyInv, NEW l \in Leases, LeaseExpires(l)
  PROVE  LockInv' /\ MoneyInv'
  BY DEF LeaseExpires, poolVars, paidVars, LockInv, LocksExclude, SweepsOwn, LeasesHeld,
     OnReservation, OnLease, LocksOrg, Amount, MoneyInv, MonthlyNonNegative, Accounts, PaidFor,
     ReadsHold

LEMMA StutterKeepsInv ==
  ASSUME LockInv, MoneyInv, UNCHANGED billingVars
  PROVE  LockInv' /\ MoneyInv'
  BY DEF billingVars, creditVars, leaseVars, poolVars, paidVars, LockInv, LocksExclude,
     SweepsOwn, LeasesHeld, OnReservation, OnLease, LocksOrg, Amount, MoneyInv,
     MonthlyNonNegative, Accounts, PaidFor, ReadsHold

LEMMA InvInit == Init => LockInv /\ MoneyInv
  <1> SUFFICES ASSUME Init PROVE LockInv /\ MoneyInv
    OBVIOUS
  <1>1. LockInv
    BY DEF Init, LeasesInit, Idle, LockInv, LocksExclude, SweepsOwn, LeasesHeld, OnReservation,
       OnLease, LocksOrg
  <1>2. MoneyInv
    BY DEF Init, PoolsInit, LeasesInit, Idle, MoneyInv, MonthlyNonNegative, Accounts, PaidFor,
       ReadsHold
  <1> QED BY <1>1, <1>2

LEMMA InvStep == TypeOK /\ LockInv /\ MoneyInv /\ [Next]_billingVars => LockInv' /\ MoneyInv'
  <1> SUFFICES ASSUME TypeOK, LockInv, MoneyInv, [Next]_billingVars
               PROVE  LockInv' /\ MoneyInv'
    OBVIOUS
  <1>1. ASSUME NEW s \in Sessions, SessionStep(s)
        PROVE  LockInv' /\ MoneyInv'
    BY <1>1, LocksExcludeStep, SweepsOwnStep, LeasesHeldStep, ReadsHoldStep, MoneyStep
       DEF LockInv, MoneyInv
  <1> QED BY <1>1, OutsideKeepsInv, ExpiryKeepsInv, StutterKeepsInv DEF Next, LeaseStep

LEMMA Invariance == Spec => [](TypeOK /\ LockInv /\ MoneyInv)
  BY TypeInit, TypeStep, InvInit, InvStep, PTL DEF Spec

(* What the accounts say of each lease, and of the allowance.              *)
LEMMA Accounting == Spec => [](LeaseAccounts /\ PoolsKept)
  <1>1. TypeOK /\ MoneyInv => LeaseAccounts /\ PoolsKept
    <2> SUFFICES ASSUME TypeOK, MoneyInv, NEW l \in Leases
                 PROVE  /\ paidMonthly[l] + paidTopup[l] =
                             IF status[l] = "settled" THEN settledFor[l]
                             ELSE IF status[l] \in {"active", "abandoned"} THEN Amount(l) ELSE 0
                        /\ paidMonthly[l] >= 0 /\ paidTopup[l] >= 0
      BY DEF LeaseAccounts, PoolsKept, MoneyInv
    <2>1. PaidFor(l) /\ status[l] \in Statuses /\ fromMonthly[l] \in Nat /\ fromTopup[l] \in Nat
      BY DEF MoneyInv, Accounts, TypeOK, LeasesTypeOK
    <2> QED BY <2>1 DEF PaidFor, Statuses, Amount
  <1> QED BY <1>1, Invariance, PTL

(* A lease has cost what its status says (settleCredits, closeReservation).*)
THEOREM LeasesAccount == Spec => []LeaseAccounts
  BY Accounting, PTL

(* No pool gets back more than a lease has drawn from it (settleCredits),  *)
(* and the monthly allowance is not overdrawn, however grants and charges  *)
(* interleave (grantLease, usage-metering.ts).                             *)
THEOREM PoolsAreKept == Spec => []PoolsKept
  BY Accounting, PTL

(* A lease ends once.                                                      *)
THEOREM LeasesEndOnce == Spec => LeaseEndsOnce
  <1> DEFINE Step(l) ==
        /\ status[l] \in {"settled", "reclaimed"} =>
             <<status[l], paidMonthly[l], paidTopup[l]>>' = <<status[l], paidMonthly[l], paidTopup[l]>>
        /\ status[l] = "abandoned" => status'[l] \in {"abandoned", "settled"}
  <1>1. ASSUME TypeOK, LockInv, NEW s \in Sessions, SessionStep(s), NEW l \in Leases
        PROVE  Step(l)
    <2>1. status'[l] # status[l] =>
            status[l] \notin {"settled", "reclaimed"} /\ (status[l] = "abandoned" => status'[l] = "settled")
      BY <1>1, StatusStep
    <2>2. ASSUME status[l] \in {"settled", "reclaimed"}
          PROVE  paidMonthly'[l] = paidMonthly[l] /\ paidTopup'[l] = paidTopup[l]
      <3>1. CASE Beginning(s) \/ Continuing(s) \/ Closing(s) \/ Leaving(s)
        BY <1>1, <3>1, BeginningStep, ContinuingStep, LeavingStep
           DEF Quiet, paidVars, Closing, CloseCommits
      <3>2. ASSUME NEW k \in Leases, GrantCommits(s, k)
            PROVE  paidMonthly'[l] = paidMonthly[l] /\ paidTopup'[l] = paidTopup[l]
        BY <1>1, <2>2, <3>2 DEF GrantCommits, MovePools, TypeOK, LeasesTypeOK
      <3>3. ASSUME NEW k \in Leases,
                   SettleExactly(s, k) \/ SettleTruesUp(s, k) \/ SettleRefunds(s, k)
            PROVE  paidMonthly'[l] = paidMonthly[l] /\ paidTopup'[l] = paidTopup[l]
        <4>1. k # l
          BY <1>1, <2>2, <3>3 DEF SettleExactly, SettleTruesUp, SettleRefunds, SettleMarks,
             LockInv, LeasesHeld
        <4> QED BY <1>1, <3>3, <4>1 DEF SettleExactly, SettleTruesUp, SettleRefunds, MovePools,
                   paidVars, TypeOK, LeasesTypeOK
      <3>4. ASSUME ReclaimCommits(s)
            PROVE  paidMonthly'[l] = paidMonthly[l] /\ paidTopup'[l] = paidTopup[l]
        <4>1. l \notin txn[s].swept
          BY <1>1, <2>2, <3>4 DEF ReclaimCommits, LockInv, LeasesHeld
        <4> QED BY <3>4, <4>1 DEF ReclaimCommits
      <3> QED BY <1>1, <3>1, <3>2, <3>3, <3>4, StepKinds DEF Paying
    <2> QED BY <2>1, <2>2
  <1>2. ASSUME UNCHANGED <<status, paidMonthly, paidTopup>>, NEW l \in Leases
        PROVE  Step(l)
    BY <1>2
  <1>3. TypeOK /\ LockInv /\ [Next]_billingVars => \A l \in Leases : Step(l)
    <2>1. LeaseStep \/ Renew \/ RefillStep \/ RequestStep \/ UNCHANGED billingVars =>
            (\E s \in Sessions : SessionStep(s)) \/ UNCHANGED <<status, paidMonthly, paidTopup>>
          \/ ~ TypeOK
      BY OutsideSteps DEF LeaseStep, LeaseExpires, leaseVars, paidVars, billingVars, creditVars
    <2> QED BY <1>1, <1>2, <2>1 DEF Next
  <1>4. TypeOK /\ LockInv /\ [Next]_billingVars => [\A l \in Leases : Step(l)]_billingVars
    BY <1>3
  <1> QED BY <1>4, Invariance, PTL DEF Spec, LeaseEndsOnce

---------------------------------------------------------------------------
(* Closures.                                                               *)

ClosureInv == ClosureTells /\ ClosingSees

LEMMA ClosureInit == Init => ClosureInv
  BY DEF Init, LeasesInit, Idle, ClosureInv, ClosureTells, ClosingSees

LEMMA ClosureSessionStep ==
  ASSUME TypeOK, LockInv, ClosureInv, NEW s \in Sessions, SessionStep(s)
  PROVE  ClosureInv'
  <1> USE DEF ClosureInv
  <1> DEFINE Tells(l) == closure[l] # "open" => (closure[l] = "noLease" <=> status[l] = "none")
             Sees(t, l) ==
               /\ txn[t].op \in {"grant", "grantFunded"} => closure[l] = "open"
               /\ txn[t].op = "close" => (txn[t].lenient <=> status[l] # "none")
  <1>0. Reservations \subseteq Leases
    OBVIOUS
  (* Only a grant gives a row to a reservation, and it has seen it open.   *)
  <1>1. ASSUME NEW l \in Reservations, (status'[l] = "none") # (status[l] = "none")
        PROVE  /\ txn[s].op = "grantFunded" /\ l \in txn[s].on /\ closure[l] = "open"
               /\ closure' = closure
    <2>1. Paying(s) /\ l \in txn[s].on /\ txn[s].op = "grantFunded"
      <3>1. status'[l] # status[l]
        BY <1>1
      <3>2. CASE OnLease(s)
        <4>1. Paying(s) /\ l \in txn[s].on /\ status[l] # "none"
          BY <1>0, <3>1, <3>2, StatusStep DEF OnLease
        <4>2. status'[l] # "none"
          BY <1>0, <3>1, <3>2, <4>1
             DEF Paying, OnLease, GrantCommits, SettleExactly, SettleTruesUp, SettleRefunds,
                 SettleMarks, ReclaimCommits, TypeOK, LeasesTypeOK
        <4> QED BY <1>1, <4>1, <4>2
      <3> QED BY <1>0, <3>1, <3>2, StatusStep
    <2>2. closure[l] = "open"
      BY <2>1 DEF ClosingSees
    <2>3. closure' = closure
      BY <2>1 DEF Paying, GrantCommits, SettleExactly, SettleTruesUp, SettleRefunds,
         SettleMarks, ReclaimCommits
    <2> QED BY <2>1, <2>2, <2>3
  (* Only a closure closes a reservation, and it has seen the row.         *)
  <1>2. ASSUME NEW l \in Reservations, closure'[l] # closure[l]
        PROVE  /\ txn[s].op = "close" /\ l \in txn[s].on /\ status' = status
               /\ closure'[l] = IF status[l] # "none" THEN "hadLease" ELSE "noLease"
    <2>1. ~ Beginning(s) /\ ~ Continuing(s) /\ ~ Leaving(s)
      BY <1>2, BeginningStep, ContinuingStep, LeavingStep DEF Quiet
    <2>2. ~ Paying(s)
      BY <1>2 DEF Paying, GrantCommits, SettleExactly, SettleTruesUp, SettleRefunds,
         SettleMarks, ReclaimCommits
    <2>3. PICK k \in Reservations : CloseCommits(s, k)
      BY <2>1, <2>2, StepKinds DEF Closing
    <2>4. k = l /\ txn[s].op = "close" /\ l \in txn[s].on /\ status' = status
      BY <1>2, <2>3 DEF CloseCommits, leaseVars, TypeOK, LeasesTypeOK
    <2>5. txn[s].lenient <=> status[l] # "none"
      BY <2>4 DEF ClosingSees
    <2> QED BY <2>3, <2>4, <2>5 DEF CloseCommits, TypeOK, LeasesTypeOK
  <1>3. ASSUME NEW l \in Reservations PROVE Tells(l)'
    <2>1. CASE closure'[l] # closure[l]
      BY <1>2, <2>1
    <2>2. CASE closure'[l] = closure[l]
      BY <1>1, <2>2 DEF ClosureTells
    <2> QED BY <2>1, <2>2
  <1>4. ASSUME NEW t \in Sessions \ {s}, NEW l \in txn[t].on \cap Reservations
        PROVE  Sees(t, l)'
    <2>1. txn'[t] = txn[t]
      BY OthersKeep
    <2>2. CASE OnReservation(t)
      <3>1. ~ (OnReservation(s) /\ l \in txn[s].on)
        BY <2>2 DEF LockInv, LocksExclude
      <3>2. closure'[l] = closure[l] /\ ((status'[l] = "none") <=> (status[l] = "none"))
        BY <1>1, <1>2, <3>1 DEF OnReservation
      <3> QED BY <2>1, <3>2 DEF ClosingSees
    <2>3. CASE ~ OnReservation(t)
      BY <2>1, <2>3 DEF OnReservation
    <2> QED BY <2>2, <2>3
  <1>5. ASSUME NEW l \in txn'[s].on \cap Reservations
        PROVE  Sees(s, l)'
    <2>1. CASE Beginning(s)
      <3> DEFINE r == txn'[s]
      <3>1. Begun(r) /\ status' = status /\ closure' = closure
        BY <2>1, BeginningStep DEF Quiet, leaseVars
      <3>2. l \in r.on \cap Reservations
        BY <1>5
      <3> HIDE DEF r
      <3>3. r.op \in {"grant", "grantFunded"} => closure[l] = "open"
        BY <3>1, <3>2 DEF Begun
      <3>4. r.op = "close" => (r.lenient <=> status[l] # "none")
        BY <3>1, <3>2 DEF Begun
      <3> QED BY <3>1, <3>3, <3>4 DEF r
    <2>2. CASE Continuing(s)
      BY <1>5, <2>2, ContinuingStep DEF Continued, Quiet, leaseVars, ClosingSees
    <2>3. CASE Paying(s) \/ Closing(s) \/ Leaving(s)
      BY <1>5, <2>3, EndingStep, LeavingStep DEF Idle
    <2> QED BY <2>1, <2>2, <2>3, StepKinds
  <1> QED BY <1>3, <1>4, <1>5, OthersKeep DEF ClosureTells, ClosingSees

LEMMA ClosureStep == TypeOK /\ LockInv /\ ClosureInv /\ [Next]_billingVars => ClosureInv'
  <1> SUFFICES ASSUME TypeOK, LockInv, ClosureInv, [Next]_billingVars PROVE ClosureInv'
    OBVIOUS
  <1>1. CASE Renew \/ RefillStep \/ RequestStep
    BY <1>1, OutsideSteps DEF leaseVars, ClosureInv, ClosureTells, ClosingSees
  <1>2. ASSUME NEW l \in Leases, LeaseExpires(l) PROVE ClosureInv'
    BY <1>2 DEF LeaseExpires, ClosureInv, ClosureTells, ClosingSees
  <1>3. CASE UNCHANGED billingVars
    BY <1>3 DEF billingVars, creditVars, leaseVars, ClosureInv, ClosureTells, ClosingSees
  <1> QED BY <1>1, <1>2, <1>3, ClosureSessionStep DEF Next, LeaseStep

(* A reservation closed without a lease never gets one.                    *)
THEOREM ClosuresTell == Spec => []ClosureTells
  BY Invariance, ClosureInit, ClosureStep, PTL DEF Spec, ClosureInv

---------------------------------------------------------------------------
(* Without overdraft.                                                      *)

DebtInv == LenientRules /\ NoDebtWithoutOverdraft

LEMMA DebtInit == Init => DebtInv
  <1>1. Init => LenientRules
    BY DEF Init, LeasesInit, Idle, LenientRules
  <1>2. Init => NoDebtWithoutOverdraft
    BY DEF Init, PoolsInit, NoDebtWithoutOverdraft
  <1> QED BY <1>1, <1>2 DEF DebtInv

LEMMA LenientStep ==
  ASSUME TypeOK, LockInv, LenientRules, NEW s \in Sessions, SessionStep(s)
  PROVE  LenientRules'
  <1> DEFINE Rules(t) ==
        /\ txn[t].op \in {"grant", "grantFunded", "settle"} => txn[t].lenient \in Modes
        /\ txn[t].op \in {"grant", "grantFunded"} /\ txn[t].lenient => txn[t].asked = MinLease
        /\ txn[t].op = "settle" =>
             \A l \in txn[t].on : status[l] = "abandoned" => txn[t].lenient
  <1>0. \A t \in Sessions : txn[t].on \subseteq Leases
    BY DEF TypeOK, LeasesTypeOK, Transactions
  <1>1. ASSUME NEW t \in Sessions \ {s} PROVE Rules(t)'
    <2>1. ASSUME NEW l \in txn[t].on, OnLease(t) PROVE status'[l] = status[l]
      BY <1>0, <2>1, StatusStep DEF LockInv, LocksExclude, LeasesHeld, OnLease
    <2> QED BY <2>1, OthersKeep DEF LenientRules, OnLease
  <1>2. CASE Beginning(s)
    <2>1. Rules(s)'
      BY <1>2, BeginningStep DEF Begun, Quiet, leaseVars
    <2> QED BY <1>1, <2>1 DEF LenientRules
  <1>3. CASE Continuing(s)
    <2>1. Rules(s)'
      BY <1>3, ContinuingStep DEF Continued, Quiet, leaseVars, LenientRules
    <2> QED BY <1>1, <2>1 DEF LenientRules
  <1>4. CASE Paying(s) \/ Closing(s) \/ Leaving(s)
    <2>1. Rules(s)'
      BY <1>4, EndingStep, LeavingStep DEF Idle
    <2> QED BY <1>1, <2>1 DEF LenientRules
  <1> QED BY <1>2, <1>3, <1>4, StepKinds

LEMMA DebtSessionStep ==
  ASSUME TypeOK, LockInv, MoneyInv, DebtInv, NEW s \in Sessions, SessionStep(s)
  PROVE  NoDebtWithoutOverdraft'
  <1> SUFFICES ASSUME Modes = {FALSE}, FirstTopup >= 0, topup >= 0
               PROVE  topup' >= 0
    BY DEF DebtInv, NoDebtWithoutOverdraft
  <1>0. topup \in Nat /\ monthly \in Nat
    BY DEF TypeOK, PoolsTypeOK, MoneyInv, MonthlyNonNegative
  <1>1. CASE Beginning(s) \/ Continuing(s) \/ Closing(s) \/ Leaving(s)
    BY <1>1, BeginningStep, ContinuingStep, LeavingStep DEF Quiet, poolVars, Closing,
       CloseCommits
  <1>2. ASSUME NEW l \in Leases, GrantCommits(s, l)
        PROVE  topup' >= 0
    <2>1. Granted(s) \in Nat /\ Granted(s) <= monthly + topup
      <3>1. ~ txn[s].lenient
        BY <1>2 DEF DebtInv, LenientRules, GrantCommits
      <3>2. txn[s].seenMonthly = monthly /\ txn[s].seenTopup = topup
        BY <1>2 DEF MoneyInv, ReadsHold, GrantCommits
      <3> QED BY <1>2, <3>1, <3>2, GrantedTyped DEF GrantCommits
    <2>2. /\ fromMonthly'[l] \in 0 .. monthly /\ topup' = topup - fromTopup'[l]
          /\ fromTopup'[l] \in Nat /\ fromMonthly'[l] + fromTopup'[l] = Granted(s)
          /\ fromMonthly'[l] < Granted(s) => fromMonthly'[l] = monthly
      BY <1>2, GrantPays DEF MoneyInv, Accounts
    <2> QED BY <1>0, <2>1, <2>2
  <1>3. ASSUME NEW l \in Leases, SettleExactly(s, l) PROVE topup' >= 0
    BY <1>3 DEF SettleExactly, poolVars
  <1>4. ASSUME NEW l \in Leases, SettleTruesUp(s, l) PROVE FALSE
    <2>1. ~ txn[s].lenient
      BY <1>4 DEF DebtInv, LenientRules, SettleTruesUp, SettleMarks
    <2>2. Charge(s, l) \in Nat /\ Amount(l) \in Nat /\ Charge(s, l) <= Amount(l)
      BY <2>1, ChargeTyped, AmountTyped
    <2> QED BY <1>4, <2>2 DEF SettleTruesUp
  <1>5. ASSUME NEW l \in Leases, SettleRefunds(s, l) PROVE topup' >= 0
    <2>1. /\ RefundBack(s, l) \in Nat /\ RefundBack(s, l) <= Amount(l) - Charge(s, l)
          /\ Amount(l) \in Nat /\ Charge(s, l) \in Nat
      BY <1>5, RefundTyped, ChargeTyped, AmountTyped DEF SettleRefunds
    <2>2. topup' = topup + (Amount(l) - Charge(s, l) - RefundBack(s, l))
      BY <1>5 DEF SettleRefunds, MovePools, RefundBack
    <2> QED BY <1>0, <2>1, <2>2
  <1>6. ASSUME ReclaimCommits(s) PROVE topup' >= 0
    BY <1>0, <1>6 DEF ReclaimCommits, TypeOK, LeasesTypeOK, Transactions
  <1> QED BY <1>1, <1>2, <1>3, <1>4, <1>5, <1>6, StepKinds DEF Paying

LEMMA DebtStep ==
  TypeOK /\ LockInv /\ MoneyInv /\ DebtInv /\ [Next]_billingVars => DebtInv'
  <1> SUFFICES ASSUME TypeOK, LockInv, MoneyInv, DebtInv, [Next]_billingVars PROVE DebtInv'
    OBVIOUS
  <1>1. CASE Renew \/ RefillStep \/ RequestStep
    BY <1>1, OutsideSteps DEF DebtInv, LenientRules, NoDebtWithoutOverdraft, leaseVars
  <1>2. ASSUME NEW l \in Leases, LeaseExpires(l) PROVE DebtInv'
    BY <1>2 DEF LeaseExpires, poolVars, DebtInv, LenientRules, NoDebtWithoutOverdraft
  <1>3. CASE UNCHANGED billingVars
    BY <1>3 DEF billingVars, creditVars, poolVars, leaseVars, DebtInv, LenientRules, NoDebtWithoutOverdraft
  <1>4. ASSUME NEW s \in Sessions, SessionStep(s) PROVE DebtInv'
    BY <1>4, LenientStep, DebtSessionStep DEF DebtInv
  <1> QED BY <1>1, <1>2, <1>3, <1>4 DEF Next, LeaseStep

LEMMA DebtInvariance == Spec => []DebtInv
  BY Invariance, DebtInit, DebtStep, PTL DEF Spec

(* With reserve-small off everywhere, credits_usd never becomes negative.  *)
THEOREM NoDebt == Spec => []NoDebtWithoutOverdraft
  BY DebtInvariance, PTL DEF DebtInv

---------------------------------------------------------------------------
(* The ledger.  What a sweep gives back is the sum over the leases it      *)
(* refunds: the accumulators of a sweep under way are the sums over those  *)
(* it has swept so far.                                                    *)

Refunded(s) == {l \in txn[s].swept : Amount(l) > MinLease}

IsSum(n, amount, S) ==
  /\ IsFiniteSet(Ledger!Units(amount, S))
  /\ Ledger!Sum(amount, S) = n

SweepSums ==
  \A s \in Sessions : /\ IsSum(txn[s].backMonthly, fromMonthly, Refunded(s))
                      /\ IsSum(txn[s].backTopup, fromTopup, Refunded(s))

LEMMA LedgerCounts == \A S : Ledger!Cardinality(S) = Cardinality(S)
  BY DEF Ledger!Cardinality, Cardinality

LEMMA SumEmpty == ASSUME NEW amount PROVE IsSum(0, amount, {})
  <1>1. Ledger!Units(amount, {}) = {}
    BY DEF Ledger!Units
  <1> QED BY <1>1, LedgerCounts, FS_EmptySet DEF IsSum, Ledger!Sum

(* One more lease adds its units.                                          *)
LEMMA SumAdd ==
  ASSUME NEW S, NEW l \in Leases, l \notin S, NEW amount, amount[l] \in Nat,
         NEW n \in Nat, IsSum(n, amount, S)
  PROVE  IsSum(n + amount[l], amount, S \cup {l})
  <1> DEFINE a == amount[l]
             old == Ledger!Units(amount, S)
             new == {l} \X (1 .. a)
  <1>1. Ledger!Units(amount, S \cup {l}) = old \cup new
    BY DEF Ledger!Units
  <1>2. old \cap new = {}
    BY DEF Ledger!Units
  <1>3. IsFiniteSet(1 .. a) /\ Cardinality(1 .. a) = a
    <2>1. a \in Int /\ 1 \in Int /\ (a < 1 => a = 0)
      OBVIOUS
    <2> HIDE DEF a
    <2>2. /\ IsFiniteSet(1 .. a)
          /\ Cardinality(1 .. a) = IF 1 > a THEN 0 ELSE a - 1 + 1
      BY <2>1, FS_Interval
    <2> QED BY <2>1, <2>2
  <1>4. IsFiniteSet({l}) /\ Cardinality({l}) = 1
    BY FS_Singleton
  <1>5. IsFiniteSet(new) /\ Cardinality(new) = a
    <2> DEFINE one == {l}
               upto == 1 .. a
    <2>1. IsFiniteSet(one) /\ Cardinality(one) = 1 /\ IsFiniteSet(upto) /\ Cardinality(upto) = a
      BY <1>3, <1>4
    <2>2. new = one \X upto /\ a \in Nat
      OBVIOUS
    <2> HIDE DEF a, new, one, upto
    <2>3. IsFiniteSet(one \X upto) /\ Cardinality(one \X upto) = Cardinality(one) * Cardinality(upto)
      BY <2>1, FS_Product
    <2>4. Cardinality(one \X upto) = 1 * a
      BY <2>1, <2>3
    <2> QED BY <2>2, <2>3, <2>4
  <1>6. IsFiniteSet(old) /\ Cardinality(old) = n
    BY LedgerCounts DEF IsSum, Ledger!Sum
  <1> HIDE DEF a, old, new
  <1>7. /\ IsFiniteSet(old \cup new)
        /\ Cardinality(old \cup new) = Cardinality(old) + Cardinality(new) - Cardinality(old \cap new)
    BY <1>5, <1>6, FS_Union
  <1>8. Cardinality(old \cup new) = n + a
    <2>1. a \in Nat /\ Cardinality({}) = 0
      BY FS_EmptySet DEF a
    <2>2. Cardinality(old \cap new) = 0
      BY <1>2, <2>1
    <2>3. Cardinality(old \cup new) = n + a - 0
      BY <1>5, <1>6, <1>7, <2>2
    <2> QED BY <2>1, <2>3
  <1> QED BY <1>1, <1>7, <1>8, LedgerCounts DEF a, IsSum, Ledger!Sum

(* A sum is of the amounts of its leases only.                             *)
LEMMA SumSame ==
  ASSUME NEW S, NEW f, NEW g, \A l \in S : f[l] = g[l], NEW n, IsSum(n, f, S)
  PROVE  IsSum(n, g, S)
  <1>1. Ledger!Units(g, S) = Ledger!Units(f, S)
    BY DEF Ledger!Units
  <1> QED BY <1>1 DEF IsSum, Ledger!Sum

LEMMA SumsInit == Init => SweepSums
  <1> SUFFICES ASSUME Init, NEW s \in Sessions
               PROVE  /\ IsSum(txn[s].backMonthly, fromMonthly, Refunded(s))
                      /\ IsSum(txn[s].backTopup, fromTopup, Refunded(s))
    BY DEF SweepSums
  <1>1. Refunded(s) = {} /\ txn[s].backMonthly = 0 /\ txn[s].backTopup = 0
    BY DEF Init, LeasesInit, Idle, Refunded
  <1> QED BY <1>1, SumEmpty

(* A sweep that has swept nothing.                                         *)
LEMMA NothingSwept ==
  ASSUME NEW s \in Sessions, txn'[s].swept = {}, txn'[s].backMonthly = 0, txn'[s].backTopup = 0
  PROVE  /\ IsSum(txn'[s].backMonthly, fromMonthly', Refunded(s)')
         /\ IsSum(txn'[s].backTopup, fromTopup', Refunded(s)')
  <1>1. Refunded(s)' = {}
    BY DEF Refunded
  <1> QED BY <1>1, SumEmpty

LEMMA SumsSessionStep ==
  ASSUME TypeOK, LockInv, SweepSums, NEW s \in Sessions, SessionStep(s)
  PROVE  SweepSums'
  <1> DEFINE Sums(t) == /\ IsSum(txn'[t].backMonthly, fromMonthly', Refunded(t)')
                        /\ IsSum(txn'[t].backTopup, fromTopup', Refunded(t)')
  <1>0. SUFFICES \A t \in Sessions : Sums(t)
    BY DEF SweepSums, IsSum
  <1>1. ASSUME NEW t \in Sessions \ {s} PROVE Sums(t)
    <2>1. txn'[t] = txn[t]
      BY OthersKeep
    <2>2. \A l \in txn[t].swept : UNCHANGED <<fromMonthly[l], fromTopup[l], Amount(l)>>
      BY SweptKeepAmount
    <2>3. Refunded(t)' = Refunded(t) /\ Refunded(t) \subseteq txn[t].swept
      BY <2>1, <2>2 DEF Refunded
    <2>4. /\ \A l \in Refunded(t) : fromMonthly[l] = fromMonthly'[l] /\ fromTopup[l] = fromTopup'[l]
          /\ IsSum(txn[t].backMonthly, fromMonthly, Refunded(t))
          /\ IsSum(txn[t].backTopup, fromTopup, Refunded(t))
      BY <2>2, <2>3 DEF SweepSums
    <2>5. /\ IsSum(txn[t].backMonthly, fromMonthly', Refunded(t))
          /\ IsSum(txn[t].backTopup, fromTopup', Refunded(t))
      BY <2>4, SumSame
    <2> QED BY <2>1, <2>3, <2>5
  <1>2. ASSUME Beginning(s) PROVE Sums(s)
    BY <1>2, BeginningStep, NothingSwept DEF Begun
  <1>3. ASSUME Paying(s) \/ Closing(s) \/ Leaving(s) PROVE Sums(s)
    BY <1>3, EndingStep, LeavingStep, NothingSwept DEF Idle
  <1>4. ASSUME GrantLocksOrg(s) \/ \E l \in Leases : ReclaimAbandons(s, l) PROVE Sums(s)
    <2>1. /\ txn'[s].backMonthly = txn[s].backMonthly /\ txn'[s].backTopup = txn[s].backTopup
          /\ UNCHANGED <<fromMonthly, fromTopup>>
          /\ Refunded(s)' = Refunded(s)
      <3>1. CASE GrantLocksOrg(s)
        BY <3>1 DEF GrantLocksOrg, leaseVars, Refunded, Amount, TypeOK, LeasesTypeOK, Transactions
      <3>2. ASSUME NEW l \in Leases, ReclaimAbandons(s, l)
            PROVE  /\ txn'[s].backMonthly = txn[s].backMonthly
                   /\ txn'[s].backTopup = txn[s].backTopup
                   /\ UNCHANGED <<fromMonthly, fromTopup>>
                   /\ Refunded(s)' = Refunded(s)
        <4>1. /\ txn'[s].backMonthly = txn[s].backMonthly
              /\ txn'[s].backTopup = txn[s].backTopup
              /\ txn'[s].swept = txn[s].swept \cup {l}
              /\ UNCHANGED <<fromMonthly, fromTopup>>
          BY <3>2 DEF ReclaimAbandons, leaseVars, TypeOK, LeasesTypeOK, Transactions
        <4>2. ~ (Amount(l) > MinLease)
          <5>1. Amount(l) <= MinLease
            BY <3>2 DEF ReclaimAbandons
          <5>2. Amount(l) \in Nat /\ MinLease \in Nat
            BY AmountTyped
          <5> QED BY <5>1, <5>2
        <4>3. \A k : Amount(k)' = Amount(k)
          BY <4>1 DEF Amount
        <4> QED BY <4>1, <4>2, <4>3 DEF Refunded
      <3> QED BY <1>4, <3>1, <3>2
    <2> QED BY <2>1 DEF SweepSums
  <1>5. ASSUME NEW l \in Leases, ReclaimRefunds(s, l) PROVE Sums(s)
    <2>1. /\ txn'[s].backMonthly = txn[s].backMonthly + fromMonthly[l]
          /\ txn'[s].backTopup = txn[s].backTopup + fromTopup[l]
          /\ txn'[s].swept = txn[s].swept \cup {l}
          /\ UNCHANGED <<fromMonthly, fromTopup>>
      BY <1>5 DEF ReclaimRefunds, leaseVars, TypeOK, LeasesTypeOK, Transactions
    <2>2. Refunded(s)' = Refunded(s) \cup {l} /\ l \notin Refunded(s)
      BY <1>5, <2>1 DEF ReclaimRefunds, Sweeps, Refunded, Amount
    <2>3. /\ fromMonthly[l] \in Nat /\ fromTopup[l] \in Nat
          /\ txn[s].backMonthly \in Nat /\ txn[s].backTopup \in Nat
      BY DEF TypeOK, LeasesTypeOK, Transactions
    <2>4. /\ IsSum(txn[s].backMonthly + fromMonthly[l], fromMonthly, Refunded(s) \cup {l})
          /\ IsSum(txn[s].backTopup + fromTopup[l], fromTopup, Refunded(s) \cup {l})
      BY <2>2, <2>3, SumAdd DEF SweepSums
    <2> QED BY <2>1, <2>2, <2>4
  <1>6. Sums(s)
    BY <1>2, <1>3, <1>4, <1>5, StepKinds DEF Continuing
  <1> QED BY <1>1, <1>6

LEMMA SumsStep == TypeOK /\ LockInv /\ SweepSums /\ [Next]_billingVars => SweepSums'
  <1> SUFFICES ASSUME TypeOK, LockInv, SweepSums, [Next]_billingVars PROVE SweepSums'
    OBVIOUS
  <1>1. CASE UNCHANGED <<txn, fromMonthly, fromTopup>>
    <2>1. \A s : Refunded(s)' = Refunded(s)
      BY <1>1 DEF Refunded, Amount
    <2> QED BY <1>1, <2>1 DEF SweepSums, IsSum
  <1>2. CASE Renew \/ RefillStep \/ RequestStep
    BY <1>1, <1>2, OutsideSteps DEF leaseVars
  <1>3. ASSUME NEW l \in Leases, LeaseExpires(l) PROVE SweepSums'
    BY <1>1, <1>3 DEF LeaseExpires
  <1>4. CASE UNCHANGED billingVars
    BY <1>1, <1>4 DEF billingVars, creditVars, leaseVars
  <1> QED BY <1>2, <1>3, <1>4, SumsSessionStep DEF Next, LeaseStep

---------------------------------------------------------------------------
(* Every step of billing is one of the ledger, or nothing to it.           *)

LedgerInv == TypeOK /\ LockInv /\ MoneyInv /\ DebtInv /\ SweepSums

LEMMA LedgerInvariance == Spec => []LedgerInv
  BY Invariance, DebtInvariance, SumsInit, SumsStep, PTL DEF Spec, LedgerInv

LEMMA LedgerInit == Init => Ledger!Init
  BY DEF Init, PoolsInit, LeasesInit, Ledger!Init, Ledger!Free, Cost

(* What moves between the pools and one lease is charged to it.            *)
LEMMA MovesAreCharged ==
  ASSUME TypeOK, NEW l \in Leases, NEW a, NEW b, MovePools(l, a, b)
  PROVE  Ledger!ChargedTo(l)
  BY DEF MovePools, Ledger!ChargedTo, Cost, TypeOK, LeasesTypeOK

LEMMA GrantIsGrant ==
  ASSUME LedgerInv, NEW s \in Sessions, NEW l \in Leases, GrantCommits(s, l)
  PROVE  Ledger!Grant(l)
  <1> USE DEF LedgerInv
  <1>1. /\ fromMonthly'[l] \in 0 .. monthly /\ monthly' = monthly - fromMonthly'[l]
        /\ topup' = topup - fromTopup'[l]
        /\ fromTopup'[l] \in Nat /\ fromMonthly'[l] + fromTopup'[l] = Granted(s)
        /\ fromMonthly'[l] < Granted(s) => fromMonthly'[l] = monthly
        /\ PaidFor(l)'
    BY GrantPays DEF MoneyInv, Accounts
  <1>2. monthly \in Nat /\ topup \in Int
    BY DEF TypeOK, PoolsTypeOK, MoneyInv, MonthlyNonNegative
  <1>3. status[l] = "none" /\ status' = [status EXCEPT ![l] = "active"] /\ status'[l] = "active"
    BY DEF GrantCommits, TypeOK, LeasesTypeOK
  <1>4. Ledger!Draws
    <2>1. monthly' \in 0 .. monthly /\ topup' <= topup
      BY <1>1, <1>2
    <2>2. ASSUME topup' < topup PROVE monthly' = 0
      BY <1>1, <1>2, <2>2
    <2> QED BY <2>1, <2>2 DEF Ledger!Draws
  <1>5. Ledger!ChargedTo(l)
    BY MovesAreCharged DEF GrantCommits
  <1>6. /\ Seen(s) = monthly + topup /\ Granted(s) \in Nat
        /\ ~ txn[s].lenient => Granted(s) <= Seen(s)
    BY GrantedTyped DEF GrantCommits, MoneyInv, ReadsHold
  <1>7. CASE ~ txn[s].lenient
    <2>1. monthly' + topup' >= 0
      BY <1>1, <1>2, <1>6, <1>7
    <2> QED BY <1>3, <1>4, <1>5, <2>1 DEF Ledger!Grant
  <1>8. CASE txn[s].lenient
    <2>1. txn[s].op = "grantFunded" /\ Admitted(s)
      BY DEF GrantCommits
    <2>2. txn[s].lenient \in Modes /\ txn[s].asked = MinLease
      BY <1>8, <2>1 DEF DebtInv, LenientRules
    <2>3. TRUE \in Modes
      BY <1>8, <2>2
    <2>4. monthly + topup >= Floor /\ Granted(s) = MinLease
      BY <1>6, <1>8, <2>1, <2>2 DEF Admitted, Granted
    <2>5. paidMonthly'[l] = fromMonthly'[l] /\ paidTopup'[l] = fromTopup'[l]
      BY <1>1, <1>3 DEF PaidFor
    <2>6. Ledger!Total(l)' = MinLease
      BY <1>1, <2>4, <2>5 DEF Ledger!Total, Cost
    <2> QED BY <1>3, <1>4, <1>5, <2>3, <2>4, <2>6 DEF Ledger!Grant
  <1> QED BY <1>7, <1>8

LEMMA SettlementIsSettle ==
  ASSUME LedgerInv, NEW s \in Sessions, NEW l \in Leases,
         SettleExactly(s, l) \/ SettleTruesUp(s, l) \/ SettleRefunds(s, l)
  PROVE  Ledger!Settle(l)
  <1> USE DEF LedgerInv
  <1>1. SettleMarks(s, l)
    BY DEF SettleExactly, SettleTruesUp, SettleRefunds
  <1>2. /\ txn[s].op = "settle" /\ l \in txn[s].on
        /\ status' = [status EXCEPT ![l] = "settled"]
    BY <1>1 DEF SettleMarks
  <1>3. /\ status[l] = "active" \/ ((TRUE \in Modes) /\ status[l] = "abandoned")
        /\ txn[s].lenient => TRUE \in Modes
    BY <1>2 DEF LockInv, LeasesHeld, DebtInv, LenientRules
  <1>4. /\ paidMonthly[l] = fromMonthly[l] /\ paidTopup[l] = fromTopup[l]
        /\ fromMonthly[l] \in Nat /\ fromTopup[l] \in Nat
    BY <1>3 DEF MoneyInv, Accounts, PaidFor, TypeOK, LeasesTypeOK
  <1>5. monthly \in Nat /\ topup \in Int
    BY DEF TypeOK, PoolsTypeOK, MoneyInv, MonthlyNonNegative
  <1>6. Amount(l) \in Nat /\ Charge(s, l) \in Nat
        /\ (~ txn[s].lenient => Charge(s, l) <= Amount(l))
    BY AmountTyped, ChargeTyped
  <1>7. ASSUME Ledger!GivesBack(l) \/ (TRUE \in Modes /\ Ledger!Draws), Ledger!ChargedTo(l)
        PROVE  Ledger!Settle(l)
    BY <1>2, <1>3, <1>7 DEF Ledger!Settle
  <1>8. CASE SettleExactly(s, l)
    <2>1. UNCHANGED <<monthly, topup, paidMonthly, paidTopup>>
      BY <1>8 DEF SettleExactly, poolVars, paidVars
    <2>2. monthly' - monthly = 0 /\ topup' - topup = 0
      BY <1>5, <2>1
    <2>3. Ledger!GivesBack(l)
      BY <1>4, <2>2 DEF Ledger!GivesBack, Cost
    <2>4. Ledger!ChargedTo(l)
      <3>1. /\ paidMonthly[l] + monthly - monthly' = paidMonthly[l]
            /\ paidTopup[l] + topup - topup' = paidTopup[l]
        BY <1>4, <1>5, <2>1
      <3>2. Cost' = Cost
        BY <2>1 DEF Cost
      <3> QED BY <3>1, <3>2 DEF Ledger!ChargedTo, Cost
    <2> QED BY <1>7, <2>3, <2>4
  <1>9. CASE SettleTruesUp(s, l)
    <2> DEFINE delta == Charge(s, l) - Amount(l)
               draw  == TrueUpDraw(s, l)
    <2>1. /\ delta \in Nat \ {0} /\ draw \in Nat /\ draw <= delta /\ draw <= monthly
          /\ draw < delta => draw = monthly
      <3>1. delta \in Nat \ {0}
        BY <1>6, <1>9 DEF SettleTruesUp
      <3> HIDE DEF delta
      <3> QED BY <1>5, <3>1, DrawBounds DEF TrueUpDraw, delta
    <2>2. TRUE \in Modes
      <3>1. Charge(s, l) - Amount(l) > 0
        BY <1>9 DEF SettleTruesUp
      <3>2. ~ (Charge(s, l) <= Amount(l))
        BY <1>6, <3>1
      <3> QED BY <1>3, <1>6, <3>2
    <2>3. MovePools(l, -draw, -(delta - draw))
      BY <1>9 DEF SettleTruesUp, TrueUpDraw
    <2> HIDE DEF delta, draw
    <2>4. monthly' = monthly - draw /\ topup' = topup - (delta - draw)
      BY <1>5, <2>1, <2>3 DEF MovePools
    <2>5. Ledger!Draws
      <3>1. monthly' \in 0 .. monthly /\ topup' <= topup
        BY <1>5, <2>1, <2>4
      <3>2. ASSUME topup' < topup PROVE monthly' = 0
        BY <1>5, <2>1, <2>4, <3>2
      <3> QED BY <3>1, <3>2 DEF Ledger!Draws
    <2> QED BY <1>7, <2>2, <2>3, <2>5, MovesAreCharged
  <1>10. CASE SettleRefunds(s, l)
    <2> DEFINE refund == Amount(l) - Charge(s, l)
               back   == RefundBack(s, l)
    <2>1. /\ refund \in Nat /\ back \in Nat /\ back <= refund
          /\ back <= fromMonthly[l] /\ refund - back <= fromTopup[l]
      BY <1>6, <1>10, RefundTyped DEF SettleRefunds
    <2>2. MovePools(l, back, refund - back)
      BY <1>10 DEF SettleRefunds, RefundBack
    <2> HIDE DEF refund, back
    <2>3. monthly' - monthly = back /\ topup' - topup = refund - back
      BY <1>5, <2>1, <2>2 DEF MovePools
    <2>4. Ledger!GivesBack(l)
      BY <1>4, <2>1, <2>3 DEF Ledger!GivesBack, Cost
    <2> QED BY <1>7, <2>2, <2>4, MovesAreCharged
  <1> QED BY <1>8, <1>9, <1>10

LEMMA ReclaimIsSweep ==
  ASSUME LedgerInv, NEW s \in Sessions, ReclaimCommits(s)
  PROVE  Ledger!Sweep(txn[s].swept)
  <1> USE DEF LedgerInv
  <1> DEFINE S == txn[s].swept
             refunded == {l \in S : Ledger!Total(l) > MinLease}
  <1>1. S \subseteq Leases /\ \A l \in S : status[l] = "active"
    BY DEF ReclaimCommits, LockInv, LeasesHeld, TypeOK, LeasesTypeOK, Transactions
  <1>2. \A l \in S : /\ paidMonthly[l] = fromMonthly[l] /\ paidTopup[l] = fromTopup[l]
                     /\ fromMonthly[l] \in Nat /\ fromTopup[l] \in Nat
    BY <1>1 DEF MoneyInv, Accounts, PaidFor, TypeOK, LeasesTypeOK
  <1>3. \A l \in S : Ledger!Total(l) = Amount(l)
    BY <1>1, <1>2 DEF Ledger!Total, Cost, Amount
  <1>4. refunded = Refunded(s)
    BY <1>3 DEF Refunded
  <1>5. status' = [l \in Leases |-> IF l \in refunded THEN "reclaimed"
                                   ELSE IF l \in S THEN "abandoned" ELSE status[l]]
    BY <1>4 DEF ReclaimCommits, Refunded
  <1>6. /\ txn[s].backMonthly = Ledger!Sum([l \in Leases |-> Cost[l].monthly], refunded)
        /\ txn[s].backTopup = Ledger!Sum([l \in Leases |-> Cost[l].topup], refunded)
    <2> DEFINE ofMonthly == [l \in Leases |-> Cost[l].monthly]
               ofTopup   == [l \in Leases |-> Cost[l].topup]
    <2>1. \A l \in Refunded(s) : fromMonthly[l] = ofMonthly[l] /\ fromTopup[l] = ofTopup[l]
      BY <1>1, <1>2 DEF Refunded, Cost
    <2>2. /\ IsSum(txn[s].backMonthly, fromMonthly, Refunded(s))
          /\ IsSum(txn[s].backTopup, fromTopup, Refunded(s))
      BY DEF SweepSums
    <2> HIDE DEF ofMonthly, ofTopup
    <2>3. /\ IsSum(txn[s].backMonthly, ofMonthly, Refunded(s))
          /\ IsSum(txn[s].backTopup, ofTopup, Refunded(s))
      BY <2>1, <2>2, SumSame
    <2> QED BY <1>4, <2>3 DEF IsSum, ofMonthly, ofTopup
  <1>7. monthly' = monthly + txn[s].backMonthly /\ topup' = topup + txn[s].backTopup
    BY DEF ReclaimCommits
  <1>8. Cost' = [l \in Leases |-> IF l \in refunded THEN Ledger!Free ELSE Cost[l]]
    <2>1. \A l \in Leases :
            /\ paidMonthly'[l] = IF l \in refunded THEN 0 ELSE paidMonthly[l]
            /\ paidTopup'[l] = IF l \in refunded THEN 0 ELSE paidTopup[l]
      <3>1. \A l \in Refunded(s) : paidMonthly[l] - fromMonthly[l] = 0 /\ paidTopup[l] - fromTopup[l] = 0
        BY <1>2 DEF Refunded
      <3> QED BY <1>4, <3>1 DEF ReclaimCommits, Refunded
    <2> HIDE DEF refunded
    <2> QED BY <2>1 DEF Cost, Ledger!Free
  <1> QED BY <1>1, <1>5, <1>6, <1>7, <1>8 DEF Ledger!Sweep

LEMMA LedgerStep == LedgerInv /\ [Next]_billingVars => [Ledger!Next]_(Ledger!vars)
  <1> SUFFICES ASSUME LedgerInv, [Next]_billingVars PROVE Ledger!Next \/ UNCHANGED Ledger!vars
    OBVIOUS
  <1>1. CASE UNCHANGED <<monthly, topup, status, paidVars>>
    BY <1>1 DEF Ledger!vars, Cost, paidVars
  <1>2. ASSUME NEW s \in Sessions, SessionStep(s)
        PROVE  Ledger!Next \/ UNCHANGED Ledger!vars
    <2>1. CASE Beginning(s) \/ Continuing(s) \/ Closing(s) \/ Leaving(s)
      BY <1>1, <2>1, BeginningStep, ContinuingStep, LeavingStep
         DEF Quiet, poolVars, leaseVars, Closing, CloseCommits, LedgerInv
    <2>2. ASSUME NEW l \in Leases, GrantCommits(s, l) PROVE Ledger!Next
      BY <2>2, GrantIsGrant DEF Ledger!Next
    <2>3. ASSUME NEW l \in Leases,
                 SettleExactly(s, l) \/ SettleTruesUp(s, l) \/ SettleRefunds(s, l)
          PROVE  Ledger!Next
      BY <2>3, SettlementIsSettle DEF Ledger!Next
    <2>4. ASSUME ReclaimCommits(s) PROVE Ledger!Next
      <3>1. txn[s].swept \in SUBSET Leases
        BY DEF LedgerInv, TypeOK, LeasesTypeOK, Transactions
      <3> QED BY <2>4, <3>1, ReclaimIsSweep DEF Ledger!Next
    <2> QED BY <1>2, <2>1, <2>2, <2>3, <2>4, StepKinds DEF Paying
  <1>3. ASSUME NEW l \in Leases, LeaseExpires(l) PROVE UNCHANGED Ledger!vars
    BY <1>1, <1>3 DEF LeaseExpires, poolVars, Ledger!vars, Cost, paidVars
  <1>4. CASE Renew
    BY <1>4 DEF Renew, MonthlyReset, PoolsOnly, leaseVars, paidVars, Ledger!Next, Ledger!Renew, Cost
  <1>5. CASE RefillStep
    <2>1. ASSUME NEW r \in Refillers, RefillGrants(r) PROVE Ledger!Next
      BY <2>1 DEF RefillGrants, AddTopup, PoolsOnly, leaseVars, paidVars, Ledger!Next, Ledger!Refill,
         Cost
    <2>2. ASSUME NEW r \in Refillers,
                 \/ RefillReads(r) \/ RefillTakesLock(r) \/ RefillFindsLock(r)
                 \/ RefillCharges(r) \/ RefillDeclined(r) \/ RefillReturns(r) \/ RefillBreaks(r)
          PROVE  UNCHANGED <<monthly, topup, status, paidVars>>
      BY <2>2 DEF RefillReads, RefillTakesLock, RefillFindsLock, RefillCharges, RefillDeclined,
         RefillReturns, RefillBreaks, creditVars, poolVars, leaseVars
    <2>3. CASE RefillLockExpires
      BY <1>1, <2>3 DEF RefillLockExpires, creditVars, poolVars, leaseVars
    <2> QED BY <1>1, <1>5, <2>1, <2>2, <2>3 DEF RefillStep
  <1>6. CASE RequestStep
    <2>1. ASSUME NEW q \in Requests, NEW price \in Prices, RequestCharged(q, price)
          PROVE  Ledger!Next
      <3>1. Larger(0, topup - price) = IF price < topup THEN topup - price ELSE 0
        BY DEF Larger, LedgerInv, TypeOK, PoolsTypeOK
      <3> QED BY <2>1, <3>1 DEF RequestCharged, DeductTopup, PoolsOnly, leaseVars, paidVars,
                 Ledger!Next, Ledger!Pays, Cost
    <2>2. ASSUME NEW q \in Requests,
                 RequestPassesGate(q) \/ RequestFails(q) \/ RequestReturns(q)
          PROVE  UNCHANGED <<monthly, topup, status, paidVars>>
      BY <2>2 DEF RequestPassesGate, RequestFails, RequestReturns, creditVars, poolVars, leaseVars
    <2> QED BY <1>1, <1>6, <2>1, <2>2 DEF RequestStep
  <1>7. CASE UNCHANGED billingVars
    BY <1>1, <1>7 DEF billingVars, creditVars, poolVars, leaseVars
  <1> QED BY <1>2, <1>3, <1>4, <1>5, <1>6, <1>7 DEF Next, LeaseStep

(* However transactions, sweeps and charges interleave, the organization's *)
(* credit changes as if each of them happened at once, when it commits     *)
(* (lease-service.ts, lease-reclaim.ts, usage-metering.ts).                *)
THEOREM BillingIsALedger == Spec => BillingImplementsLedger
  BY LedgerInvariance, LedgerInit, LedgerStep, PTL DEF Spec, BillingImplementsLedger, Ledger!Spec

===========================================================================
