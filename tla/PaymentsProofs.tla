--------------------------- MODULE PaymentsProofs ---------------------------
(***************************************************************************)
(* Proofs about Payments, for any number of orders, handlers, payouts and  *)
(* interrupted handlers, any price and any fee.                            *)
(***************************************************************************)
EXTENDS Payments, FiniteSetTheorems, TLAPS

Statuses == {"absent", "checked", "closing", "opening", "pending_payment",
             "fulfilled", "closed", "payment_exception"}
Entitlements == {"none", "active", "revoked"}
Reversals == {"none", "detected", "applied", "manual_review"}
OrderRows ==
  [kind : {"asset", "membership"},
   status : Statuses,
   attempt : {"none", "created", "succeeded", "closed", "failed"},
   entitlement : Entitlements,
   reversal : Reversals,
   entries : SUBSET {"sale", "reversal"}]
Trades == {"none", "WAIT_BUYER_PAY"} \cup Paid \cup Closed

\* Parts of the type invariant; its definition names the same sets.
OrdersOK  == order \in [Orders -> OrderRows]
TradesOK  == trade \in [Orders -> Trades]
SeenOK    == seen \in [Orders -> SUBSET (Paid \cup Closed)]
BalanceOK == balance \in [available : Nat, reserved : Nat]
PayoutOK  == payout \in [pending : Nat, paid : Nat, made : 0 .. MaxPayouts]
JobsOK    == job \in [Handlers -> Jobs]
OthersOK  == overdue \subseteq Orders /\ fails \in 0 .. MaxFails /\ member \in BOOLEAN

-----------------------------------------------------------------------------
(* The rows an order can be in.  Attempt, entitlement, reversal and        *)
(* journal are known from the status and the kind, except under exception, *)
(* where the reversal tells.                                               *)
Untouched(x) == x.entitlement = "none" /\ x.reversal = "none" /\ x.entries = {}
Sold(x) == x.entries = IF x.kind = "asset" THEN {"sale"} ELSE {}

IsUnmade(x)    == /\ x.status \in {"absent", "checked", "closing", "opening"}
                  /\ x.attempt = "none" /\ Untouched(x)
IsPending(x)   == /\ x.status = "pending_payment"
                  /\ x.attempt = "created" \/ (x.attempt = "closed" /\ x.kind = "asset")
                  /\ Untouched(x)
IsClosed(x)    == x.status = "closed" /\ x.attempt \in {"created", "closed"} /\ Untouched(x)
IsStuck(x)     == x.status = "payment_exception" /\ x.attempt = "created" /\ Untouched(x)
IsFulfilled(x) == /\ x.status = "fulfilled" /\ x.attempt = "succeeded" /\ x.reversal = "none"
                  /\ x.entitlement = IF x.kind = "asset" THEN "active" ELSE "none"
                  /\ Sold(x)
IsReviewed(x)  == /\ x.status = "payment_exception" /\ x.attempt = "succeeded"
                  /\ x.reversal = "manual_review"
                  /\ x.entitlement \in IF x.kind = "asset" THEN {"active", "revoked"} ELSE {"none"}
                  /\ Sold(x)
IsReversed(x)  == /\ x.status = "payment_exception" /\ x.attempt = "failed"
                  /\ x.reversal = "applied"
                  /\ x.entitlement = IF x.kind = "asset" THEN "revoked" ELSE "none"
                  /\ x.entries = IF x.kind = "asset" THEN {"sale", "reversal"} ELSE {}

Unsettled(x) == IsUnmade(x) \/ IsPending(x) \/ IsClosed(x) \/ IsStuck(x)
Settlement(x) == IsFulfilled(x) \/ IsReviewed(x) \/ IsReversed(x)

(* A row and the provider's trade. *)
RowAgrees(x, t) ==
  \/ Unsettled(x)
  \/ IsFulfilled(x) /\ t \in Paid \cup Refunded
  \/ (IsReviewed(x) \/ IsReversed(x)) /\ t \in Refunded

RowsInv == \A o \in Orders : RowAgrees(order[o], trade[o])

(* What a handler holds from an earlier step is still so: a trade that was *)
(* paid stays paid or is refunded, a closed one does not move again, and   *)
(* a review is filed for an order that was settled and refunded.           *)
JobAgrees(j, orders, trades) ==
  /\ j.at \in {"answer", "reverse"} =>
       /\ j.answer \in Paid => trades[j.order] \in Paid \cup Refunded
       /\ j.answer \in Closed => trades[j.order] = j.answer
  /\ j.at = "reverse" => j.answer \in Closed
  /\ j.at = "review" => Settlement(orders[j.order]) /\ trades[j.order] \in Refunded

JobsInv == \A h \in Handlers : JobAgrees(job[h], order, trade)

PaymentsInv == PaymentsTypeOK /\ RowsInv /\ JobsInv /\ BalanceMatchesSales

-----------------------------------------------------------------------------
(* The type invariant, by parts. *)
LEMMA TypeParts ==
  PaymentsTypeOK <=> /\ OrdersOK /\ TradesOK /\ SeenOK /\ BalanceOK /\ PayoutOK
                     /\ JobsOK /\ OthersOK
BY DEF PaymentsTypeOK, OrdersOK, TradesOK, SeenOK, BalanceOK, PayoutOK, JobsOK, OthersOK,
       OrderRows, Statuses, Entitlements, Reversals, Trades

(* _split: the creator's share is a number of cents, from nothing to the   *)
(* whole price.                                                            *)
LEMMA CreatorAmountNat == CreatorAmount \in Nat /\ CreatorAmount <= Price
<1>1. Price \in Nat /\ FeeBps \in Nat /\ FeeBps <= 10000
  BY PaymentsAssumption
<1>2. DEFINE a == Price * FeeBps
<1>3. a \in Nat /\ a <= Price * 10000
  BY <1>1
<1> HIDE DEF a
<1>4. (a + 5000) \div 10000 \in Nat /\ (a + 5000) \div 10000 <= Price
  BY <1>1, <1>3
<1>5. PlatformFee \in Nat /\ PlatformFee <= Price
  BY <1>4 DEF PlatformFee, a
<1> QED
  BY <1>1, <1>5 DEF CreatorAmount

-----------------------------------------------------------------------------
(* What the transitions of a locked order do to its row. *)

(* close_unpaid: a row that is not pending is left alone. *)
LEMMA CloseUnpaidRow ==
  ASSUME NEW x \in OrderRows, NEW t, RowAgrees(x, t)
  PROVE  /\ CloseUnpaid(x) \in OrderRows
         /\ RowAgrees(CloseUnpaid(x), t)
         /\ Settlement(x) => CloseUnpaid(x) = x
         /\ CloseUnpaid(x).entries = x.entries
BY DEF OrderRows, Statuses, Entitlements, Reversals, CloseUnpaid, Unpaid, RowAgrees, Unsettled, Settlement, Untouched,
       IsUnmade, IsPending, IsClosed, IsStuck, IsFulfilled, IsReviewed, IsReversed

(* mark_settled with its entitlement and its sale, once the provider was   *)
(* paid.                                                                   *)
LEMMA SettledRow ==
  ASSUME NEW x \in OrderRows, NEW t \in Paid \cup Refunded, RowAgrees(x, t)
  PROVE  /\ Settled(x) \in OrderRows
         /\ RowAgrees(Settled(x), t)
         /\ Settlement(x) => Settled(x) = x
         /\ \/ Settled(x).entries = x.entries
            \/ x.entries = {} /\ Settled(x).entries = {"sale"}
<1>1. CASE ~Unpaid(x)
  BY <1>1 DEF Settled
<1>2. CASE Unpaid(x)
  <2>1. IsPending(x)
    BY <1>2 DEF Unpaid, RowAgrees, Unsettled, IsUnmade, IsPending, IsClosed, IsStuck,
       IsFulfilled, IsReviewed, IsReversed
  <2>2. Settled(x) \in OrderRows
    BY <1>2 DEF Settled, OrderRows, Statuses, Entitlements
  <2>3. IsFulfilled(Settled(x)) /\ ~Settlement(x)
    BY <1>2, <2>1 DEF Settled, IsFulfilled, IsReviewed, IsReversed, Settlement, Sold, IsPending,
       Untouched, OrderRows
  <2>4. \/ Settled(x).entries = x.entries
        \/ x.entries = {} /\ Settled(x).entries = {"sale"}
    BY <1>2, <2>1 DEF Settled, IsPending, Untouched, OrderRows
  <2> QED
    BY <2>2, <2>3, <2>4 DEF RowAgrees
<1> QED
  BY <1>1, <1>2

(* The rows written by mark_reversal_manual_review and apply_reversal. *)
LEMMA ReviewedRowType ==
  ASSUME NEW x \in OrderRows, NEW r \in Reversals, NEW e \in Entitlements
  PROVE  [x EXCEPT !.reversal = r, !.entitlement = e, !.status = "payment_exception"] \in OrderRows
BY DEF OrderRows, Statuses

LEMMA ReversedRowType ==
  ASSUME NEW x \in OrderRows, NEW e \in Entitlements, NEW n \in SUBSET {"sale", "reversal"}
  PROVE  [x EXCEPT !.reversal = "applied", !.attempt = "failed", !.status = "payment_exception",
                   !.entitlement = e, !.entries = n] \in OrderRows
BY DEF OrderRows, Statuses, Reversals

(* mark_reversal_manual_review of a settled order. *)
LEMMA ReviewRow ==
  ASSUME NEW x \in OrderRows, NEW revoke \in BOOLEAN, Settlement(x)
  PROVE  /\ ManualReview(Detected(x), revoke) \in OrderRows
         /\ \/ IsReviewed(ManualReview(Detected(x), revoke))
            \/ IsReversed(ManualReview(Detected(x), revoke))
         /\ ManualReview(Detected(x), revoke).entries = x.entries
<1> DEFINE y == Detected(x)
<1>1. /\ y \in OrderRows
      /\ y = [x EXCEPT !.reversal = y.reversal]
      /\ y.reversal = IF x.reversal = "none" THEN "detected" ELSE x.reversal
  BY DEF Detected, OrderRows, Reversals
<1> HIDE DEF y
<1> DEFINE z == ManualReview(y, revoke)
<1>2. z \in OrderRows
  <2> DEFINE r == IF y.reversal = "detected" THEN "manual_review" ELSE y.reversal
             e == IF revoke /\ y.entitlement = "active" THEN "revoked" ELSE y.entitlement
  <2>1. r \in Reversals /\ e \in Entitlements
    BY <1>1 DEF OrderRows, Reversals, Entitlements
  <2>2. z = [y EXCEPT !.reversal = r, !.entitlement = e, !.status = "payment_exception"]
    BY DEF ManualReview
  <2> HIDE DEF r, e, z
  <2> QED
    BY <1>1, <2>1, <2>2, ReviewedRowType
<1>3. /\ z.kind = x.kind /\ z.attempt = x.attempt /\ z.entries = x.entries
      /\ z.status = "payment_exception"
      /\ z.reversal = IF y.reversal = "detected" THEN "manual_review" ELSE y.reversal
      /\ z.entitlement = IF revoke /\ x.entitlement = "active" THEN "revoked" ELSE x.entitlement
  BY <1>1 DEF ManualReview, OrderRows
<1> HIDE DEF z
<1>4. IsReviewed(z) \/ IsReversed(z)
  BY <1>1, <1>3 DEF Settlement, IsFulfilled, IsReviewed, IsReversed, Sold
<1> QED
  BY <1>2, <1>3, <1>4 DEF y, z

(* apply_reversal with the revocation and the counter-entry, of an order   *)
(* that is fulfilled.                                                      *)
LEMMA ReversalRow ==
  ASSUME NEW x \in OrderRows, IsFulfilled(x)
  PROVE  /\ ApplyReversal(Detected(x)) \in OrderRows
         /\ IsReversed(ApplyReversal(Detected(x)))
         /\ IF x.kind = "asset"
            THEN x.entries = {"sale"} /\ ApplyReversal(Detected(x)).entries = {"sale", "reversal"}
            ELSE ApplyReversal(Detected(x)).entries = x.entries
<1> DEFINE y == Detected(x)
<1>1. y \in OrderRows /\ y = [x EXCEPT !.reversal = y.reversal]
  BY DEF Detected, OrderRows, Reversals
<1> HIDE DEF y
<1> DEFINE z == ApplyReversal(y)
<1>4. z \in OrderRows
  <2> DEFINE e == IF y.entitlement = "active" THEN "revoked" ELSE y.entitlement
             n == IF y.kind = "asset" THEN y.entries \cup {"reversal"} ELSE y.entries
  <2>1. e \in Entitlements /\ n \in SUBSET {"sale", "reversal"}
    BY <1>1 DEF OrderRows, Entitlements
  <2>2. z = [y EXCEPT !.reversal = "applied", !.attempt = "failed", !.status = "payment_exception",
                      !.entitlement = e, !.entries = n]
    BY DEF ApplyReversal
  <2> HIDE DEF e, n, z
  <2> QED
    BY <1>1, <2>1, <2>2, ReversedRowType
<1>2. /\ z.status = "payment_exception" /\ z.kind = x.kind
      /\ z.attempt = "failed" /\ z.reversal = "applied"
      /\ z.entitlement = IF x.entitlement = "active" THEN "revoked" ELSE x.entitlement
      /\ z.entries = IF x.kind = "asset" THEN x.entries \cup {"reversal"} ELSE x.entries
  BY <1>1 DEF ApplyReversal, OrderRows
<1> HIDE DEF z
<1>3. IsReversed(z)
  BY <1>2 DEF IsFulfilled, IsReversed, Sold
<1> QED
  BY <1>2, <1>3, <1>4 DEF y, z, IsFulfilled, Sold

-----------------------------------------------------------------------------
(* What a step does to the rows, to the trades and to the books. *)
RowsStep ==
  /\ OrdersOK' /\ RowsInv'
  /\ \A o \in Orders : Settlement(order[o]) => Settlement(order'[o])

TradesStep ==
  /\ TradesOK'
  /\ \A o \in Orders :
       /\ trade[o] \in Paid \cup Refunded => trade'[o] \in Paid \cup Refunded
       /\ trade[o] \in Closed => trade'[o] = trade[o]

EntriesKept == \A o \in Orders : order'[o].entries = order[o].entries
EntriesKeptBut(o) == \A p \in Orders \ {o} : order'[p].entries = order[p].entries

SaleRecorded(o) ==
  /\ EntriesKeptBut(o) /\ order[o].entries = {} /\ order'[o].entries = {"sale"}
  /\ balance' = [balance EXCEPT !.available = @ + CreatorAmount]
SaleReversed(o) ==
  /\ EntriesKeptBut(o) /\ order[o].entries = {"sale"} /\ order'[o].entries = {"sale", "reversal"}
  /\ balance.available >= CreatorAmount
  /\ balance' = [balance EXCEPT !.available = @ - CreatorAmount]
BooksStep ==
  \/ EntriesKept /\ UNCHANGED <<balance, payout>>
  \/ EntriesKept /\ \E amount \in Nat : RequestPayout(amount)
  \/ EntriesKept /\ (ReleasePayout \/ MarkPaid)
  \/ payout' = payout /\ \E o \in Orders : SaleRecorded(o) \/ SaleReversed(o)

(* A transaction on one order, while the provider does nothing. *)
LEMMA OneRow ==
  ASSUME OrdersOK, TradesOK, RowsInv, NEW o \in Orders, NEW y \in OrderRows,
         order' = [order EXCEPT ![o] = y], trade' = trade,
         RowAgrees(y, trade[o]), Settlement(order[o]) => Settlement(y)
  PROVE  /\ RowsStep /\ TradesStep
         /\ EntriesKeptBut(o)
         /\ y.entries = order[o].entries => EntriesKept
<1>1. /\ OrdersOK' /\ order'[o] = y
      /\ \A p \in Orders \ {o} : order'[p] = order[p]
  BY DEF OrdersOK
<1>2. RowsInv'
  <2> SUFFICES ASSUME NEW p \in Orders PROVE RowAgrees(order'[p], trade'[p])
    BY DEF RowsInv
  <2> QED
    BY <1>1 DEF RowsInv
<1>3. RowsStep
  BY <1>1, <1>2 DEF RowsStep
<1>4. TradesStep
  BY DEF TradesStep, TradesOK
<1>5. EntriesKeptBut(o) /\ (y.entries = order[o].entries => EntriesKept)
  BY <1>1 DEF EntriesKeptBut, EntriesKept
<1> QED
  BY <1>3, <1>4, <1>5

(* A step that leaves orders and trades alone. *)
LEMMA NoRow ==
  ASSUME OrdersOK, TradesOK, RowsInv, order' = order, trade' = trade
  PROVE  RowsStep /\ TradesStep /\ EntriesKept
<1>1. RowsInv'
  BY DEF RowsInv
<1> QED
  BY <1>1 DEF RowsStep, TradesStep, EntriesKept, OrdersOK, TradesOK

(* A step of the provider: no settled order had an unpaid trade. *)
LEMMA TradeMove ==
  ASSUME OrdersOK, TradesOK, RowsInv, NEW o \in Orders, NEW t \in Trades,
         order' = order, trade' = [trade EXCEPT ![o] = t],
         \/ trade[o] \notin Paid \cup Closed
         \/ trade[o] \in Paid /\ t \in Refunded
  PROVE  RowsStep /\ TradesStep /\ EntriesKept
<1>1. TradesOK' /\ trade'[o] = t /\ \A p \in Orders \ {o} : trade'[p] = trade[p]
  BY DEF TradesOK
<1>2. RowAgrees(order[o], t)
  BY DEF RowsInv, RowAgrees, Closed, Paid, Refunded
<1>3. RowsInv'
  <2> SUFFICES ASSUME NEW p \in Orders PROVE RowAgrees(order'[p], trade'[p])
    BY DEF RowsInv
  <2> QED
    BY <1>1, <1>2 DEF RowsInv
<1>4. TradesStep
  BY <1>1 DEF TradesStep, Closed, Paid, Refunded
<1> QED
  BY <1>1, <1>3, <1>4 DEF RowsStep, EntriesKept, OrdersOK

(* What a handler holds stays true in such steps. *)
LEMMA JobStays ==
  ASSUME NEW j \in Jobs, JobAgrees(j, order, trade), RowsStep, TradesStep
  PROVE  JobAgrees(j, order', trade')
<1>1. CASE j = Idle
  BY <1>1 DEF JobAgrees, Idle
<1>2. CASE j # Idle
  <2>1. j.order \in Orders
    BY <1>2 DEF Jobs
  <2>2. trade[j.order] \in Refunded => trade'[j.order] \in Refunded
    BY <2>1 DEF TradesStep, Closed
  <2> QED
    BY <2>1, <2>2 DEF JobAgrees, RowsStep, TradesStep
<1> QED
  BY <1>1, <1>2

LEMMA JobsStay ==
  ASSUME JobsOK, JobsInv, RowsStep, TradesStep, job' = job
  PROVE  JobsOK' /\ JobsInv'
BY JobStays DEF JobsOK, JobsInv

LEMMA JobMoves ==
  ASSUME JobsOK, JobsInv, RowsStep, TradesStep, NEW h \in Handlers, NEW j \in Jobs,
         job' = [job EXCEPT ![h] = j], JobAgrees(j, order', trade')
  PROVE  JobsOK' /\ JobsInv'
<1>1. JobsOK'
  BY DEF JobsOK
<1>2. ASSUME NEW k \in Handlers PROVE JobAgrees(job'[k], order', trade')
  BY JobStays DEF JobsOK, JobsInv
<1> QED
  BY <1>1, <1>2 DEF JobsInv

LEMMA JobEnds ==
  ASSUME JobsOK, JobsInv, RowsStep, TradesStep, NEW h \in Handlers,
         job' = [job EXCEPT ![h] = Idle]
  PROVE  JobsOK' /\ JobsInv'
<1>1. Idle \in Jobs /\ JobAgrees(Idle, order', trade')
  BY DEF Jobs, JobAgrees, Idle
<1> QED
  BY <1>1, JobMoves

-----------------------------------------------------------------------------
(* The books. *)
LEMMA SalesFinite == IsFiniteSet(Sales) /\ Cardinality(Sales) \in Nat
<1>1. IsFiniteSet(Orders)
  BY PaymentsAssumption, FS_Interval DEF Orders
<1>2. IsFiniteSet(Sales)
  BY <1>1, FS_Subset DEF Sales
<1> QED
  BY <1>2, FS_CardinalityType

LEMMA OneShareMore ==
  ASSUME NEW c \in Int, NEW k \in Int PROVE c * (k + 1) = c * k + c /\ c * (k - 1) = c * k - c
OBVIOUS

(* apply_available_delta and the payout requests keep the projection equal *)
(* to what the orders say.                                                 *)
LEMMA BooksKept ==
  ASSUME BalanceOK, PayoutOK, BalanceMatchesSales, BooksStep
  PROVE  BalanceOK' /\ PayoutOK' /\ BalanceMatchesSales'
<1> DEFINE k == Cardinality(Sales)
<1>1. k \in Nat /\ IsFiniteSet(Sales) /\ CreatorAmount \in Nat
  BY SalesFinite, CreatorAmountNat
<1>2. CASE EntriesKept
  <2>1. Sales' = Sales
    BY <1>2 DEF EntriesKept, Sales
  <2>7. PICK total : total = CreatorAmount * Cardinality(Sales)
    OBVIOUS
  <2>8. /\ BalanceMatchesSales <=>
             /\ balance.available >= 0 /\ balance.reserved = payout.pending
             /\ balance.available + balance.reserved + payout.paid = total
        /\ BalanceMatchesSales' <=>
             /\ balance'.available >= 0 /\ balance'.reserved = payout'.pending
             /\ balance'.available + balance'.reserved + payout'.paid = total
    BY <2>1, <2>7 DEF BalanceMatchesSales, CreatorAmount, PlatformFee
  <2>2. CASE UNCHANGED <<balance, payout>>
    BY <2>8, <2>2 DEF BalanceOK, PayoutOK
  <2>3. ASSUME NEW amount \in Nat, RequestPayout(amount)
        PROVE  BalanceOK' /\ PayoutOK' /\ BalanceMatchesSales'
    <3>1. /\ balance' \in [available : Nat, reserved : Nat]
          /\ balance'.available = balance.available - amount
          /\ balance'.reserved = balance.reserved + amount
      BY <2>3 DEF BalanceOK, RequestPayout
    <3>2. /\ payout' \in [pending : Nat, paid : Nat, made : 0 .. MaxPayouts]
          /\ payout'.pending = amount /\ payout'.paid = payout.paid /\ payout.pending = 0
      <4> DEFINE m == payout.made + 1
      <4>1. /\ m \in 0 .. MaxPayouts /\ payout.pending = 0
            /\ payout' = [payout EXCEPT !.pending = amount, !.made = m]
        BY <2>3, PaymentsAssumption DEF PayoutOK, RequestPayout
      <4> HIDE DEF m
      <4> QED
        BY <4>1 DEF PayoutOK
    <3> QED
      BY <2>8, <3>1, <3>2 DEF BalanceOK, PayoutOK
  <2>4. CASE ReleasePayout
    <3>1. /\ balance' \in [available : Nat, reserved : Nat]
          /\ balance'.available = balance.available + payout.pending
          /\ balance'.reserved = balance.reserved - payout.pending
      BY <2>4 DEF BalanceOK, PayoutOK, ReleasePayout
    <3>2. /\ payout' \in [pending : Nat, paid : Nat, made : 0 .. MaxPayouts]
          /\ payout'.pending = 0 /\ payout'.paid = payout.paid
      BY <2>4 DEF PayoutOK, ReleasePayout
    <3> QED
      BY <2>8, <3>1, <3>2 DEF BalanceOK, PayoutOK
  <2>5. CASE MarkPaid
    <3>1. /\ balance' \in [available : Nat, reserved : Nat]
          /\ balance'.available = balance.available
          /\ balance'.reserved = balance.reserved - payout.pending
      BY <2>5 DEF BalanceOK, PayoutOK, MarkPaid
    <3>2. /\ payout' \in [pending : Nat, paid : Nat, made : 0 .. MaxPayouts]
          /\ payout'.pending = 0 /\ payout'.paid = payout.paid + payout.pending
      <4> DEFINE q == payout.paid + payout.pending
      <4>1. q \in Nat /\ payout' = [payout EXCEPT !.pending = 0, !.paid = q]
        BY <2>5 DEF PayoutOK, MarkPaid
      <4> HIDE DEF q
      <4>2. payout'.pending = 0 /\ payout'.paid = q /\ payout' \in [pending : Nat, paid : Nat, made : 0 .. MaxPayouts]
        BY <4>1 DEF PayoutOK
      <4> QED
        BY <4>2 DEF q
    <3> QED
      BY <2>8, <3>1, <3>2 DEF BalanceOK, PayoutOK
  <2>6. ASSUME NEW o \in Orders, SaleRecorded(o) \/ SaleReversed(o) PROVE FALSE
    BY <1>2, <2>6 DEF EntriesKept, SaleRecorded, SaleReversed
  <2> QED
    BY <2>2, <2>3, <2>4, <2>5, <2>6 DEF BooksStep
<1>3. ASSUME NEW o \in Orders, SaleRecorded(o), payout' = payout
      PROVE  BalanceOK' /\ PayoutOK' /\ BalanceMatchesSales'
  <2>1. Sales' = Sales \cup {o} /\ o \notin Sales
    BY <1>3 DEF SaleRecorded, EntriesKeptBut, Sales
  <2>2. Cardinality(Sales)' = k + 1
    BY <1>1, <2>1, FS_AddElement
  <2>3. CreatorAmount * (k + 1) = CreatorAmount * k + CreatorAmount
    BY <1>1, OneShareMore
  <2>4. CreatorAmount' = CreatorAmount
    BY DEF CreatorAmount, PlatformFee
  <2> HIDE DEF k
  <2> QED
    BY <1>1, <1>3, <2>2, <2>3, <2>4 DEF SaleRecorded, BalanceOK, PayoutOK, BalanceMatchesSales, k
<1>4. ASSUME NEW o \in Orders, SaleReversed(o), payout' = payout
      PROVE  BalanceOK' /\ PayoutOK' /\ BalanceMatchesSales'
  <2>1. Sales' = Sales \ {o} /\ o \in Sales
    BY <1>4 DEF SaleReversed, EntriesKeptBut, Sales
  <2>2. Cardinality(Sales)' = k - 1
    BY <1>1, <2>1, FS_RemoveElement
  <2>3. CreatorAmount * (k - 1) = CreatorAmount * k - CreatorAmount
    BY <1>1, OneShareMore
  <2>4. CreatorAmount' = CreatorAmount
    BY DEF CreatorAmount, PlatformFee
  <2> HIDE DEF k
  <2> QED
    BY <1>1, <1>4, <2>2, <2>3, <2>4 DEF SaleReversed, BalanceOK, PayoutOK, BalanceMatchesSales, k
<1> QED
  BY <1>2, <1>3, <1>4 DEF BooksStep

-----------------------------------------------------------------------------
(* Every action keeps the parts. *)
Parts == /\ OrdersOK /\ TradesOK /\ SeenOK /\ BalanceOK /\ PayoutOK /\ JobsOK /\ OthersOK
         /\ RowsInv /\ JobsInv /\ BalanceMatchesSales

StepGood == /\ RowsStep /\ TradesStep /\ BooksStep
            /\ SeenOK' /\ JobsOK' /\ JobsInv' /\ OthersOK'

LEMMA PartsAreInv == Parts <=> PaymentsInv
BY TypeParts DEF Parts, PaymentsInv

(* A change of one row's status and, with it, of its kind or attempt. *)
LEMMA NewRow ==
  ASSUME Parts, NEW o \in Orders, NEW y \in OrderRows,
         order' = [order EXCEPT ![o] = y], Unsettled(order[o]), Unsettled(y),
         UNCHANGED <<trade, seen, overdue, fails, member, balance, payout, job>>
  PROVE  StepGood
<1>1. order[o].entries = {} /\ y.entries = {}
  BY DEF Unsettled, IsUnmade, IsPending, IsClosed, IsStuck, Untouched
<1>2. RowAgrees(y, trade[o]) /\ ~Settlement(order[o])
  BY DEF RowAgrees, Unsettled, IsUnmade, IsPending, IsClosed, IsStuck, Settlement, IsFulfilled,
         IsReviewed, IsReversed
<1>3. RowsStep /\ TradesStep /\ EntriesKept
  BY <1>1, <1>2, OneRow DEF Parts
<1> QED
  BY <1>3, JobsStay DEF Parts, StepGood, BooksStep, SeenOK, OthersOK

LEMMA CheckoutSteps ==
  ASSUME Parts, NEW o \in Orders,
         StartCheckout(o) \/ StartMembership(o) \/ CreateOrder(o)
  PROVE  StepGood
<1>1. CASE StartCheckout(o)
  <2> DEFINE y == [order[o] EXCEPT !.status = "checked"]
  <2>1. order[o] = Absent /\ order' = [order EXCEPT ![o] = y]
    BY <1>1 DEF StartCheckout, Fresh, Parts, OrdersOK
  <2>2. y \in OrderRows /\ Unsettled(y) /\ Unsettled(order[o])
    BY <2>1 DEF Absent, OrderRows, Statuses, Entitlements, Reversals, Unsettled, IsUnmade, Untouched
  <2> HIDE DEF y
  <2> QED
    BY <1>1, <2>1, <2>2, NewRow DEF StartCheckout
<1>2. CASE StartMembership(o)
  <2> DEFINE y == [order[o] EXCEPT !.status = "opening", !.kind = "membership"]
  <2>1. order[o] = Absent /\ order' = [order EXCEPT ![o] = y]
    BY <1>2 DEF StartMembership, Fresh, Parts, OrdersOK
  <2>2. Untouched(order[o]) /\ order[o].attempt = "none" /\ order[o].status = "absent"
    BY <2>1 DEF Absent, Untouched
  <2>3. order[o] \in OrderRows
    BY DEF Parts, OrdersOK
  <2>4. y \in OrderRows /\ Unsettled(y) /\ Unsettled(order[o])
    BY <2>2, <2>3 DEF OrderRows, Statuses, Unsettled, IsUnmade, Untouched
  <2> HIDE DEF y
  <2> QED
    BY <1>2, <2>1, <2>4, NewRow DEF StartMembership
<1>3. CASE CreateOrder(o)
  <2> DEFINE y == [order[o] EXCEPT !.status = "pending_payment", !.attempt = "created"]
  <2>1. order[o].status = "opening" /\ order[o] \in OrderRows /\ order' = [order EXCEPT ![o] = y]
    BY <1>3 DEF CreateOrder, Parts, OrdersOK
  <2>2. IsUnmade(order[o])
    BY <2>1 DEF Parts, RowsInv, RowAgrees, Unsettled, IsUnmade, IsPending, IsClosed, IsStuck,
                IsFulfilled, IsReviewed, IsReversed
  <2>3. y \in OrderRows /\ IsPending(y)
    BY <2>1, <2>2 DEF OrderRows, Statuses, IsUnmade, IsPending, Untouched
  <2> HIDE DEF y
  <2> QED
    BY <1>3, <2>1, <2>2, <2>3, NewRow DEF CreateOrder, Unsettled
<1> QED
  BY <1>1, <1>2, <1>3

(* The two UPDATEs of close_pending_orders_for_listing: the first leaves   *)
(* its rows pending, with a closed attempt.                                *)
LEMMA ClosePreviousStep ==
  ASSUME Parts, NEW o \in Orders, CloseAttempts(o) \/ CloseOrders(o) PROVE StepGood
<1>0. PICK before, after \in {"checked", "closing", "opening"} :
        /\ order[o].status = before
        /\ order'[o] = [order[o] EXCEPT !.status = after]
        /\ \A p \in Orders \ {o} :
             \/ order'[p] = order[p]
             \/ /\ Repeated(order[p])
                /\ \/ order'[p] = [order[p] EXCEPT !.attempt = "closed"]
                   \/ order'[p] = [order[p] EXCEPT !.status = "closed"]
  <2>1. CASE CloseAttempts(o)
    BY <2>1 DEF CloseAttempts, Repeated
  <2>2. CASE CloseOrders(o)
    BY <2>2 DEF CloseOrders, Repeated
  <2> QED
    BY <2>1, <2>2
<1>u. /\ UNCHANGED <<trade, seen, overdue, fails, member, balance, payout, job>>
      /\ order' = [p \in Orders |-> order'[p]]
  BY DEF CloseAttempts, CloseOrders
<1>1. ASSUME NEW p \in Orders
      PROVE  /\ order'[p] \in OrderRows
             /\ RowAgrees(order'[p], trade[p])
             /\ Settlement(order[p]) => order'[p] = order[p]
             /\ order'[p].entries = order[p].entries
  <2>1. order[p] \in OrderRows /\ RowAgrees(order[p], trade[p])
    BY DEF Parts, OrdersOK, RowsInv
  <2>2. CASE p = o
    <3>1. IsUnmade(order[o]) /\ ~Settlement(order[o])
      BY <1>0, <2>1, <2>2 DEF RowAgrees, Unsettled, IsUnmade, IsPending, IsClosed, IsStuck,
         Settlement, IsFulfilled, IsReviewed, IsReversed
    <3> QED
      BY <1>0, <2>1, <2>2, <3>1 DEF RowAgrees, Unsettled, IsUnmade, Untouched, OrderRows, Statuses
  <2>3. CASE p # o /\ order'[p] # order[p]
    <3>1. IsPending(order[p]) /\ ~Settlement(order[p]) /\ order[p].kind = "asset"
      BY <1>0, <2>1, <2>3 DEF Repeated, RowAgrees, Unsettled, IsUnmade, IsPending, IsClosed, IsStuck,
         Settlement, IsFulfilled, IsReviewed, IsReversed
    <3>2. CASE order'[p] = [order[p] EXCEPT !.attempt = "closed"]
      BY <2>1, <3>1, <3>2 DEF RowAgrees, Unsettled, IsPending, Untouched, OrderRows
    <3>3. CASE order'[p] = [order[p] EXCEPT !.status = "closed"]
      BY <2>1, <3>1, <3>3 DEF RowAgrees, Unsettled, IsPending, IsClosed, Untouched, OrderRows, Statuses
    <3> QED
      BY <1>0, <2>3, <3>2, <3>3
  <2>4. CASE order'[p] = order[p]
    BY <2>1, <2>4
  <2> QED
    BY <2>2, <2>3, <2>4
<1>2. trade' = trade /\ order' \in [Orders -> OrderRows]
  BY <1>u, <1>1
<1>3. RowsStep /\ TradesStep /\ EntriesKept
  BY <1>1, <1>2 DEF RowsStep, RowsInv, TradesStep, EntriesKept, OrdersOK, TradesOK, Parts
<1>4. JobsOK' /\ JobsInv'
  BY <1>3, <1>u, JobsStay DEF Parts
<1> QED
  BY <1>3, <1>4, <1>u DEF Parts, StepGood, BooksStep, SeenOK, OthersOK

(* grant_membership, and expires_at that passes. *)
LEMMA GrantAndExpire ==
  ASSUME Parts, GrantMembership \/ \E o \in Orders : Expire(o) PROVE StepGood
<1>1. order' = order /\ trade' = trade /\ job' = job /\ UNCHANGED <<seen, balance, payout>> /\ OthersOK'
  BY DEF GrantMembership, Expire, Parts, OthersOK
<1>2. RowsStep /\ TradesStep /\ EntriesKept
  BY <1>1, NoRow DEF Parts
<1>3. JobsOK' /\ JobsInv'
  BY <1>1, <1>2, JobsStay DEF Parts
<1> QED
  BY <1>1, <1>2, <1>3 DEF Parts, StepGood, BooksStep, SeenOK

(* The provider moves a trade. *)
LEMMA ProviderSteps ==
  ASSUME Parts, NEW o \in Orders, OpenForm(o) \/ ProviderMoves(o) PROVE StepGood
<1>1. UNCHANGED <<order, seen, fails, member, balance, payout, job>> /\ overdue' \subseteq overdue
  BY DEF OpenForm, ProviderMoves
<1>2. PICK t \in Trades : /\ trade' = [trade EXCEPT ![o] = t]
                          /\ \/ trade[o] \notin Paid \cup Closed
                             \/ trade[o] \in Paid /\ t \in Refunded
  <2>1. CASE OpenForm(o)
    BY <2>1 DEF OpenForm, Trade, Trades, Paid, Closed, Refunded
  <2>2. CASE ProviderMoves(o)
    BY <2>2 DEF ProviderMoves, Trade, Trades, Paid, Closed, Refunded
  <2> QED
    BY <2>1, <2>2
<1>3. RowsStep /\ TradesStep /\ EntriesKept
  BY <1>1, <1>2, TradeMove DEF Parts
<1>4. JobsOK' /\ JobsInv'
  BY <1>1, <1>3, JobsStay DEF Parts
<1> QED
  BY <1>1, <1>3, <1>4 DEF Parts, StepGood, BooksStep, SeenOK, OthersOK

(* A notification that was sent tells what the trade is or was. *)
LEMMA SentIsTrue ==
  ASSUME NEW o \in Orders, NEW n \in Sent(o)
  PROVE  /\ n \in Paid => trade[o] \in Paid \cup Refunded
         /\ n \in Closed => trade[o] = n
BY DEF Sent, Paid, Closed, Refunded

(* Settlement of an order whose trade was paid, with its sale. *)
LEMMA SettleStep ==
  ASSUME Parts, NEW o \in Orders, trade[o] \in Paid \cup Refunded, Settle(o),
         UNCHANGED <<trade, payout>>
  PROVE  RowsStep /\ TradesStep /\ BooksStep /\ member' \in BOOLEAN
<1> DEFINE x == order[o]
<1> DEFINE y == Settled(x)
<1>1. x \in OrderRows /\ RowAgrees(x, trade[o])
  BY DEF Parts, OrdersOK, RowsInv
<1>2. /\ y \in OrderRows /\ RowAgrees(y, trade[o])
      /\ Settlement(x) => y = x
      /\ \/ y.entries = x.entries
         \/ x.entries = {} /\ y.entries = {"sale"}
  BY <1>1, SettledRow
<1>3. /\ order' = [order EXCEPT ![o] = y]
      /\ balance' = IF y.entries # x.entries
                    THEN [balance EXCEPT !.available = @ + CreatorAmount] ELSE balance
      /\ member' \in BOOLEAN
  BY DEF Settle, Parts, OthersOK
<1> HIDE DEF y
<1>4. /\ RowsStep /\ TradesStep /\ EntriesKeptBut(o)
      /\ y.entries = x.entries => EntriesKept
  BY <1>2, <1>3, OneRow DEF Parts
<1>5. BooksStep
  <2>1. CASE y.entries = x.entries
    BY <1>3, <1>4, <2>1 DEF BooksStep
  <2>2. CASE y.entries # x.entries
    <3>1. order'[o] = y
      BY <1>3 DEF Parts, OrdersOK
    <3>2. SaleRecorded(o)
      BY <1>2, <1>3, <1>4, <2>2, <3>1 DEF SaleRecorded
    <3> QED
      BY <3>2 DEF BooksStep
  <2> QED
    BY <2>1, <2>2
<1> QED
  BY <1>3, <1>4, <1>5

LEMMA NotifyPaidStep ==
  ASSUME Parts, NEW o \in Orders, NEW n \in Paid, NotifyPaid(o, n) PROVE StepGood
<1>1. trade[o] \in Paid \cup Refunded
  BY SentIsTrue DEF NotifyPaid
<1>2. RowsStep /\ TradesStep /\ BooksStep /\ member' \in BOOLEAN
  BY <1>1, SettleStep DEF NotifyPaid
<1>3. JobsOK' /\ JobsInv'
  BY <1>2, JobsStay DEF Parts, NotifyPaid
<1> QED
  BY <1>2, <1>3 DEF Parts, StepGood, NotifyPaid, SeenOK, OthersOK

LEMMA ReconcilePaidStep ==
  ASSUME Parts, NEW h \in Handlers, ReconcilePaid(h) PROVE StepGood
<1>1. job[h] \in Jobs /\ JobAgrees(job[h], order, trade) /\ job[h].at = "answer" /\ job[h].answer \in Paid
  BY DEF Parts, JobsOK, JobsInv, ReconcilePaid
<1>2. job[h].order \in Orders /\ trade[job[h].order] \in Paid \cup Refunded
  BY <1>1 DEF Jobs, Idle, JobAgrees
<1>3. RowsStep /\ TradesStep /\ BooksStep /\ member' \in BOOLEAN
  BY <1>2, SettleStep DEF ReconcilePaid
<1>4. JobsOK' /\ JobsInv'
  BY <1>3, JobEnds DEF Parts, ReconcilePaid
<1> QED
  BY <1>3, <1>4 DEF Parts, StepGood, ReconcilePaid, SeenOK, OthersOK

(* A row that keeps its entries: CloseUnpaid, a review, or no change. *)
LEMMA QuietRow ==
  ASSUME Parts, NEW o \in Orders, NEW y \in OrderRows, order' = [order EXCEPT ![o] = y],
         RowAgrees(y, trade[o]), Settlement(order[o]) => Settlement(y),
         y.entries = order[o].entries, trade' = trade, UNCHANGED <<balance, payout>>
  PROVE  RowsStep /\ TradesStep /\ BooksStep /\ EntriesKept
<1>1. RowsStep /\ TradesStep /\ EntriesKept
  BY OneRow DEF Parts
<1> QED
  BY <1>1 DEF BooksStep

LEMMA CloseUnpaidQuiet ==
  ASSUME Parts, NEW o \in Orders, order' = [order EXCEPT ![o] = CloseUnpaid(order[o])],
         trade' = trade, UNCHANGED <<balance, payout>>
  PROVE  RowsStep /\ TradesStep /\ BooksStep /\ EntriesKept
<1>1. order[o] \in OrderRows /\ RowAgrees(order[o], trade[o])
  BY DEF Parts, OrdersOK, RowsInv
<1> QED
  BY <1>1, CloseUnpaidRow, QuietRow

LEMMA ReviewQuiet ==
  ASSUME Parts, NEW o \in Orders, NEW revoke \in BOOLEAN,
         Settlement(order[o]), trade[o] \in Refunded,
         order' = [order EXCEPT ![o] = ManualReview(Detected(order[o]), revoke)],
         trade' = trade, UNCHANGED <<balance, payout>>
  PROVE  RowsStep /\ TradesStep /\ BooksStep /\ EntriesKept
<1> DEFINE y == ManualReview(Detected(order[o]), revoke)
<1>1. order[o] \in OrderRows
  BY DEF Parts, OrdersOK
<1>2. y \in OrderRows /\ (IsReviewed(y) \/ IsReversed(y)) /\ y.entries = order[o].entries
  BY <1>1, ReviewRow
<1> HIDE DEF y
<1>3. order' = [order EXCEPT ![o] = y]
  BY DEF y
<1>4. RowAgrees(y, trade[o]) /\ Settlement(y)
  BY <1>2 DEF RowAgrees, Settlement
<1> QED
  BY <1>2, <1>3, <1>4, QuietRow

(* reverse_sale and apply_reversal, of an order that is fulfilled and      *)
(* refunded.                                                               *)
LEMMA ReversalStep ==
  ASSUME Parts, NEW o \in Orders, IsFulfilled(order[o]), trade[o] \in Refunded,
         CanReverse(order[o]), order' = [order EXCEPT ![o] = ApplyReversal(Detected(order[o]))],
         balance' = Debited(o), trade' = trade, payout' = payout
  PROVE  RowsStep /\ TradesStep /\ BooksStep
<1> DEFINE x == order[o]
           y == ApplyReversal(Detected(x))
<1>1. x \in OrderRows
  BY DEF Parts, OrdersOK
<1>2. /\ y \in OrderRows /\ IsReversed(y)
      /\ IF x.kind = "asset"
         THEN x.entries = {"sale"} /\ y.entries = {"sale", "reversal"}
         ELSE y.entries = x.entries
  BY <1>1, ReversalRow
<1> HIDE DEF y
<1>3. order' = [order EXCEPT ![o] = y] /\ order'[o] = y
  BY DEF y, Parts, OrdersOK
<1>4. RowAgrees(y, trade[o]) /\ Settlement(y)
  BY <1>2 DEF RowAgrees, Settlement
<1>5. /\ RowsStep /\ TradesStep /\ EntriesKeptBut(o)
      /\ y.entries = x.entries => EntriesKept
  BY <1>2, <1>3, <1>4, OneRow DEF Parts
<1>6. CASE x.kind = "asset"
  <2>1. balance.available >= CreatorAmount
    BY <1>2, <1>6 DEF CanReverse
  <2>2. balance' = [balance EXCEPT !.available = @ - CreatorAmount]
    BY <1>2, <1>3, <1>6 DEF Debited
  <2>3. SaleReversed(o)
    BY <1>2, <1>3, <1>5, <1>6, <2>1, <2>2 DEF SaleReversed
  <2> QED
    BY <1>5, <2>3 DEF BooksStep
<1>7. CASE x.kind # "asset"
  <2>1. y.entries = x.entries /\ balance' = balance
    BY <1>2, <1>3, <1>7 DEF Debited
  <2> QED
    BY <1>5, <2>1 DEF BooksStep
<1> QED
  BY <1>6, <1>7

(* Only a fulfilled order is owed a refund, and the provider's word that   *)
(* the trade is closed then means that it was refunded.                    *)
LEMMA OwedIsFulfilled ==
  ASSUME Parts, NEW o \in Orders, Owed(order[o]), trade[o] \in Closed
  PROVE  IsFulfilled(order[o]) /\ Settlement(order[o]) /\ trade[o] \in Refunded
<1>1. order[o] \in OrderRows /\ RowAgrees(order[o], trade[o])
  BY DEF Parts, OrdersOK, RowsInv
<1>2. IsFulfilled(order[o])
  BY <1>1 DEF Owed, RowAgrees, Unsettled, IsUnmade, IsPending, IsClosed, IsStuck, IsReviewed, IsReversed
<1>3. ~Unsettled(order[o])
  BY <1>2 DEF IsFulfilled, Unsettled, IsUnmade, IsPending, IsClosed, IsStuck
<1> QED
  BY <1>1, <1>2, <1>3 DEF RowAgrees, Settlement, Paid, Closed, IsReviewed, IsReversed

LEMMA NotifyClosedStep ==
  ASSUME Parts, NEW o \in Orders, NEW n \in Closed, NotifyClosed(o, n) PROVE StepGood
<1>1. trade[o] \in Closed
  BY SentIsTrue DEF NotifyClosed
<1>2. RowsStep /\ TradesStep /\ BooksStep
  <2>1. CASE order' = [order EXCEPT ![o] = CloseUnpaid(order[o])]
    <3>1. order'[o] = CloseUnpaid(order[o]) /\ order[o] \in OrderRows /\ RowAgrees(order[o], trade[o])
      BY <2>1 DEF Parts, OrdersOK, RowsInv
    <3>2. balance' = balance
      BY <3>1, CloseUnpaidRow DEF NotifyClosed, Debited
    <3> QED
      BY <2>1, <3>2, CloseUnpaidQuiet DEF NotifyClosed
  <2>2. CASE Owed(order[o]) /\ order' = [order EXCEPT ![o] = ManualReview(Detected(order[o]), FALSE)]
    <3>1. Settlement(order[o]) /\ trade[o] \in Refunded
      BY <1>1, <2>2, OwedIsFulfilled
    <3>2. order'[o].entries = order[o].entries
      BY <2>2, <3>1, ReviewRow DEF Parts, OrdersOK
    <3>3. balance' = balance
      BY <3>2 DEF NotifyClosed, Debited
    <3> QED
      BY <2>2, <3>1, <3>3, ReviewQuiet DEF NotifyClosed
  <2>3. CASE /\ Owed(order[o]) /\ CanReverse(order[o])
             /\ order' = [order EXCEPT ![o] = ApplyReversal(Detected(order[o]))]
    BY <1>1, <2>3, OwedIsFulfilled, ReversalStep DEF NotifyClosed
  <2> QED
    BY <2>1, <2>2, <2>3 DEF NotifyClosed
<1>3. JobsOK' /\ JobsInv'
  BY <1>2, JobsStay DEF Parts, NotifyClosed
<1> QED
  BY <1>2, <1>3 DEF Parts, StepGood, NotifyClosed, SeenOK, OthersOK

LEMMA ReversePaidStep ==
  ASSUME Parts, NEW h \in Handlers, ReversePaid(h) PROVE StepGood
<1> DEFINE o == job[h].order
<1>1. job[h] \in Jobs /\ JobAgrees(job[h], order, trade) /\ job[h].at = "reverse"
  BY DEF Parts, JobsOK, JobsInv, ReversePaid
<1>2. o \in Orders /\ trade[o] \in Closed
  BY <1>1 DEF Jobs, Idle, JobAgrees
<1>3. UNCHANGED <<trade, seen, overdue, fails, member, payout>> /\ balance' = Debited(o)
  BY DEF ReversePaid
<1> HIDE DEF o
<1>4. RowsStep /\ TradesStep /\ BooksStep
  <2>1. CASE order' = order
    <3>1. balance' = balance
      BY <1>3, <2>1 DEF Debited
    <3> QED
      BY <1>3, <2>1, <3>1, NoRow DEF Parts, BooksStep
  <2>2. CASE Owed(order[o]) /\ order' = [order EXCEPT ![o] = ManualReview(Detected(order[o]), TRUE)]
    <3>1. Settlement(order[o]) /\ trade[o] \in Refunded
      BY <1>2, <2>2, OwedIsFulfilled
    <3>2. order'[o].entries = order[o].entries
      BY <1>2, <2>2, <3>1, ReviewRow DEF Parts, OrdersOK
    <3>3. balance' = balance
      BY <1>3, <3>2 DEF Debited
    <3> QED
      BY <1>2, <1>3, <2>2, <3>1, <3>3, ReviewQuiet
  <2>3. CASE /\ Owed(order[o]) /\ CanReverse(order[o])
             /\ order' = [order EXCEPT ![o] = ApplyReversal(Detected(order[o]))]
    BY <1>2, <1>3, <2>3, OwedIsFulfilled, ReversalStep
  <2> QED
    BY <2>1, <2>2, <2>3 DEF ReversePaid, o
<1>5. JobsOK' /\ JobsInv'
  BY <1>4, JobEnds DEF Parts, ReversePaid
<1> QED
  BY <1>3, <1>4, <1>5 DEF Parts, StepGood, SeenOK, OthersOK

(* Steps of a handler that only remember something. *)
LEMMA OnlyJob ==
  ASSUME Parts, NEW h \in Handlers, NEW j \in Jobs, job' = [job EXCEPT ![h] = j],
         JobAgrees(j, order, trade), UNCHANGED <<order, trade, seen, overdue, member, balance, payout>>,
         fails' \in 0 .. MaxFails
  PROVE  StepGood
<1>1. RowsStep /\ TradesStep /\ EntriesKept
  BY NoRow DEF Parts
<1>2. JobAgrees(j, order', trade')
  OBVIOUS
<1>3. JobsOK' /\ JobsInv'
  BY <1>1, <1>2, JobMoves DEF Parts
<1> QED
  BY <1>1, <1>3 DEF Parts, StepGood, BooksStep, SeenOK, OthersOK

LEMMA IdleJob == Idle \in Jobs /\ JobAgrees(Idle, order, trade)
BY DEF Jobs, JobAgrees, Idle

LEMMA NotifyRefusedStep ==
  ASSUME Parts, NEW o \in Orders, NEW h \in Handlers, NEW n \in Closed, NotifyRefused(h, o, n)
  PROVE  StepGood
<1> DEFINE j == [at |-> "review", order |-> o, notice |-> {n}]
<1>1. trade[o] \in Closed
  BY SentIsTrue DEF NotifyRefused
<1>2. j \in Jobs /\ JobAgrees(j, order, trade)
  BY <1>1, OwedIsFulfilled DEF NotifyRefused, Jobs, JobAgrees
<1>3. fails' \in 0 .. MaxFails
  BY DEF NotifyRefused, Parts, OthersOK
<1> QED
  BY <1>2, <1>3, OnlyJob DEF NotifyRefused

LEMMA StartReconcileStep ==
  ASSUME Parts, NEW o \in Orders, NEW h \in Handlers, StartReconcile(h, o) PROVE StepGood
<1> DEFINE j == [at |-> "query", order |-> o]
<1>1. j \in Jobs /\ JobAgrees(j, order, trade)
  BY DEF Jobs, JobAgrees
<1>2. fails' \in 0 .. MaxFails
  BY DEF StartReconcile, Parts, OthersOK
<1> QED
  BY <1>1, <1>2, OnlyJob DEF StartReconcile

(* query_trade: the answer is what the trade is at that time. *)
LEMMA QueryTradeStep ==
  ASSUME Parts, NEW h \in Handlers, QueryTrade(h) PROVE StepGood
<1> DEFINE o == job[h].order
           j == [at |-> "answer", order |-> o, answer |-> trade[o]]
<1>1. job[h] \in Jobs /\ job[h].at = "query" /\ trade[o] # "none"
  BY DEF Parts, JobsOK, QueryTrade
<1>2. o \in Orders
  BY <1>1 DEF Jobs, Idle
<1>3. trade[o] \in {"WAIT_BUYER_PAY"} \cup Paid \cup Closed
  BY <1>1, <1>2 DEF Parts, TradesOK, Trades
<1>4. j \in Jobs /\ JobAgrees(j, order, trade)
  BY <1>2, <1>3 DEF Jobs, JobAgrees
<1>5. fails' \in 0 .. MaxFails
  BY DEF QueryTrade, Parts, OthersOK
<1> QED
  BY <1>4, <1>5, OnlyJob DEF QueryTrade

LEMMA InterruptedStep ==
  ASSUME Parts, NEW h \in Handlers, Interrupted(h) PROVE StepGood
<1>1. fails' \in 0 .. MaxFails
  BY PaymentsAssumption DEF Interrupted, Parts, OthersOK
<1> QED
  BY <1>1, IdleJob, OnlyJob DEF Interrupted

LEMMA ReverseRefusedStep ==
  ASSUME Parts, NEW h \in Handlers, ReverseRefused(h) PROVE StepGood
<1> DEFINE o == job[h].order
           j == [at |-> "review", order |-> o, notice |-> {}]
<1>1. job[h] \in Jobs /\ JobAgrees(job[h], order, trade) /\ job[h].at = "reverse"
  BY DEF Parts, JobsOK, JobsInv, ReverseRefused
<1>2. o \in Orders /\ trade[o] \in Closed
  BY <1>1 DEF Jobs, Idle, JobAgrees
<1>3. j \in Jobs /\ JobAgrees(j, order, trade)
  BY <1>2, OwedIsFulfilled DEF ReverseRefused, Jobs, JobAgrees
<1>4. fails' \in 0 .. MaxFails
  BY DEF ReverseRefused, Parts, OthersOK
<1> QED
  BY <1>3, <1>4, OnlyJob DEF ReverseRefused

LEMMA ReconcileWaitingStep ==
  ASSUME Parts, NEW h \in Handlers, ReconcileWaiting(h) PROVE StepGood
<1> DEFINE o == job[h].order
           j == IF o \in overdue THEN [at |-> "close", order |-> o] ELSE Idle
<1>1. job[h] \in Jobs /\ job[h].at = "answer"
  BY DEF Parts, JobsOK, ReconcileWaiting
<1>2. o \in Orders
  BY <1>1 DEF Jobs, Idle
<1>3. j \in Jobs /\ JobAgrees(j, order, trade)
  BY <1>2, IdleJob DEF Jobs, JobAgrees
<1>4. fails' \in 0 .. MaxFails
  BY DEF ReconcileWaiting, Parts, OthersOK
<1> QED
  BY <1>3, <1>4, OnlyJob DEF ReconcileWaiting

(* TRADE_CLOSED: an unpaid order is closed, a paid one is to be reversed. *)
LEMMA ReconcileClosedStep ==
  ASSUME Parts, NEW h \in Handlers, ReconcileClosed(h) PROVE StepGood
<1> DEFINE o == job[h].order
<1>1. /\ job[h] \in Jobs /\ JobAgrees(job[h], order, trade)
      /\ job[h].at = "answer" /\ job[h].answer \in Closed
  BY DEF Parts, JobsOK, JobsInv, ReconcileClosed
<1>2. o \in Orders
  BY <1>1 DEF Jobs, Idle
<1>3. CASE order' = [order EXCEPT ![o] = CloseUnpaid(order[o])] /\ job' = [job EXCEPT ![h] = Idle]
  <2>1. RowsStep /\ TradesStep /\ BooksStep
    BY <1>2, <1>3, CloseUnpaidQuiet DEF ReconcileClosed
  <2>2. JobsOK' /\ JobsInv'
    BY <1>3, <2>1, JobEnds DEF Parts
  <2> QED
    BY <2>1, <2>2 DEF Parts, StepGood, SeenOK, OthersOK, ReconcileClosed
<1>4. CASE order' = order /\ job' = [job EXCEPT ![h].at = "reverse"]
  <2> DEFINE j == [job[h] EXCEPT !.at = "reverse"]
  <2>1. job[h] \in [at : {"answer", "reverse"}, order : Orders,
                    answer : {"WAIT_BUYER_PAY"} \cup Paid \cup Closed]
    BY <1>1 DEF Jobs, Idle
  <2>2. /\ j \in [at : {"answer", "reverse"}, order : Orders,
                  answer : {"WAIT_BUYER_PAY"} \cup Paid \cup Closed]
        /\ j.at = "reverse" /\ j.order = job[h].order /\ j.answer = job[h].answer
    BY <2>1
  <2>3. j \in Jobs /\ JobAgrees(j, order, trade)
    BY <1>1, <2>2 DEF Jobs, JobAgrees
  <2>4. job' = [job EXCEPT ![h] = j]
    BY <1>4 DEF Parts, JobsOK
  <2>5. fails' \in 0 .. MaxFails
    BY DEF ReconcileClosed, Parts, OthersOK
  <2> HIDE DEF j
  <2> QED
    BY <1>4, <2>3, <2>4, <2>5, OnlyJob DEF ReconcileClosed
<1> QED
  BY <1>3, <1>4 DEF ReconcileClosed

(* The second transaction of a refused reversal: the order was settled     *)
(* when the review was decided and still is, whatever committed since.     *)
LEMMA FileReviewStep ==
  ASSUME Parts, NEW h \in Handlers, FileReview(h) PROVE StepGood
<1> DEFINE o == job[h].order
<1>1. job[h] \in Jobs /\ JobAgrees(job[h], order, trade) /\ job[h].at = "review"
  BY DEF Parts, JobsOK, JobsInv, FileReview
<1>2. o \in Orders /\ job[h].notice \subseteq Closed
  BY <1>1 DEF Jobs, Idle
<1>3. Settlement(order[o]) /\ trade[o] \in Refunded
  BY <1>1 DEF JobAgrees
<1>4. /\ UNCHANGED <<trade, overdue, fails, member, balance, payout>>
      /\ job' = [job EXCEPT ![h] = Idle]
      /\ seen' = [seen EXCEPT ![o] = @ \cup job[h].notice]
  BY DEF FileReview
<1>5. RowsStep /\ TradesStep /\ BooksStep
  <2>1. CASE job[h].notice \cap seen[o] # {}
    <3>1. order' = order
      BY <1>2, <2>1 DEF FileReview, Parts, OrdersOK
    <3> QED
      BY <1>4, <3>1, NoRow DEF Parts, BooksStep
  <2>2. CASE job[h].notice \cap seen[o] = {}
    <3>1. order' = [order EXCEPT ![o] = ManualReview(Detected(order[o]), FALSE)]
      BY <1>2, <2>2 DEF FileReview, Parts, OrdersOK
    <3> QED
      BY <1>2, <1>3, <1>4, <3>1, ReviewQuiet
  <2> QED
    BY <2>1, <2>2
<1>6. JobsOK' /\ JobsInv'
  BY <1>4, <1>5, JobEnds DEF Parts
<1>7. SeenOK' /\ OthersOK'
  BY <1>2, <1>4 DEF Parts, SeenOK, OthersOK
<1> QED
  BY <1>5, <1>6, <1>7 DEF StepGood

(* on_reconcile_dead_letter: only an order that is still pending goes      *)
(* under exception.                                                        *)
LEMMA DeadLetterStep ==
  ASSUME Parts, NEW h \in Handlers, DeadLetter(h) PROVE StepGood
<1> DEFINE o == job[h].order
           x == order[o]
<1>1. job[h] \in Jobs /\ job[h].at \in {"query", "close"}
  BY DEF Parts, JobsOK, DeadLetter
<1>2. o \in Orders
  BY <1>1 DEF Jobs, Idle
<1>3. x \in OrderRows /\ RowAgrees(x, trade[o])
  BY <1>2 DEF Parts, OrdersOK, RowsInv
<1>4. /\ UNCHANGED <<trade, seen, overdue, fails, member, balance, payout>>
      /\ job' = [job EXCEPT ![h] = Idle]
  BY DEF DeadLetter
<1>l. ~HalfClosed(x)
  BY DEF DeadLetter
<1>5. RowsStep /\ TradesStep /\ BooksStep
  <2> DEFINE y == [x EXCEPT !.status = IF @ = "pending_payment" THEN "payment_exception" ELSE @]
  <2>1. order' = [order EXCEPT ![o] = y]
    BY <1>2 DEF DeadLetter, Parts, OrdersOK
  <2>2. CASE x.status # "pending_payment"
    <3>1. y = x
      BY <1>3, <2>2 DEF OrderRows
    <3>2. order' = order
      BY <1>2, <2>1, <3>1 DEF Parts, OrdersOK
    <3> QED
      BY <1>4, <3>2, NoRow DEF Parts, BooksStep
  <2>3. CASE x.status = "pending_payment"
    <3>1. y = [x EXCEPT !.status = "payment_exception"]
      BY <2>3
    <3>2. IsPending(x) /\ x.attempt = "created" /\ ~Settlement(x)
      BY <1>3, <1>l, <2>3 DEF HalfClosed, Repeated, RowAgrees, Unsettled, IsUnmade, IsPending,
         IsClosed, IsStuck, Settlement, IsFulfilled, IsReviewed, IsReversed
    <3>3. y \in OrderRows /\ IsStuck(y) /\ y.entries = x.entries
      BY <1>3, <3>1, <3>2 DEF OrderRows, Statuses, IsPending, IsStuck, Untouched
    <3> HIDE DEF y
    <3> QED
      BY <1>2, <1>4, <2>1, <3>2, <3>3, QuietRow DEF RowAgrees, Unsettled
  <2> QED
    BY <2>2, <2>3
<1>6. JobsOK' /\ JobsInv'
  BY <1>4, <1>5, JobEnds DEF Parts
<1> QED
  BY <1>4, <1>5, <1>6 DEF Parts, StepGood, SeenOK, OthersOK

(* close_trade: the provider closes only a trade that still waits. *)
LEMMA CloseTradeStep ==
  ASSUME Parts, NEW h \in Handlers, CloseTrade(h) PROVE StepGood
<1> DEFINE o == job[h].order
<1>1. job[h] \in Jobs /\ job[h].at = "close"
  BY DEF Parts, JobsOK, CloseTrade
<1>2. o \in Orders
  BY <1>1 DEF Jobs, Idle
<1>3. UNCHANGED <<order, seen, fails, member, balance, payout>> /\ overdue' \subseteq overdue
  BY DEF CloseTrade
<1>4. RowsStep /\ TradesStep /\ EntriesKept
  <2>1. CASE trade' = trade
    BY <1>3, <2>1, NoRow DEF Parts
  <2>2. CASE trade[o] = "WAIT_BUYER_PAY" /\ trade' = [trade EXCEPT ![o] = "closed_unpaid"]
    <3>1. "closed_unpaid" \in Trades /\ trade[o] \notin Paid \cup Closed
      BY <2>2 DEF Trades, Paid, Closed, Refunded
    <3> QED
      BY <1>2, <1>3, <2>2, <3>1, TradeMove DEF Parts
  <2> QED
    BY <2>1, <2>2 DEF CloseTrade
<1>5. PICK j \in Jobs : job' = [job EXCEPT ![h] = j] /\ JobAgrees(j, order', trade')
  <2>1. /\ [at |-> "closed", order |-> o] \in Jobs
        /\ JobAgrees([at |-> "closed", order |-> o], order', trade')
    BY <1>2 DEF Jobs, JobAgrees
  <2>2. Idle \in Jobs /\ JobAgrees(Idle, order', trade')
    BY DEF Jobs, JobAgrees, Idle
  <2>3. \/ job' = [job EXCEPT ![h] = [at |-> "closed", order |-> o]]
        \/ job' = [job EXCEPT ![h] = Idle]
    BY DEF CloseTrade
  <2> QED
    BY <2>1, <2>2, <2>3
<1>6. JobsOK' /\ JobsInv'
  BY <1>4, <1>5, JobMoves DEF Parts
<1> QED
  BY <1>3, <1>4, <1>6 DEF Parts, StepGood, BooksStep, SeenOK, OthersOK

LEMMA CloseExpiredStep ==
  ASSUME Parts, NEW h \in Handlers, CloseExpired(h) PROVE StepGood
<1> DEFINE o == job[h].order
<1>1. job[h] \in Jobs /\ job[h].at = "closed"
  BY DEF Parts, JobsOK, CloseExpired
<1>2. o \in Orders
  BY <1>1 DEF Jobs, Idle
<1>3. RowsStep /\ TradesStep /\ BooksStep
  <2>1. order' = [order EXCEPT ![o] = CloseUnpaid(order[o])]
    BY <1>2 DEF CloseExpired, Parts, OrdersOK
  <2> QED
    BY <1>2, <2>1, CloseUnpaidQuiet DEF CloseExpired
<1>4. JobsOK' /\ JobsInv'
  BY <1>3, JobEnds DEF Parts, CloseExpired
<1> QED
  BY <1>3, <1>4 DEF Parts, StepGood, SeenOK, OthersOK, CloseExpired

LEMMA PayoutSteps ==
  ASSUME Parts, (\E amount \in Nat : RequestPayout(amount)) \/ ReleasePayout \/ MarkPaid
  PROVE  StepGood
<1>1. UNCHANGED <<order, trade, seen, overdue, fails, member, job>>
  BY DEF RequestPayout, ReleasePayout, MarkPaid
<1>2. RowsStep /\ TradesStep /\ EntriesKept
  BY <1>1, NoRow DEF Parts
<1>3. BooksStep
  BY <1>2 DEF BooksStep
<1>4. JobsOK' /\ JobsInv'
  BY <1>1, <1>2, JobsStay DEF Parts
<1> QED
  BY <1>1, <1>2, <1>3, <1>4 DEF Parts, StepGood, SeenOK, OthersOK

-----------------------------------------------------------------------------
LEMMA NextIsGood ==
  ASSUME Parts, Next PROVE StepGood
<1>1. ASSUME NEW o \in Orders,
             \/ StartCheckout(o) \/ CloseAttempts(o) \/ CloseOrders(o) \/ StartMembership(o) \/ CreateOrder(o)
             \/ OpenForm(o) \/ ProviderMoves(o) \/ Expire(o)
      PROVE  StepGood
  BY <1>1, CheckoutSteps, ClosePreviousStep, ProviderSteps, GrantAndExpire
<1>2. ASSUME NEW o \in Orders,
             \/ \E n \in Paid : NotifyPaid(o, n)
             \/ \E n \in Closed : NotifyClosed(o, n)
      PROVE  StepGood
  BY <1>2, NotifyPaidStep, NotifyClosedStep
<1>3. ASSUME NEW o \in Orders, NEW h \in Handlers,
             StartReconcile(h, o) \/ \E n \in Closed : NotifyRefused(h, o, n)
      PROVE  StepGood
  BY <1>3, StartReconcileStep, NotifyRefusedStep
<1>4. ASSUME NEW h \in Handlers, HandlerStep(h) PROVE StepGood
  BY <1>4, QueryTradeStep, DeadLetterStep, ReconcilePaidStep, ReconcileClosedStep, ReversePaidStep,
     ReverseRefusedStep, FileReviewStep, ReconcileWaitingStep, CloseTradeStep, CloseExpiredStep
     DEF HandlerStep
<1>5. ASSUME NEW h \in Handlers, Interrupted(h) PROVE StepGood
  BY <1>5, InterruptedStep
<1>6. CASE GrantMembership
  BY <1>6, GrantAndExpire
<1>7. CASE \E amount \in 1 .. CreatorAmount * Cardinality(Orders) : RequestPayout(amount)
  <2>1. IsFiniteSet(Orders)
    BY PaymentsAssumption, FS_Interval DEF Orders
  <2>2. CreatorAmount * Cardinality(Orders) \in Nat
    BY <2>1, FS_CardinalityType, CreatorAmountNat
  <2> QED
    BY <1>7, <2>2, PayoutSteps
<1>8. CASE ReleasePayout \/ MarkPaid
  BY <1>8, PayoutSteps
<1> QED
  BY <1>1, <1>2, <1>3, <1>4, <1>5, <1>6, <1>7, <1>8 DEF Next

LEMMA InitIsGood == Init => Parts
<1> SUFFICES ASSUME Init PROVE Parts
  OBVIOUS
<1>1. Absent \in OrderRows /\ Unsettled(Absent)
  BY DEF Absent, OrderRows, Statuses, Entitlements, Reversals, Unsettled, IsUnmade, Untouched
<1>2. OrdersOK /\ RowsInv
  BY <1>1 DEF Init, OrdersOK, RowsInv, RowAgrees
<1>3. TradesOK /\ SeenOK
  BY DEF Init, TradesOK, Trades, SeenOK
<1>7. BalanceOK
  BY DEF Init, BalanceOK
<1>8. OthersOK
  <2>1. overdue \subseteq Orders /\ member \in BOOLEAN
    BY Zenon DEF Init
  <2>2. fails \in 0 .. MaxFails
    BY PaymentsAssumption DEF Init
  <2> QED
    BY <2>1, <2>2 DEF OthersOK
<1>4. PayoutOK
  BY PaymentsAssumption DEF Init, PayoutOK, NoPayout
<1>5. JobsOK /\ JobsInv
  BY IdleJob DEF Init, JobsOK, JobsInv
<1>6. BalanceMatchesSales
  <2>1. Sales = {}
    BY <1>2 DEF Sales, Init, Absent
  <2>2. CreatorAmount * Cardinality(Sales) = 0
    BY <2>1, FS_EmptySet, CreatorAmountNat
  <2> QED
    BY <2>2 DEF Init, BalanceMatchesSales, NoPayout
<1> QED
  BY <1>2, <1>3, <1>4, <1>5, <1>6, <1>7, <1>8 DEF Parts

(* The parts hold in every reachable state. *)
LEMMA PartsAlways == PaymentsSpec => []Parts
<1>1. Parts /\ [Next]_vars => Parts'
  <2> SUFFICES ASSUME Parts, [Next]_vars PROVE Parts'
    OBVIOUS
  <2>1. CASE Next
    <3>1. StepGood
      BY <2>1, NextIsGood
    <3>2. BalanceOK' /\ PayoutOK' /\ BalanceMatchesSales'
      BY <3>1, BooksKept DEF Parts, StepGood
    <3> QED
      BY <3>1, <3>2 DEF Parts, StepGood, RowsStep, TradesStep
  <2>2. CASE UNCHANGED vars
    <3>1. RowsStep /\ TradesStep /\ EntriesKept
      BY <2>2, NoRow DEF vars, Parts
    <3>2. JobsOK' /\ JobsInv'
      BY <2>2, <3>1, JobsStay DEF vars, Parts
    <3>3. BalanceOK' /\ PayoutOK' /\ BalanceMatchesSales'
      BY <2>2, <3>1, BooksKept DEF vars, Parts, BooksStep
    <3> QED
      BY <2>2, <3>1, <3>2, <3>3 DEF vars, Parts, RowsStep, TradesStep, SeenOK, OthersOK
  <2> QED
    BY <2>1, <2>2
<1> QED
  BY <1>1, InitIsGood, PTL DEF PaymentsSpec

(* Every order, trade, balance and handler keeps the shape its tables and  *)
(* state machine give it.                                                  *)
THEOREM PaymentsTypeCorrect == PaymentsSpec => []PaymentsTypeOK
<1>1. Parts => PaymentsTypeOK
  BY TypeParts DEF Parts
<1> QED
  BY <1>1, PartsAlways, PTL

(* The creator's projection (apply_available_delta, the payout requests)   *)
(* is what the orders say, for any number of orders and handlers.          *)
THEOREM BalanceAlwaysMatches == PaymentsSpec => []BalanceMatchesSales
<1>1. Parts => BalanceMatchesSales
  BY DEF Parts
<1> QED
  BY <1>1, PartsAlways, PTL

(* Access, order and journal tell the provider's story (_settle_locked,    *)
(* _process_closed_notification, _reverse_paid), however notifications and *)
(* reconciliations interleave.                                             *)
THEOREM AccessAlwaysFollows == PaymentsSpec => []AccessFollowsPayment
<1>1. Parts => AccessFollowsPayment
  <2> SUFFICES ASSUME Parts, NEW o \in Orders
               PROVE  LET x == order[o] IN
                      /\ x.status = "fulfilled" =>
                           /\ trade[o] \in Paid \cup Refunded
                           /\ x.kind = "asset" => x.entitlement = "active" /\ x.entries = {"sale"}
                      /\ x.entitlement = "active" => x.status = "fulfilled" \/ x.reversal = "manual_review"
                      /\ x.entitlement = "revoked" => trade[o] \in Refunded
                      /\ "reversal" \in x.entries => x.entitlement = "revoked" /\ x.reversal = "applied"
    BY DEF AccessFollowsPayment
  <2> DEFINE x == order[o]
  <2>1. x \in OrderRows /\ RowAgrees(x, trade[o])
    BY DEF Parts, OrdersOK, RowsInv
  <2> HIDE DEF x
  <2>2. CASE Unsettled(x)
    BY <2>1, <2>2 DEF x, Unsettled, IsUnmade, IsPending, IsClosed, IsStuck, Untouched, OrderRows
  <2>3. CASE IsFulfilled(x) /\ trade[o] \in Paid \cup Refunded
    BY <2>1, <2>3 DEF x, IsFulfilled, Sold, OrderRows
  <2>4. CASE (IsReviewed(x) \/ IsReversed(x)) /\ trade[o] \in Refunded
    BY <2>1, <2>4 DEF x, IsReviewed, IsReversed, Sold, OrderRows
  <2> QED
    BY <2>1, <2>2, <2>3, <2>4 DEF RowAgrees
<1> QED
  BY <1>1, PartsAlways, PTL
=============================================================================
