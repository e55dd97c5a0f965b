------------------------------ MODULE Payments ------------------------------
(***************************************************************************)
(* Orders, provider results, refunds and payouts: app/commerce,            *)
(* app/membership and app/finance of the platform, with Alipay as the      *)
(* provider.                                                               *)
(*                                                                         *)
(* One buyer, one listing and one creator: the case in which orders meet.  *)
(* An order is for the listing's asset or for a lifetime membership.  Its  *)
(* row, its only payment attempt, its only item, entitlement and reversal  *)
(* are locked together (FOR UPDATE of attempt and order), so a transaction *)
(* is one action; what happens between two transactions of a handler is    *)
(* not.  Notifications may be delivered late, out of order, again or      *)
(* never.                                                                  *)
(***************************************************************************)
EXTENDS Integers, FiniteSets

CONSTANTS
  NOrders,     \* bound: orders made, in the order of their checkouts
  Handlers,    \* executions of reconcile_event or of a webhook request
  Price,       \* of the asset, in cents
  FeeBps,      \* platform_fee_bps
  MaxPayouts,  \* bound: payout requests made
  MaxFails     \* bound: handlers that are interrupted and run again

ASSUME PaymentsAssumption ==
  /\ NOrders \in Nat
  /\ Price \in Nat \ {0}
  /\ FeeBps \in 0 .. 10000
  /\ MaxPayouts \in Nat
  /\ MaxFails \in Nat

VARIABLES
  order,        \* [Orders -> record], see PaymentsTypeOK
  trade,        \* the provider's state of the order's trade
  seen,         \* payment_notifications: fingerprints recorded
  overdue,      \* orders past expires_at whose trade still waits
  fails,        \* handlers interrupted so far
  member,       \* the buyer's membership is active
  balance,      \* creator_balances: available and reserved
  payout,       \* payout requests: the pending one, the sum paid, how many
  job           \* what each handler is doing

vars == <<order, trade, seen, overdue, fails, member, balance, payout, job>>

Orders   == 1 .. NOrders
Paid     == {"TRADE_SUCCESS"}                  \* and TRADE_FINISHED, treated alike
Refunded == {"refunded_part", "refunded_full"}
Closed   == {"closed_unpaid"} \cup Refunded    \* TRADE_CLOSED, with its refund_amount

Absent == [kind |-> "asset", status |-> "absent", attempt |-> "none",
           entitlement |-> "none", reversal |-> "none", entries |-> {}]
Idle   == [at |-> "idle"]
Jobs   == {Idle}
          \cup [at : {"query", "close", "closed"}, order : Orders]
          \cup [at : {"answer", "reverse"}, order : Orders,
                answer : {"WAIT_BUYER_PAY"} \cup Paid \cup Closed]
          \cup [at : {"review"}, order : Orders, notice : SUBSET Closed]
NoPayout == [pending |-> 0, paid |-> 0, made |-> 0]

PaymentsTypeOK ==
  /\ order \in [Orders ->
       [kind : {"asset", "membership"},
        status : {"absent", "checked", "closing", "opening", "pending_payment",
                  "fulfilled", "closed", "payment_exception"},
        attempt : {"none", "created", "succeeded", "closed", "failed"},
        entitlement : {"none", "active", "revoked"},
        reversal : {"none", "detected", "applied", "manual_review"},
        entries : SUBSET {"sale", "reversal"}]]
  /\ trade \in [Orders -> {"none", "WAIT_BUYER_PAY"} \cup Paid \cup Closed]
  /\ seen \in [Orders -> SUBSET (Paid \cup Closed)]
  /\ overdue \subseteq Orders
  /\ fails \in 0 .. MaxFails
  /\ member \in BOOLEAN
  /\ balance \in [available : Nat, reserved : Nat]
  /\ payout \in [pending : Nat, paid : Nat, made : 0 .. MaxPayouts]
  /\ job \in [Handlers -> Jobs]

Init ==
  /\ order = [o \in Orders |-> Absent]
  /\ trade = [o \in Orders |-> "none"]
  /\ seen = [o \in Orders |-> {}]
  /\ overdue = {}
  /\ fails = 0
  /\ member = FALSE
  /\ balance = [available |-> 0, reserved |-> 0]
  /\ payout = NoPayout
  /\ job = [h \in Handlers |-> Idle]

-----------------------------------------------------------------------------
(* The split of a price, rounded half up to a cent. *)
PlatformFee == (Price * FeeBps + 5000) \div 10000
CreatorAmount == Price - PlatformFee

(* An order of the buyer for the listing that close_pending_orders_for_    *)
(* listing finds, and one it has locked and half updated.                  *)
Repeated(x) == x.kind = "asset" /\ x.status = "pending_payment"
HalfClosed(x) == Repeated(x) /\ x.attempt = "closed"

Fresh(o) == order[o] = Absent /\ \A p \in 1 .. o - 1 : order[p] # Absent

(* checkout, in the steps between which others commit: what it reads, the  *)
(* two UPDATEs of close_pending_orders_for_listing, each of the rows that  *)
(* are committed when it runs, and the insert of its own order, which      *)
(* another checkout does not see before the commit.  Rows it updated stay  *)
(* locked until then.  The provider is not told.  A checkout that is       *)
(* rolled back has shown nobody anything: it is one that is not made.      *)
StartCheckout(o) ==
  /\ Fresh(o)
  /\ \A p \in Orders : order[p].entitlement # "active"
  /\ order' = [order EXCEPT ![o].status = "checked"]
  /\ UNCHANGED <<trade, seen, overdue, fails, member, balance, payout, job>>

CloseAttempts(o) ==
  /\ order[o].status = "checked"
  /\ \A p \in Orders : ~HalfClosed(order[p])      \* locked by another checkout
  /\ LET closed == [p \in Orders |->
                      IF Repeated(order[p]) THEN [order[p] EXCEPT !.attempt = "closed"]
                      ELSE order[p]]
     IN order' = [closed EXCEPT ![o].status = "closing"]
  /\ UNCHANGED <<trade, seen, overdue, fails, member, balance, payout, job>>

(* An order committed since the first UPDATE is closed with its attempt    *)
(* left open.                                                              *)
CloseOrders(o) ==
  /\ order[o].status = "closing"
  /\ LET closed == [p \in Orders |->
                      IF Repeated(order[p]) THEN [order[p] EXCEPT !.status = "closed"]
                      ELSE order[p]]
     IN order' = [closed EXCEPT ![o].status = "opening"]
  /\ UNCHANGED <<trade, seen, overdue, fails, member, balance, payout, job>>

(* membership_checkout: its search for a pending order joins order_items,  *)
(* which a membership order does not have, and so finds nothing.           *)
StartMembership(o) ==
  /\ Fresh(o)
  /\ ~member
  /\ order' = [order EXCEPT ![o].status = "opening", ![o].kind = "membership"]
  /\ UNCHANGED <<trade, seen, overdue, fails, member, balance, payout, job>>

(* The inserts and the commit; the form goes to the browser. *)
CreateOrder(o) ==
  /\ order[o].status = "opening"
  /\ order' = [order EXCEPT ![o].status = "pending_payment", ![o].attempt = "created"]
  /\ UNCHANGED <<trade, seen, overdue, fails, member, balance, payout, job>>

(* grant_membership, by a finance operator. *)
GrantMembership ==
  /\ ~member
  /\ member' = TRUE
  /\ UNCHANGED <<order, trade, seen, overdue, fails, balance, payout, job>>

-----------------------------------------------------------------------------
(* The provider. *)
Trade(o, from, to) ==
  /\ order[o].attempt # "none"
  /\ trade[o] \in from
  /\ trade' = [trade EXCEPT ![o] = to]

(* The notifications sent so far: each may come late, after a later one,   *)
(* again, or never.                                                        *)
Sent(o) ==
  (IF trade[o] \in Paid \cup Refunded THEN Paid ELSE {}) \cup ({trade[o]} \cap Closed)

OpenForm(o) ==
  /\ Trade(o, {"none"}, "WAIT_BUYER_PAY")
  /\ UNCHANGED <<order, seen, overdue, fails, member, balance, payout, job>>

(* The buyer pays, is given a refund, or lets the trade time out. *)
ProviderMoves(o) ==
  /\ \/ Trade(o, {"WAIT_BUYER_PAY"}, "TRADE_SUCCESS")
     \/ \E r \in Refunded : Trade(o, {"TRADE_SUCCESS"}, r)
     \/ Trade(o, {"WAIT_BUYER_PAY"}, "closed_unpaid")
  /\ overdue' = overdue \ {o}
  /\ UNCHANGED <<order, seen, fails, member, balance, payout, job>>

(* expires_at passes. *)
Expire(o) ==
  /\ order[o].attempt # "none" /\ trade[o] \in {"none", "WAIT_BUYER_PAY"}
  /\ o \notin overdue
  /\ overdue' = overdue \cup {o}
  /\ UNCHANGED <<order, trade, seen, fails, member, balance, payout, job>>

-----------------------------------------------------------------------------
(* Transitions of a locked order.  A half closed one is only locked once   *)
(* its checkout has committed; those that do nothing to it either way are  *)
(* not made to wait.                                                       *)
Unpaid(x) == x.attempt = "created" /\ x.status = "pending_payment"

(* _settle_locked: mark_settled, grant_entitlements, record_sale, and the  *)
(* activation of a membership.                                             *)
Settled(x) ==
  IF ~Unpaid(x) THEN x
  ELSE [x EXCEPT !.status = "fulfilled", !.attempt = "succeeded",
                 !.entitlement = IF x.kind = "asset" /\ @ = "none" THEN "active" ELSE @,
                 !.entries = IF x.kind = "asset" THEN @ \cup {"sale"} ELSE @]

Settle(o) ==
  LET x == Settled(order[o]) IN
  /\ order' = [order EXCEPT ![o] = x]
  /\ balance' = IF x.entries # order[o].entries
                THEN [balance EXCEPT !.available = @ + CreatorAmount] ELSE balance
  /\ member' = (member \/ (x # order[o] /\ x.kind = "membership"))

CloseUnpaid(x) ==
  IF Unpaid(x) THEN [x EXCEPT !.status = "closed", !.attempt = "closed"] ELSE x

(* create_or_get_reversal: one row per attempt. *)
Detected(x) == [x EXCEPT !.reversal = IF @ = "none" THEN "detected" ELSE @]

(* Mutant of ManualReview: the update of the reversal has no condition. *)
ReviewAnyway(x, revoke) ==
  [x EXCEPT !.reversal = "manual_review",
            !.entitlement = IF revoke /\ @ = "active" THEN "revoked" ELSE @,
            !.status = "payment_exception"]

(* mark_reversal_manual_review. *)
ManualReview(x, revoke) ==
  [x EXCEPT !.reversal = IF @ = "detected" THEN "manual_review" ELSE @,
            !.entitlement = IF revoke /\ @ = "active" THEN "revoked" ELSE @,
            !.status = "payment_exception"]

(* Mutant of CanReverse: apply_available_delta without require_nonnegative. *)
CanReverseAlways(x) == TRUE

(* reverse_sale is refused when the creator's share is reserved or paid. *)
CanReverse(x) ==
  x.kind = "membership" \/ "reversal" \in x.entries \/ balance.available >= CreatorAmount

ApplyReversal(x) ==
  [x EXCEPT !.reversal = "applied", !.attempt = "failed", !.status = "payment_exception",
            !.entitlement = IF @ = "active" THEN "revoked" ELSE @,
            !.entries = IF x.kind = "asset" THEN @ \cup {"reversal"} ELSE @]

Debited(o) ==
  IF order'[o].entries # order[o].entries
  THEN [balance EXCEPT !.available = @ - CreatorAmount] ELSE balance

-----------------------------------------------------------------------------
(* The Alipay webhook.  A fingerprint that is known already is a no-op. *)
NotifyPaid(o, n) ==
  /\ n \in Sent(o) \cap Paid
  /\ n \notin seen[o]
  /\ Settle(o)
  /\ seen' = [seen EXCEPT ![o] = @ \cup {n}]
  /\ UNCHANGED <<trade, overdue, fails, payout, job>>

Full(n) == n # "refunded_part"     \* refund_amount or total_amount

(* A refund of this order is still to be dealt with. *)
Owed(x) == x.status = "fulfilled" /\ x.reversal \in {"none", "detected"}

(* The transaction of _process_closed_notification that commits. *)
NotifyClosed(o, n) ==
  LET x == order[o] IN
  /\ n \in Sent(o) \cap Closed
  /\ n \notin seen[o]
  /\ seen' = [seen EXCEPT ![o] = @ \cup {n}]
  /\ \/ ~Owed(x) /\ order' = [order EXCEPT ![o] = CloseUnpaid(x)]
     \/ Owed(x) /\ ~Full(n) /\ order' = [order EXCEPT ![o] = ManualReview(Detected(x), FALSE)]
     \/ Owed(x) /\ Full(n) /\ CanReverse(x) /\ order' = [order EXCEPT ![o] = ApplyReversal(Detected(x))]
  /\ balance' = Debited(o)
  /\ UNCHANGED <<trade, overdue, fails, member, payout, job>>

(* InsufficientCreatorBalanceError rolls the transaction back, fingerprint *)
(* included; a second transaction files the review.                        *)
NotifyRefused(h, o, n) ==
  /\ job[h] = Idle
  /\ n \in Sent(o) \cap Closed
  /\ n \notin seen[o]
  /\ Owed(order[o]) /\ Full(n) /\ ~CanReverse(order[o])
  /\ job' = [job EXCEPT ![h] = [at |-> "review", order |-> o, notice |-> {n}]]
  /\ UNCHANGED <<order, trade, seen, overdue, fails, member, balance, payout>>

(* The second transaction, of the webhook or of a reconciliation: it does  *)
(* not look at the order's status again.                                   *)
FileReview(h) ==
  LET o == job[h].order IN
  /\ job[h].at = "review"
  /\ order' = [order EXCEPT ![o] = IF job[h].notice \cap seen[o] # {} THEN @
                                   ELSE ManualReview(Detected(@), FALSE)]
  /\ seen' = [seen EXCEPT ![o] = @ \cup job[h].notice]
  /\ job' = [job EXCEPT ![h] = Idle]
  /\ UNCHANGED <<trade, overdue, fails, member, balance, payout>>

-----------------------------------------------------------------------------
(* payment.reconcile.v1: appended by checkout, and by schedule_due_work    *)
(* while the order is unpaid.                                              *)
Reconcilable(x) ==
  /\ x.attempt \in {"created", "succeeded"}
  /\ x.status \in {"pending_payment", "fulfilled"}

StartReconcile(h, o) ==
  /\ job[h] = Idle
  /\ Reconcilable(order[o])
  /\ job' = [job EXCEPT ![h] = [at |-> "query", order |-> o]]
  /\ UNCHANGED <<order, trade, seen, overdue, fails, member, balance, payout>>

(* schedule_due_work: an unpaid order gets an event until it is decided. *)
Sweep(o) == Unpaid(order[o]) /\ \E h \in Handlers : StartReconcile(h, o)

(* query_trade; a trade that does not exist yet is an error of the         *)
(* provider, and so is any other trouble.                                  *)
QueryTrade(h) ==
  LET o == job[h].order IN
  /\ job[h].at = "query"
  /\ trade[o] # "none"
  /\ job' = [job EXCEPT ![h] = [at |-> "answer", order |-> o, answer |-> trade[o]]]
  /\ UNCHANGED <<order, trade, seen, overdue, fails, member, balance, payout>>

(* A delivery that fails is tried again by the outbox, a webhook by the    *)
(* provider; so is one whose process dies at any point.                    *)
Interrupted(h) ==
  /\ job[h] # Idle
  /\ fails < MaxFails
  /\ fails' = fails + 1
  /\ job' = [job EXCEPT ![h] = Idle]
  /\ UNCHANGED <<order, trade, seen, overdue, member, balance, payout>>

(* Mutant of DeadLetter: it is only logged. *)
DeadLetterLogged(h) ==
  /\ job[h].at \in {"query", "close"}
  /\ job' = [job EXCEPT ![h] = Idle]
  /\ UNCHANGED <<order, trade, seen, overdue, fails, member, balance, payout>>

(* The failure that spends the event's budget: on_reconcile_dead_letter    *)
(* and mark_payment_exception.                                             *)
DeadLetter(h) ==
  LET o == job[h].order IN
  /\ job[h].at \in {"query", "close"}
  /\ ~HalfClosed(order[o])
  /\ order' = [order EXCEPT ![o].status =
                  IF @ = "pending_payment" THEN "payment_exception" ELSE @]
  /\ job' = [job EXCEPT ![h] = Idle]
  /\ UNCHANGED <<trade, seen, overdue, fails, member, balance, payout>>

ReconcilePaid(h) ==
  /\ job[h].at = "answer" /\ job[h].answer \in Paid
  /\ Settle(job[h].order)
  /\ job' = [job EXCEPT ![h] = Idle]
  /\ UNCHANGED <<trade, seen, overdue, fails, payout>>

(* TRADE_CLOSED: an unpaid order is closed in this transaction, a paid one *)
(* is left to _reverse_paid.                                               *)
ReconcileClosed(h) ==
  LET o == job[h].order IN
  /\ job[h].at = "answer" /\ job[h].answer \in Closed
  /\ \/ /\ order[o].status = "pending_payment"
        /\ order' = [order EXCEPT ![o] = CloseUnpaid(@)]
        /\ job' = [job EXCEPT ![h] = Idle]
     \/ /\ order[o].status # "pending_payment"
        /\ order' = order
        /\ job' = [job EXCEPT ![h].at = "reverse"]
  /\ UNCHANGED <<trade, seen, overdue, fails, member, balance, payout>>

(* _reverse_paid: the transaction that commits, and the one rolled back. *)
ReversePaid(h) ==
  LET o == job[h].order
      x == order[o]
      n == job[h].answer IN
  /\ job[h].at = "reverse"
  /\ \/ ~Owed(x) /\ order' = order
     \/ Owed(x) /\ ~Full(n) /\ order' = [order EXCEPT ![o] = ManualReview(Detected(x), TRUE)]
     \/ Owed(x) /\ Full(n) /\ CanReverse(x) /\ order' = [order EXCEPT ![o] = ApplyReversal(Detected(x))]
  /\ balance' = Debited(o)
  /\ job' = [job EXCEPT ![h] = Idle]
  /\ UNCHANGED <<trade, seen, overdue, fails, member, payout>>

ReverseRefused(h) ==
  LET x == order[job[h].order] IN
  /\ job[h].at = "reverse"
  /\ Owed(x) /\ Full(job[h].answer) /\ ~CanReverse(x)
  /\ job' = [job EXCEPT ![h] = [at |-> "review", order |-> job[h].order, notice |-> {}]]
  /\ UNCHANGED <<order, trade, seen, overdue, fails, member, balance, payout>>

(* WAIT_BUYER_PAY: asked again later, or, past expires_at, the provider is *)
(* asked to close the trade.                                               *)
ReconcileWaiting(h) ==
  LET o == job[h].order IN
  /\ job[h].at = "answer" /\ job[h].answer = "WAIT_BUYER_PAY"
  /\ job' = [job EXCEPT ![h] =
               IF o \in overdue THEN [at |-> "close", order |-> o] ELSE Idle]
  /\ UNCHANGED <<order, trade, seen, overdue, fails, member, balance, payout>>

(* close_trade: the provider closes a trade that still waits.  An answer   *)
(* that does not say TRADE_CLOSED, or none, is asked again later.          *)
CloseTrade(h) ==
  LET o == job[h].order IN
  /\ job[h].at = "close"
  /\ \/ /\ trade[o] = "WAIT_BUYER_PAY"
        /\ trade' = [trade EXCEPT ![o] = "closed_unpaid"]
        /\ \E told \in {"closed", "idle"} :
             job' = [job EXCEPT ![h] =
                       IF told = "closed" THEN [at |-> "closed", order |-> o] ELSE Idle]
     \/ /\ trade[o] # "WAIT_BUYER_PAY"
        /\ trade' = trade
        /\ job' = [job EXCEPT ![h] = Idle]
  /\ overdue' = overdue \ {o}
  /\ UNCHANGED <<order, seen, fails, member, balance, payout>>

CloseExpired(h) ==
  /\ job[h].at = "closed"
  /\ order' = [order EXCEPT ![job[h].order] = CloseUnpaid(@)]
  /\ job' = [job EXCEPT ![h] = Idle]
  /\ UNCHANGED <<trade, seen, overdue, fails, member, balance, payout>>

-----------------------------------------------------------------------------
(* Manual payouts: one pending request per creator. *)
RequestPayout(amount) ==
  /\ payout.pending = 0 /\ payout.made < MaxPayouts
  /\ balance.available >= amount
  /\ balance' = [available |-> balance.available - amount, reserved |-> balance.reserved + amount]
  /\ payout' = [payout EXCEPT !.pending = amount, !.made = @ + 1]
  /\ UNCHANGED <<order, trade, seen, overdue, fails, member, job>>

(* cancel_request and reject give the reservation back. *)
ReleasePayout ==
  /\ payout.pending > 0 /\ balance.reserved >= payout.pending
  /\ balance' = [available |-> balance.available + payout.pending,
                 reserved |-> balance.reserved - payout.pending]
  /\ payout' = [payout EXCEPT !.pending = 0]
  /\ UNCHANGED <<order, trade, seen, overdue, fails, member, job>>

MarkPaid ==
  /\ payout.pending > 0 /\ balance.reserved >= payout.pending
  /\ balance' = [balance EXCEPT !.reserved = @ - payout.pending]
  /\ payout' = [payout EXCEPT !.pending = 0, !.paid = @ + payout.pending]
  /\ UNCHANGED <<order, trade, seen, overdue, fails, member, job>>

-----------------------------------------------------------------------------
HandlerStep(h) ==
  \/ QueryTrade(h) \/ DeadLetter(h) \/ ReconcilePaid(h) \/ ReconcileClosed(h)
  \/ ReversePaid(h) \/ ReverseRefused(h) \/ FileReview(h) \/ ReconcileWaiting(h)
  \/ CloseTrade(h) \/ CloseExpired(h)

Next ==
  \/ \E o \in Orders :
       \/ StartCheckout(o) \/ CloseAttempts(o) \/ CloseOrders(o)
       \/ StartMembership(o) \/ CreateOrder(o)
       \/ OpenForm(o) \/ ProviderMoves(o) \/ Expire(o)
       \/ \E n \in Paid : NotifyPaid(o, n)
       \/ \E n \in Closed : NotifyClosed(o, n)
       \/ \E h \in Handlers :
            \/ StartReconcile(h, o)
            \/ \E n \in Closed : NotifyRefused(h, o, n)
  \/ \E h \in Handlers : HandlerStep(h) \/ Interrupted(h)
  \/ GrantMembership
  \/ \E amount \in 1 .. CreatorAmount * Cardinality(Orders) : RequestPayout(amount)
  \/ ReleasePayout \/ MarkPaid

(* A handler runs on, time passes, and an unpaid order is reconciled again *)
(* and again: the sweep appends its event and the outbox serves it.        *)
Fairness ==
  /\ \A h \in Handlers : WF_vars(HandlerStep(h))
  /\ \A o \in Orders :
       /\ WF_vars(CloseAttempts(o)) /\ WF_vars(CloseOrders(o)) /\ WF_vars(CreateOrder(o))
       /\ WF_vars(Expire(o))
       /\ SF_vars(Sweep(o))

PaymentsSpec == Init /\ [][Next]_vars /\ Fairness

-----------------------------------------------------------------------------
Sales == {o \in Orders : "sale" \in order[o].entries /\ "reversal" \notin order[o].entries}

(* The creator's projection is what the orders say: the shares of the sold *)
(* and not reversed orders are available, reserved for the pending payout  *)
(* or paid out, each cent once, whatever settles, refunds and payouts      *)
(* interleave.                                                             *)
BalanceMatchesSales ==
  /\ balance.available >= 0
  /\ balance.reserved = payout.pending
  /\ balance.available + balance.reserved + payout.paid = CreatorAmount * Cardinality(Sales)

(* Access, order and journal tell one story, and it is the provider's: a   *)
(* fulfilled order was paid, has its sale and its active entitlement; an   *)
(* entitlement is revoked only when the provider has refunded the order,   *)
(* and a journal that was reversed leaves no access.                       *)
AccessFollowsPayment ==
  \A o \in Orders :
    LET x == order[o] IN
    /\ x.status = "fulfilled" =>
         /\ trade[o] \in Paid \cup Refunded
         /\ x.kind = "asset" => x.entitlement = "active" /\ x.entries = {"sale"}
    /\ x.entitlement = "active" => x.status = "fulfilled" \/ x.reversal = "manual_review"
    /\ x.entitlement = "revoked" => trade[o] \in Refunded
    /\ "reversal" \in x.entries => x.entitlement = "revoked" /\ x.reversal = "applied"

(* Every order gets an outcome, though notifications may be lost and the   *)
(* provider may fail: it is settled, closed or put under exception.        *)
EveryOrderIsDecided ==
  \A o \in Orders :
    order[o].status = "pending_payment" ~> order[o].status # "pending_payment"
=============================================================================
