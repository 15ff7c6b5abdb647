---------------------------- MODULE GatewayBilling ----------------------------
(***************************************************************************)
(* Billing of inference in the gateway (pkg/gateway/api/server.go) and its  *)
(* Stripe top-ups (pkg/paygate/stripe/paygate.go).                          *)
(*                                                                          *)
(* gin runs every HTTP request in a goroutine of its own.  The goroutines   *)
(* share the balance store and the receipt store and nothing orders them:   *)
(* one reads the balance that admits it, waits up to a minute for the Rust  *)
(* core, and only then charges.  A request is one life of one goroutine; pc *)
(* says which store access or call it does next.  The four kinds are the    *)
(* four inference routes.                                                   *)
(*                                                                          *)
(* Stripe is external: it may deliver an event again when the gateway's     *)
(* answer was an error or was lost on the way back.                         *)
(***************************************************************************)
EXTENDS BalanceStore

CONSTANTS Requests,     \* inference requests
          Payments,     \* Stripe Checkout sessions
          NoKey,        \* the empty API key of an anonymous caller
          Costs,        \* what an answer may cost, in cents; 0 after rounding too
          Amounts,      \* amounts a caller tops up or checks out
          Signing,      \* the receipt signer was loaded
          MaxTopUps,    \* bound on calls of POST /v1/balance/topup
          MaxTries      \* bound on the deliveries of one session's events

Keys == Accounts \ {NoKey}
Kinds == {"chat", "completions", "stream", "ws"}
EventTypes == {"checkout.session.completed", "payment_intent.succeeded", "other"}

ASSUME BillingAssumption ==
    /\ NoKey \in Accounts
    /\ Costs \subseteq 0 .. MaxInt64
    /\ Amounts \subseteq Cents
    /\ Signing \in BOOLEAN
    /\ MaxTopUps \in Nat
    /\ MaxTries \in Nat

VARIABLES
    balance,      \* balanceStore: cents of each account
    receipts,     \* receiptStore: one record for each receipt saved
    pc, kind, key, cost,            \* the handlers: step, route, caller, costCents
    payment, tries, acked,          \* Stripe: sessions, deliveries, events answered 200
    topUps,                         \* calls of topUp so far
    credited, charged, fromStripe,  \* history: cents added and taken, by account; by session
    seen, chargedThen, paid         \* history: balance and charges at admission; cents taken

storeVars   == <<balance, receipts>>
handlerVars == <<pc, kind, key, cost>>
stripeVars  == <<payment, tries, acked, fromStripe>>
creditVars  == <<credited, topUps>>
chargeVars  == <<charged, paid>>
admitVars   == <<seen, chargedThen>>
vars == <<storeVars, handlerVars, stripeVars, creditVars, chargeVars, admitVars>>

Steps == {"idle", "check", "call", "receipt", "deduct", "done", "rejected", "failed"}
Finished == {"done", "rejected", "failed"}
Receipt == [req : Requests, key : Accounts, cost : 0 .. MaxInt64]
Session == [status : {"none", "open", "paid", "unpaid", "settled"},
            key : Accounts, amount : 0 .. MaxInt64]

Init ==
    /\ balance = [k \in Accounts |-> 0]
    /\ receipts = {}
    /\ pc = [r \in Requests |-> "idle"]
    /\ kind = [r \in Requests |-> "chat"]
    /\ key = [r \in Requests |-> NoKey]
    /\ cost = [r \in Requests |-> 0]
    /\ payment = [p \in Payments |-> [status |-> "none", key |-> NoKey, amount |-> 0]]
    /\ tries = [p \in Payments |-> 0]
    /\ acked = [p \in Payments |-> {}]
    /\ topUps = 0
    /\ credited = [k \in Accounts |-> 0]
    /\ charged = [k \in Accounts |-> 0]
    /\ fromStripe = [p \in Payments |-> 0]
    /\ seen = [r \in Requests |-> 0]
    /\ chargedThen = [r \in Requests |-> 0]
    /\ paid = [r \in Requests |-> 0]

-----------------------------------------------------------------------------
(* The inference handlers. *)

Goto(r, step) == pc' = [pc EXCEPT ![r] = step]

(* A request arrives.  The WebSocket route looks at no balance. *)
Arrive(r, k, kd) ==
    /\ pc[r] = "idle"
    /\ Goto(r, IF kd = "ws" THEN "call" ELSE "check")
    /\ key' = [key EXCEPT ![r] = k]
    /\ kind' = [kind EXCEPT ![r] = kd]
    /\ UNCHANGED <<cost, storeVars, stripeVars, creditVars, chargeVars, admitVars>>

(* An anonymous caller passes whatever the store holds for the empty key. *)
Admits(k) == balance[k] > 0 \/ k = NoKey

CheckBalance(r) ==
    /\ pc[r] = "check"
    /\ Goto(r, IF Admits(key[r]) THEN "call" ELSE "rejected")
    /\ seen' = [seen EXCEPT ![r] = balance[key[r]]]
    /\ chargedThen' = [chargedThen EXCEPT ![r] = charged[key[r]]]
    /\ UNCHANGED <<kind, key, cost, storeVars, stripeVars, creditVars, chargeVars>>

(* The core answered.  A unary handler writes the receipt first and charges *)
(* next, the SSE handler the other way round, the WebSocket handler neither. *)
AfterAnswer(kd) ==
    IF kd \in {"chat", "completions"} THEN "receipt" ELSE IF kd = "stream" THEN "deduct" ELSE "done"

CoreAnswers(r) ==
    /\ pc[r] = "call"
    /\ \E c \in Costs : cost' = [cost EXCEPT ![r] = c]
    /\ Goto(r, AfterAnswer(kind[r]))
    /\ UNCHANGED <<kind, key, storeVars, stripeVars, creditVars, chargeVars, admitVars>>

(* The proxy has no provider for the model and returns no answer and no     *)
(* error: chat replies with an empty answer and a receipt of 0 cents,       *)
(* completions panics on the missing choice, and the WebSocket ends.        *)
NoProviders(r) ==
    /\ pc[r] = "call"
    /\ \/ kind[r] = "chat" /\ Goto(r, "receipt")
       \/ kind[r] = "completions" /\ Goto(r, "failed")
       \/ kind[r] = "ws" /\ Goto(r, "done")
    /\ UNCHANGED <<kind, key, cost, storeVars, stripeVars, creditVars, chargeVars, admitVars>>

(* A stream closes before any usage came: it ends with [DONE] and no bill.  *)
StreamClosesBare(r) ==
    /\ pc[r] = "call"
    /\ kind[r] = "stream"
    /\ Goto(r, "done")
    /\ UNCHANGED <<kind, key, cost, storeVars, stripeVars, creditVars, chargeVars, admitVars>>

(* An error of the core, or the deadline of the request's context. *)
CallFails(r) ==
    /\ pc[r] = "call"
    /\ Goto(r, "failed")
    /\ UNCHANGED <<kind, key, cost, storeVars, stripeVars, creditVars, chargeVars, admitVars>>

(* Mutant: the stream's test of the key is turned round. *)
WritesForAnonymousStreams(r) == Signing /\ (kind[r] = "stream" => key[r] = NoKey)

(* The SSE handler writes no receipt for an anonymous caller, the unary     *)
(* handlers do.                                                             *)
Writes(r) == Signing /\ (kind[r] = "stream" => key[r] # NoKey)

(* Mutant: every handler charges once the receipt is saved. *)
AfterReceiptAlwaysDeduct(kd) == "deduct"

AfterReceipt(kd) == IF kd = "stream" THEN "done" ELSE "deduct"

SaveReceipt(r) ==
    /\ pc[r] = "receipt"
    /\ receipts' = IF Writes(r)
                   THEN receipts \cup {[req |-> r, key |-> key[r], cost |-> cost[r]]}
                   ELSE receipts
    /\ Goto(r, AfterReceipt(kind[r]))
    /\ UNCHANGED <<kind, key, cost, balance, stripeVars, creditVars, chargeVars, admitVars>>

(* costCents > 0 guards the call; the store drops what the key cannot cover. *)
Taken(r) == IF cost[r] > 0 /\ Covers(balance, key[r], cost[r]) THEN cost[r] ELSE 0

DeductCost(r) ==
    /\ pc[r] = "deduct"
    /\ balance' = IF cost[r] > 0 THEN Deduct(balance, key[r], cost[r]) ELSE balance
    /\ paid' = [paid EXCEPT ![r] = Taken(r)]
    /\ charged' = [charged EXCEPT ![key[r]] = @ + Taken(r)]
    /\ Goto(r, IF kind[r] = "stream" THEN "receipt" ELSE "done")
    /\ UNCHANGED <<kind, key, cost, receipts, stripeVars, creditVars, admitVars>>

-----------------------------------------------------------------------------
(* Credits: POST /v1/balance/topup and the Stripe webhook. *)

CreditKey(k, a) ==
    /\ balance' = Add(balance, k, a)
    /\ credited' = [credited EXCEPT ![k] = @ + a]

TopUp(k, a) ==
    /\ topUps < MaxTopUps
    /\ topUps' = topUps + 1
    /\ CreditKey(k, a)
    /\ UNCHANGED <<receipts, handlerVars, stripeVars, chargeVars, admitVars>>

(* CreateCheckoutSession puts the key and the amount in the metadata of the *)
(* session, and in that of no other Stripe object.                          *)
Checkout(p, k, a) ==
    /\ payment[p].status = "none"
    /\ payment' = [payment EXCEPT ![p] = [status |-> "open", key |-> k, amount |-> a]]
    /\ UNCHANGED <<tries, acked, fromStripe, storeVars, handlerVars, creditVars, chargeVars,
                   admitVars>>

(* The customer completes the session: paid at once, or with a method that  *)
(* settles later.                                                           *)
CustomerPays(p) ==
    /\ \E step \in {<<"open", "paid">>, <<"open", "unpaid">>, <<"unpaid", "settled">>} :
          /\ payment[p].status = step[1]
          /\ payment' = [payment EXCEPT ![p].status = step[2]]
    /\ UNCHANGED <<tries, acked, fromStripe, storeVars, handlerVars, creditVars, chargeVars,
                   admitVars>>

Emitted(p) ==
    CASE payment[p].status = "paid" -> {"checkout.session.completed", "payment_intent.succeeded"}
      [] payment[p].status = "unpaid" -> {"checkout.session.completed"}
      [] payment[p].status = "settled" -> EventTypes
      [] OTHER -> {}

(* Mutant: payment_status is not looked at. *)
CreditsUnpaid(p, type) == type = "checkout.session.completed"

(* handleEvent credits for a completed session whose event says "paid".     *)
Credits(p, type) == type = "checkout.session.completed" /\ payment[p].status = "paid"

(* The metadata of the payment intent is empty: ErrMissingAPIKey, a 400. *)
Answer(type) == IF type = "payment_intent.succeeded" THEN 400 ELSE 200

Webhook(p, type) ==
    /\ type \in Emitted(p) \ acked[p]
    /\ tries[p] < MaxTries
    /\ tries' = [tries EXCEPT ![p] = @ + 1]
    /\ \/ /\ Answer(type) = 200
          /\ acked' = [acked EXCEPT ![p] = @ \cup {type}]
       \/ UNCHANGED acked               \* an error, or the answer is lost
    /\ IF Credits(p, type)
       THEN /\ CreditKey(payment[p].key, payment[p].amount)
            /\ fromStripe' = [fromStripe EXCEPT ![p] = @ + payment[p].amount]
       ELSE UNCHANGED <<balance, credited, fromStripe>>
    /\ UNCHANGED <<receipts, handlerVars, payment, topUps, chargeVars, admitVars>>

-----------------------------------------------------------------------------
Handler(r) ==
    \/ CheckBalance(r)
    \/ CoreAnswers(r)
    \/ NoProviders(r)
    \/ StreamClosesBare(r)
    \/ CallFails(r)
    \/ SaveReceipt(r)
    \/ DeductCost(r)

Next ==
    \/ \E r \in Requests, k \in Accounts, kd \in Kinds : Arrive(r, k, kd)
    \/ \E r \in Requests : Handler(r)
    \/ \E k \in Keys, a \in Amounts : TopUp(k, a)
    \/ \E p \in Payments, k \in Keys, a \in Amounts : Checkout(p, k, a)
    \/ \E p \in Payments : CustomerPays(p)
    \/ \E p \in Payments, type \in EventTypes : Webhook(p, type)

Spec == Init /\ [][Next]_vars

(* No fairness: the SSE handler writes its chunks to a client that may stop *)
(* reading, and nothing bounds that.                                        *)

-----------------------------------------------------------------------------
(* Every variable keeps its type; a balance is an int64.                    *)
TypeOK ==
    /\ balance \in Balances
    /\ receipts \subseteq Receipt
    /\ pc \in [Requests -> Steps]
    /\ kind \in [Requests -> Kinds]
    /\ key \in [Requests -> Accounts]
    /\ cost \in [Requests -> 0 .. MaxInt64]
    /\ payment \in [Payments -> Session]
    /\ tries \in [Payments -> 0 .. MaxTries]
    /\ acked \in [Payments -> SUBSET EventTypes]
    /\ topUps \in 0 .. MaxTopUps
    /\ credited \in [Accounts -> Nat]
    /\ charged \in [Accounts -> Nat]
    /\ fromStripe \in [Payments -> Nat]
    /\ seen \in [Requests -> Int64]
    /\ chargedThen \in [Requests -> Nat]
    /\ paid \in [Requests -> 0 .. MaxInt64]

(* As long as an account was credited no more than an int64 holds, its      *)
(* balance is what was credited less what was charged, and never negative,  *)
(* however the requests of the key interleave with each other and with      *)
(* credits (server.go, Add and Deduct).                                     *)
Solvent ==
    \A k \in Accounts :
        credited[k] <= MaxInt64 =>
            /\ balance[k] = credited[k] - charged[k]
            /\ balance[k] >= 0

(* A keyed request that was answered and not charged could not be covered:  *)
(* the balance that admitted it, less what other requests of the key were   *)
(* charged since, was below its cost.  No other order of admission, credit  *)
(* and charge lets an answer go unpaid (server.go, chatCompletions,         *)
(* completions and streamChatCompletions).                                  *)
Unpaid(r) ==
    /\ kind[r] # "ws"
    /\ cost[r] > paid[r]
    /\ pc[r] = "done" \/ (pc[r] = "receipt" /\ kind[r] = "stream")

UnpaidOnlyWhenShort ==
    \A r \in Requests :
        (Unpaid(r) /\ credited[key[r]] <= MaxInt64) =>
            seen[r] - (charged[key[r]] - chargedThen[r]) < cost[r]

(* A request is receipted once at most, and as soon as it is not between    *)
(* its charge and its receipt, what it was charged stands in a receipt of   *)
(* its own key for exactly those cents: the receipt store never misses a    *)
(* charge, whichever of the two orders the handler writes them in           *)
(* (chatCompletions, completions, streamChatCompletions).                   *)
BetweenChargeAndReceipt(r) == kind[r] = "stream" /\ pc[r] = "receipt"

ReceiptsCoverCharges ==
    /\ \A t, u \in receipts : t.req = u.req => t = u
    /\ \A r \in Requests :
          Signing /\ paid[r] > 0 /\ ~ BetweenChargeAndReceipt(r) =>
              [req |-> r, key |-> key[r], cost |-> paid[r]] \in receipts

(* A session credits nothing before its customer paid (handleCheckout-      *)
(* Completed looks at payment_status), whatever order events arrive in.     *)
StripeCreditsArePaid ==
    \A p \in Payments : fromStripe[p] > 0 => payment[p].status \in {"paid", "settled"}

(* "All rail operations are idempotent": a session credits its amount once. *)
StripeCreditsOnce == \A p \in Payments : fromStripe[p] <= payment[p].amount

-----------------------------------------------------------------------------
(* The handlers implement the prepaid ledger.  A request is open from its   *)
(* arrival until it is charged or can be charged no more.                   *)
Standing(r) ==
    IF pc[r] = "idle" THEN "none"
    ELSE IF paid[r] > 0 THEN "charged"
    ELSE IF pc[r] \in Finished \/ BetweenChargeAndReceipt(r) THEN "waived"
    ELSE "open"

Ledger == INSTANCE PrepaidLedger
            WITH owner <- key, standing <- [r \in Requests |-> Standing(r)]

(* Every step of the gateway is a step of the ledger or leaves it alone.    *)
ImplementsLedger == Ledger!LedgerSpec
=============================================================================
