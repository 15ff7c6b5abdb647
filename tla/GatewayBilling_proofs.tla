------------------------ MODULE GatewayBilling_proofs ------------------------
(***************************************************************************)
(* Proofs about GatewayBilling for any number of keys, requests and         *)
(* sessions, any amounts and any width of an int64.                         *)
(***************************************************************************)
EXTENDS GatewayBilling, TLAPS

(* What the store's operations give back, whatever their arguments.         *)
LEMMA StoreTypes ==
    ASSUME NEW b \in Balances, NEW k \in Accounts, NEW d \in 0 .. MaxInt64
    PROVE  /\ d > 0 => Add(b, k, d) \in Balances
           /\ d > 0 => Deduct(b, k, d) \in Balances
  BY MaxInt64Assumption DEF Balances, Int64, Add, Plus64, Deduct, Covers

-----------------------------------------------------------------------------
(* Sessions that exist carry a positive amount; TypeOK needs it to type the *)
(* balance after a credit.                                                  *)
SessionsCarryCents ==
    \A p \in Payments : payment[p].status # "none" => payment[p].amount \in Cents

TypeInv == TypeOK /\ SessionsCarryCents

LEMMA TypeInit == Init => TypeInv
  BY MaxInt64Assumption, BillingAssumption
  DEF Init, TypeInv, TypeOK, SessionsCarryCents, Balances, Int64, Steps, Kinds, Receipt,
      Session, EventTypes

LEMMA TakenType ==
    ASSUME TypeOK, NEW r \in Requests
    PROVE  Taken(r) \in 0 .. MaxInt64 /\ Taken(r) <= cost[r]
  BY MaxInt64Assumption DEF TypeOK, Taken

LEMMA TypeNext == TypeInv /\ [Next]_vars => TypeInv'
<1> USE MaxInt64Assumption, BillingAssumption
<1> SUFFICES ASSUME TypeInv, [Next]_vars PROVE TypeInv'
  OBVIOUS
<1> USE DEF TypeInv, SessionsCarryCents
<1>1. ASSUME NEW r \in Requests, NEW k \in Accounts, NEW kd \in Kinds, Arrive(r, k, kd)
      PROVE  TypeInv'
  BY <1>1 DEF TypeOK, Arrive, Goto, Steps, storeVars, stripeVars, creditVars, chargeVars, admitVars
<1>2. ASSUME NEW r \in Requests, CheckBalance(r) PROVE TypeInv'
  BY <1>2 DEF TypeOK, CheckBalance, Goto, Steps, Balances, storeVars, stripeVars, creditVars, chargeVars
<1>3. ASSUME NEW r \in Requests, CoreAnswers(r) PROVE TypeInv'
  BY <1>3 DEF TypeOK, CoreAnswers, AfterAnswer, Goto, Steps, storeVars, stripeVars, creditVars,
              chargeVars, admitVars
<1>4. ASSUME NEW r \in Requests, NoProviders(r) PROVE TypeInv'
  BY <1>4 DEF TypeOK, NoProviders, Goto, Steps, storeVars, stripeVars, creditVars, chargeVars, admitVars
<1>5. ASSUME NEW r \in Requests, StreamClosesBare(r) PROVE TypeInv'
  BY <1>5 DEF TypeOK, StreamClosesBare, Goto, Steps, storeVars, stripeVars, creditVars, chargeVars,
              admitVars
<1>6. ASSUME NEW r \in Requests, CallFails(r) PROVE TypeInv'
  BY <1>6 DEF TypeOK, CallFails, Goto, Steps, storeVars, stripeVars, creditVars, chargeVars, admitVars
<1>7. ASSUME NEW r \in Requests, SaveReceipt(r) PROVE TypeInv'
  BY <1>7 DEF TypeOK, SaveReceipt, AfterReceipt, Goto, Steps, Receipt, stripeVars, creditVars,
              chargeVars, admitVars
<1>8. ASSUME NEW r \in Requests, DeductCost(r) PROVE TypeInv'
  <2>1. balance' \in Balances
    BY <1>8, StoreTypes DEF TypeOK, DeductCost
  <2>2. paid' \in [Requests -> 0 .. MaxInt64] /\ charged' \in [Accounts -> Nat]
    BY <1>8, TakenType DEF TypeOK, DeductCost
  <2> QED
    BY <1>8, <2>1, <2>2 DEF TypeOK, DeductCost, Goto, Steps, stripeVars, creditVars, admitVars
<1>9. ASSUME NEW k \in Keys, NEW a \in Amounts, TopUp(k, a) PROVE TypeInv'
  <2>1. balance' \in Balances
    BY <1>9, StoreTypes DEF TypeOK, TopUp, CreditKey, Cents, Keys
  <2> QED
    BY <1>9, <2>1 DEF TypeOK, TopUp, CreditKey, Cents, Keys, handlerVars, stripeVars, chargeVars,
                      admitVars
<1>10. ASSUME NEW p \in Payments, NEW k \in Keys, NEW a \in Amounts, Checkout(p, k, a)
       PROVE  TypeInv'
  BY <1>10 DEF TypeOK, Checkout, Session, Cents, Keys, storeVars, handlerVars, creditVars, chargeVars,
               admitVars
<1>11. ASSUME NEW p \in Payments, CustomerPays(p) PROVE TypeInv'
  BY <1>11 DEF TypeOK, CustomerPays, Session, Cents, storeVars, handlerVars, creditVars, chargeVars,
               admitVars
<1>12. ASSUME NEW p \in Payments, NEW type \in EventTypes, Webhook(p, type) PROVE TypeInv'
  <2>1. CASE Credits(p, type)
    <3>1. payment[p].amount \in Cents /\ payment[p].key \in Accounts
      BY <2>1 DEF TypeOK, Credits, Session
    <3>2. balance' \in Balances
      BY <1>12, <2>1, <3>1, StoreTypes DEF TypeOK, Webhook, CreditKey, Cents
    <3> QED
      BY <1>12, <2>1, <3>1, <3>2 DEF TypeOK, Webhook, CreditKey, Cents, EventTypes, handlerVars,
                                   chargeVars, admitVars
  <2>2. CASE ~ Credits(p, type)
    BY <1>12, <2>2 DEF TypeOK, Webhook, EventTypes, handlerVars, chargeVars, admitVars
  <2> QED
    BY <2>1, <2>2
<1>13. CASE UNCHANGED vars
  BY <1>13 DEF TypeOK, vars, storeVars, handlerVars, stripeVars, creditVars, chargeVars, admitVars
<1> QED
  BY <1>1, <1>2, <1>3, <1>4, <1>5, <1>6, <1>7, <1>8, <1>9, <1>10, <1>11, <1>12, <1>13
  DEF Next, Handler

(* Every variable keeps its type in every run.                              *)
THEOREM TypeCorrect == Spec => []TypeOK
<1>1. Init => TypeInv
  BY TypeInit
<1>2. TypeInv /\ [Next]_vars => TypeInv'
  BY TypeNext
<1>3. TypeInv => TypeOK
  BY DEF TypeInv
<1> QED
  BY <1>1, <1>2, <1>3, PTL DEF Spec
-----------------------------------------------------------------------------
(* Solvent needs one fact more, that an amount credited is positive: then   *)
(* credited[k] <= MaxInt64 held before a credit too, when it holds after.   *)
LEMMA CreditKeepsSolvent ==
    ASSUME TypeInv, Solvent, NEW k \in Accounts, NEW a \in Cents, CreditKey(k, a),
           charged' = charged
    PROVE  Solvent'
<1> SUFFICES ASSUME NEW j \in Accounts, credited'[j] <= MaxInt64
             PROVE  balance'[j] = credited'[j] - charged'[j] /\ balance'[j] >= 0
  BY DEF Solvent
<1>1. credited[j] \in Nat /\ charged[j] \in Nat /\ balance[j] \in Int
  BY MaxInt64Assumption DEF TypeInv, TypeOK, Balances, Int64
<1>2. CASE j # k
  BY <1>2, <1>1 DEF CreditKey, Add, Solvent, TypeInv, TypeOK, Balances
<1>3. CASE j = k
  <2>1. credited'[j] = credited[j] + a /\ credited[j] <= MaxInt64
    BY <1>3, <1>1, MaxInt64Assumption DEF CreditKey, TypeInv, TypeOK, Cents
  <2>2. balance[j] = credited[j] - charged[j] /\ balance[j] >= 0
    BY <2>1 DEF Solvent
  <2>3. balance'[j] = Plus64(balance[j], a)
    BY <1>3 DEF CreditKey, Add, TypeInv, TypeOK, Balances
  <2>4. balance'[j] = balance[j] + a
    BY <1>1, <2>1, <2>2, <2>3, MaxInt64Assumption DEF Plus64, Cents
  <2> QED
    BY <1>1, <2>1, <2>2, <2>4, MaxInt64Assumption DEF Cents
<1> QED
  BY <1>2, <1>3

LEMMA DeductKeepsSolvent ==
    ASSUME TypeInv, Solvent, NEW r \in Requests, DeductCost(r)
    PROVE  Solvent'
<1> SUFFICES ASSUME NEW j \in Accounts, credited'[j] <= MaxInt64
             PROVE  balance'[j] = credited'[j] - charged'[j] /\ balance'[j] >= 0
  BY DEF Solvent
<1>1. /\ credited[j] \in Nat /\ charged[j] \in Nat /\ balance[j] \in Int
      /\ key[r] \in Accounts /\ cost[r] \in 0 .. MaxInt64
  BY MaxInt64Assumption DEF TypeInv, TypeOK, Balances, Int64
<1>2. balance[j] = credited[j] - charged[j] /\ balance[j] >= 0 /\ credited'[j] = credited[j]
  BY DEF Solvent, DeductCost, creditVars
<1>3. charged'[j] = charged[j] + (IF j = key[r] THEN Taken(r) ELSE 0)
  BY <1>1, TakenType, MaxInt64Assumption DEF DeductCost, TypeInv, TypeOK
<1>4. balance'[j] = balance[j] - (IF j = key[r] THEN Taken(r) ELSE 0)
  BY <1>1, MaxInt64Assumption DEF DeductCost, Deduct, Covers, Taken, TypeInv, TypeOK, Balances
<1>5. j = key[r] => balance[j] >= Taken(r)
  BY <1>1, <1>2, MaxInt64Assumption DEF Taken, Covers
<1> QED
  BY <1>1, <1>2, <1>3, <1>4, <1>5, TakenType, MaxInt64Assumption DEF TypeInv

(* The steps that move no money leave balance, credited and charged alone.  *)
Quiet == UNCHANGED <<balance, credited, charged>>

LEMMA QuietKeepsSolvent == Solvent /\ Quiet => Solvent'
  BY DEF Solvent, Quiet

LEMMA SolventNext == TypeInv /\ Solvent /\ [Next]_vars => Solvent'
<1> SUFFICES ASSUME TypeInv, Solvent, [Next]_vars PROVE Solvent'
  OBVIOUS
<1>1. ASSUME NEW r \in Requests, DeductCost(r) PROVE Solvent'
  BY <1>1, DeductKeepsSolvent
<1>2. ASSUME NEW k \in Keys, NEW a \in Amounts, TopUp(k, a) PROVE Solvent'
  BY <1>2, CreditKeepsSolvent, BillingAssumption DEF TopUp, Keys, chargeVars
<1>3. ASSUME NEW p \in Payments, NEW type \in EventTypes, Webhook(p, type) PROVE Solvent'
  <2>1. CASE Credits(p, type)
    <3>1. payment[p].amount \in Cents /\ payment[p].key \in Accounts
      BY <2>1 DEF TypeInv, SessionsCarryCents, TypeOK, Credits, Session
    <3> QED
      BY <1>3, <2>1, <3>1, CreditKeepsSolvent DEF Webhook, chargeVars
  <2>2. CASE ~ Credits(p, type)
    BY <1>3, <2>2, QuietKeepsSolvent DEF Webhook, Quiet, chargeVars
  <2> QED
    BY <2>1, <2>2
<1>4. CASE \/ UNCHANGED vars
           \/ \E r \in Requests, k \in Accounts, kd \in Kinds : Arrive(r, k, kd)
           \/ \E r \in Requests : \/ CheckBalance(r) \/ CoreAnswers(r) \/ NoProviders(r)
                                  \/ StreamClosesBare(r) \/ CallFails(r) \/ SaveReceipt(r)
           \/ \E p \in Payments, k \in Keys, a \in Amounts : Checkout(p, k, a)
           \/ \E p \in Payments : CustomerPays(p)
  <2>1. Quiet
    BY <1>4 DEF Quiet, vars, storeVars, creditVars, chargeVars, Arrive, CheckBalance, CoreAnswers,
                NoProviders, StreamClosesBare, CallFails, SaveReceipt, Checkout, CustomerPays
  <2> QED
    BY <2>1, QuietKeepsSolvent
<1> QED
  BY <1>1, <1>2, <1>3, <1>4 DEF Next, Handler

LEMMA SolventInit == Init => Solvent
  BY MaxInt64Assumption DEF Init, Solvent

(* The balance of every account is its credits less its charges and never   *)
(* negative, until the credits outgrow an int64.                            *)
THEOREM Solvency == Spec => []Solvent
<1>1. Init => TypeInv /\ Solvent
  BY TypeInit, SolventInit
<1>2. TypeInv /\ Solvent /\ [Next]_vars => (TypeInv /\ Solvent)'
  BY TypeNext, SolventNext
<1> QED
  BY <1>1, <1>2, PTL DEF Spec
-----------------------------------------------------------------------------
(* What a request's record says at each step of its handler.  A cost is     *)
(* known from the answer on, a charge is taken at the step DeductCost only, *)
(* and the balance and charges a request was admitted on never exceed what  *)
(* its key was credited and charged later.                                  *)
NotYetCharged(r) ==
    \/ pc[r] \in {"idle", "check", "call", "deduct", "rejected", "failed"}
    \/ pc[r] = "receipt" /\ kind[r] # "stream"

Admission ==
    \A r \in Requests :
        /\ pc[r] \in {"idle", "check"} => seen[r] = 0 /\ chargedThen[r] = 0
        /\ pc[r] \in {"idle", "check", "call"} => cost[r] = 0
        /\ NotYetCharged(r) => paid[r] = 0
        /\ chargedThen[r] <= charged[key[r]]
        /\ credited[key[r]] <= MaxInt64 => seen[r] + chargedThen[r] <= credited[key[r]]

LEMMA AdmissionInit == Init => Admission /\ UnpaidOnlyWhenShort
  BY MaxInt64Assumption, BillingAssumption
  DEF Init, Admission, NotYetCharged, UnpaidOnlyWhenShort, Unpaid

LEMMA ChargesGrow ==
    ASSUME TypeInv, NEW r \in Requests, DeductCost(r), NEW k \in Accounts
    PROVE  charged'[k] >= charged[k] /\ charged'[k] \in Nat
  BY TakenType, MaxInt64Assumption DEF DeductCost, TypeInv, TypeOK

(* A credit disturbs credited alone, and only upwards.                      *)
LEMMA CreditKeepsAdmission ==
    ASSUME TypeInv, Admission, UnpaidOnlyWhenShort,
           NEW k \in Accounts, NEW a \in Cents, CreditKey(k, a),
           UNCHANGED <<handlerVars, chargeVars, admitVars>>
    PROVE  Admission' /\ UnpaidOnlyWhenShort'
<1>1. \A j \in Accounts : credited'[j] >= credited[j] /\ credited[j] \in Nat
  BY MaxInt64Assumption DEF CreditKey, TypeInv, TypeOK, Cents
<1>2. \A r \in Requests : /\ key[r] \in Accounts /\ seen[r] \in Int /\ chargedThen[r] \in Nat
                         /\ credited'[key[r]] \in Nat
  BY MaxInt64Assumption DEF CreditKey, TypeInv, TypeOK, Cents, Int64
<1>3. Admission'
  BY <1>1, <1>2, MaxInt64Assumption
  DEF Admission, NotYetCharged, handlerVars, chargeVars, admitVars
<1>4. UnpaidOnlyWhenShort'
  BY <1>1, <1>2, MaxInt64Assumption
  DEF UnpaidOnlyWhenShort, Unpaid, handlerVars, chargeVars, admitVars
<1> QED
  BY <1>3, <1>4

LEMMA DeductKeepsAdmission ==
    ASSUME TypeInv, Solvent, Admission, UnpaidOnlyWhenShort, NEW r \in Requests, DeductCost(r)
    PROVE  Admission' /\ UnpaidOnlyWhenShort'
<1>1. \A q \in Requests :
        /\ key[q] \in Accounts /\ cost[q] \in Nat /\ paid[q] \in Nat /\ seen[q] \in Int
        /\ chargedThen[q] \in Nat /\ charged[key[q]] \in Nat /\ credited[key[q]] \in Nat
        /\ charged'[key[q]] \in Nat /\ charged'[key[q]] >= charged[key[q]]
  BY ChargesGrow, MaxInt64Assumption DEF TypeInv, TypeOK, Int64
<1>2. /\ UNCHANGED <<kind, key, cost, credited, seen, chargedThen>>
      /\ pc[r] = "deduct" /\ pc' = [pc EXCEPT ![r] = IF kind[r] = "stream" THEN "receipt" ELSE "done"]
      /\ paid' = [paid EXCEPT ![r] = Taken(r)]
  BY DEF DeductCost, Goto, creditVars, admitVars
<1>3. pc \in [Requests -> Steps] /\ paid \in [Requests -> 0 .. MaxInt64]
  BY DEF TypeInv, TypeOK
<1>4. Admission'
  <2> SUFFICES ASSUME NEW q \in Requests
      PROVE  /\ pc'[q] \in {"idle", "check"} => seen'[q] = 0 /\ chargedThen'[q] = 0
             /\ pc'[q] \in {"idle", "check", "call"} => cost'[q] = 0
             /\ NotYetCharged(q)' => paid'[q] = 0
             /\ chargedThen'[q] <= charged'[key'[q]]
             /\ credited'[key'[q]] <= MaxInt64 => seen'[q] + chargedThen'[q] <= credited'[key'[q]]
    BY DEF Admission
  <2>1. CASE q = r
    BY <2>1, <1>1, <1>2, <1>3 DEF Admission, NotYetCharged
  <2>2. CASE q # r
    BY <2>2, <1>1, <1>2, <1>3 DEF Admission, NotYetCharged
  <2> QED
    BY <2>1, <2>2
<1>5. UnpaidOnlyWhenShort'
  <2> SUFFICES ASSUME NEW q \in Requests, Unpaid(q)', credited[key[q]] <= MaxInt64
      PROVE  seen[q] - (charged'[key[q]] - chargedThen[q]) < cost[q]
    BY <1>2 DEF UnpaidOnlyWhenShort
  <2>1. CASE q # r
    <3>1. Unpaid(q)
      BY <2>1, <1>2, <1>3 DEF Unpaid
    <3> QED
      BY <3>1, <1>1 DEF UnpaidOnlyWhenShort
  <2>2. CASE q = r
    <3>1. Taken(r) < cost[r]
      BY <2>2, <1>2, <1>3 DEF Unpaid
    <3>2. balance[key[r]] < cost[r] /\ cost[r] > 0 /\ balance[key[r]] \in Int
      BY <3>1, <1>1, MaxInt64Assumption DEF Taken, Covers, TypeInv, TypeOK, Balances, Int64
    <3>3. balance[key[r]] = credited[key[r]] - charged[key[r]]
      BY <2>2, <1>1 DEF Solvent
    <3>4. seen[r] + chargedThen[r] <= credited[key[r]]
      BY <2>2 DEF Admission
    <3> QED
      BY <2>2, <3>2, <3>3, <3>4, <1>1
  <2> QED
    BY <2>1, <2>2
<1> QED
  BY <1>4, <1>5

(* CheckBalance is the step that sets seen and chargedThen.                 *)
LEMMA CheckKeepsAdmission ==
    ASSUME TypeInv, Solvent, Admission, UnpaidOnlyWhenShort, NEW r \in Requests, CheckBalance(r)
    PROVE  Admission' /\ UnpaidOnlyWhenShort'
<1>1. /\ pc[r] = "check" /\ pc'[r] \in {"call", "rejected"}
      /\ \A q \in Requests \ {r} : pc'[q] = pc[q] /\ seen'[q] = seen[q]
                                  /\ chargedThen'[q] = chargedThen[q]
      /\ seen'[r] = balance[key[r]] /\ chargedThen'[r] = charged[key[r]]
      /\ UNCHANGED <<kind, key, cost, balance, credited, charged, paid>>
  BY DEF CheckBalance, Goto, TypeInv, TypeOK, storeVars, creditVars, chargeVars
<1>2. /\ key[r] \in Accounts /\ charged[key[r]] \in Nat /\ credited[key[r]] \in Nat
      /\ balance[key[r]] \in Int
  BY MaxInt64Assumption DEF TypeInv, TypeOK, Balances, Int64
<1>3. Admission'
  BY <1>1, <1>2 DEF Admission, NotYetCharged, Solvent
<1>4. UnpaidOnlyWhenShort'
  BY <1>1, <1>2 DEF UnpaidOnlyWhenShort, Unpaid
<1> QED
  BY <1>3, <1>4

(* The other steps of a handler move one request and no money.              *)
LEMMA HandlerKeepsAdmission ==
    ASSUME TypeInv, Admission, UnpaidOnlyWhenShort, NEW r \in Requests,
           \/ \E k \in Accounts, kd \in Kinds : Arrive(r, k, kd)
           \/ CoreAnswers(r)
           \/ NoProviders(r)
           \/ StreamClosesBare(r)
           \/ CallFails(r)
           \/ SaveReceipt(r)
    PROVE  Admission' /\ UnpaidOnlyWhenShort'
<1> USE MaxInt64Assumption
<1>1. \A k \in Accounts : credited[k] \in Nat /\ charged[k] \in Nat
  BY DEF TypeInv, TypeOK
<1>2. /\ pc \in [Requests -> Steps] /\ kind \in [Requests -> Kinds]
      /\ key \in [Requests -> Accounts] /\ cost \in [Requests -> 0 .. MaxInt64]
      /\ paid \in [Requests -> 0 .. MaxInt64]
  BY DEF TypeInv, TypeOK
<1> USE DEF Admission, NotYetCharged, UnpaidOnlyWhenShort, Unpaid, Goto, storeVars, creditVars,
            chargeVars, admitVars
<1>3. ASSUME NEW k \in Accounts, NEW kd \in Kinds, Arrive(r, k, kd)
      PROVE  Admission' /\ UnpaidOnlyWhenShort'
  <2>1. Admission'
    BY <1>1, <1>2, <1>3 DEF Arrive
  <2>2. UnpaidOnlyWhenShort'
    BY <1>1, <1>2, <1>3 DEF Arrive
  <2> QED
    BY <2>1, <2>2
<1>4. CASE CoreAnswers(r)
  <2>1. PICK c \in Costs : cost' = [cost EXCEPT ![r] = c]
    BY <1>4 DEF CoreAnswers
  <2>2. /\ pc[r] = "call" /\ pc' = [pc EXCEPT ![r] = AfterAnswer(kind[r])]
        /\ UNCHANGED <<kind, key, credited, charged, paid, seen, chargedThen>>
    BY <1>4 DEF CoreAnswers
  <2>3. Admission'
    BY <1>1, <1>2, <2>1, <2>2 DEF AfterAnswer
  <2>4. \A q \in Requests : Unpaid(q)' => Unpaid(q) /\ q # r
    BY <1>2, <2>1, <2>2 DEF AfterAnswer, Kinds
  <2>5. UnpaidOnlyWhenShort'
    BY <1>2, <2>1, <2>2, <2>4
  <2> QED
    BY <2>3, <2>5
<1>5. CASE NoProviders(r)
  BY <1>1, <1>2, <1>5 DEF NoProviders
<1>6. CASE StreamClosesBare(r)
  BY <1>1, <1>2, <1>6 DEF StreamClosesBare
<1>7. CASE CallFails(r)
  BY <1>1, <1>2, <1>7 DEF CallFails
<1>8. CASE SaveReceipt(r)
  BY <1>1, <1>2, <1>8 DEF SaveReceipt, AfterReceipt
<1> QED
  BY <1>3, <1>4, <1>5, <1>6, <1>7, <1>8

LEMMA AdmissionNext ==
    TypeInv /\ Solvent /\ Admission /\ UnpaidOnlyWhenShort /\ [Next]_vars
        => Admission' /\ UnpaidOnlyWhenShort'
<1> SUFFICES ASSUME TypeInv, Solvent, Admission, UnpaidOnlyWhenShort, [Next]_vars
             PROVE  Admission' /\ UnpaidOnlyWhenShort'
  OBVIOUS
<1>1. ASSUME NEW r \in Requests, NEW k \in Accounts, NEW kd \in Kinds, Arrive(r, k, kd)
      PROVE  Admission' /\ UnpaidOnlyWhenShort'
  BY <1>1, HandlerKeepsAdmission
<1>2. ASSUME NEW r \in Requests, Handler(r)
      PROVE  Admission' /\ UnpaidOnlyWhenShort'
  BY <1>2, HandlerKeepsAdmission, CheckKeepsAdmission, DeductKeepsAdmission DEF Handler
<1>3. ASSUME NEW k \in Keys, NEW a \in Amounts, TopUp(k, a)
      PROVE  Admission' /\ UnpaidOnlyWhenShort'
  BY <1>3, CreditKeepsAdmission, BillingAssumption DEF TopUp, Keys
<1>4. ASSUME NEW p \in Payments, NEW type \in EventTypes, Webhook(p, type)
      PROVE  Admission' /\ UnpaidOnlyWhenShort'
  <2>1. CASE Credits(p, type)
    <3>1. payment[p].amount \in Cents /\ payment[p].key \in Accounts
      BY <2>1 DEF TypeInv, SessionsCarryCents, TypeOK, Credits, Session
    <3> QED
      BY <1>4, <2>1, <3>1, CreditKeepsAdmission DEF Webhook
  <2>2. CASE ~ Credits(p, type)
    BY <1>4, <2>2 DEF Webhook, Admission, NotYetCharged, UnpaidOnlyWhenShort, Unpaid, handlerVars,
                      chargeVars, admitVars
  <2> QED
    BY <2>1, <2>2
<1>5. CASE \/ UNCHANGED vars
           \/ \E p \in Payments, k \in Keys, a \in Amounts : Checkout(p, k, a)
           \/ \E p \in Payments : CustomerPays(p)
  BY <1>5 DEF vars, Checkout, CustomerPays, Admission, NotYetCharged, UnpaidOnlyWhenShort, Unpaid,
              handlerVars, storeVars, creditVars, chargeVars, admitVars
<1> QED
  BY <1>1, <1>2, <1>3, <1>4, <1>5 DEF Next

(* An answer goes unpaid only when the balance that admitted its request    *)
(* was, after the charges made since, below its cost.                       *)
THEOREM Shortfall == Spec => []UnpaidOnlyWhenShort
<1>1. Init => TypeInv /\ Solvent /\ Admission /\ UnpaidOnlyWhenShort
  BY TypeInit, SolventInit, AdmissionInit
<1>2. TypeInv /\ Solvent /\ Admission /\ UnpaidOnlyWhenShort /\ [Next]_vars
        => (TypeInv /\ Solvent /\ Admission /\ UnpaidOnlyWhenShort)'
  BY TypeNext, SolventNext, AdmissionNext
<1> QED
  BY <1>1, <1>2, PTL DEF Spec
-----------------------------------------------------------------------------
(* Nobody tops up the empty key of anonymous callers, so with Solvent it    *)
(* never pays; an anonymous stream, which gets no receipt, is never charged. *)
NobodyCreditsNoKey ==
    /\ credited[NoKey] = 0
    /\ \A p \in Payments : payment[p].status # "none" => payment[p].key \in Keys

LEMMA NoKeyInit == Init => NobodyCreditsNoKey
  BY BillingAssumption DEF Init, NobodyCreditsNoKey

LEMMA NoKeyNext == TypeInv /\ NobodyCreditsNoKey /\ [Next]_vars => NobodyCreditsNoKey'
<1> SUFFICES ASSUME TypeInv, NobodyCreditsNoKey, [Next]_vars PROVE NobodyCreditsNoKey'
  OBVIOUS
<1>1. /\ credited \in [Accounts -> Nat] /\ payment \in [Payments -> Session]
      /\ NoKey \in Accounts /\ NoKey \notin Keys
  BY BillingAssumption DEF TypeInv, TypeOK, Keys
<1>2. ASSUME NEW k \in Keys, NEW a \in Amounts, TopUp(k, a) PROVE NobodyCreditsNoKey'
  BY <1>1, <1>2 DEF TopUp, CreditKey, stripeVars, NobodyCreditsNoKey
<1>3. ASSUME NEW p \in Payments, NEW k \in Keys, NEW a \in Amounts, Checkout(p, k, a)
      PROVE  NobodyCreditsNoKey'
  BY <1>1, <1>3 DEF Checkout, creditVars, NobodyCreditsNoKey
<1>4. ASSUME NEW p \in Payments, CustomerPays(p) PROVE NobodyCreditsNoKey'
  <2>1. \A q \in Payments : /\ payment'[q].key = payment[q].key
                            /\ payment'[q].status # "none" => payment[q].status # "none"
    BY <1>1, <1>4 DEF CustomerPays, Session
  <2> QED
    BY <1>4, <2>1 DEF CustomerPays, creditVars, NobodyCreditsNoKey
<1>5. ASSUME NEW p \in Payments, NEW type \in EventTypes, Webhook(p, type)
      PROVE  NobodyCreditsNoKey'
  <2>1. Credits(p, type) => payment[p].key \in Keys
    BY DEF Credits, NobodyCreditsNoKey
  <2> QED
    BY <1>1, <1>5, <2>1 DEF Webhook, CreditKey, NobodyCreditsNoKey
<1>6. ASSUME NEW r \in Requests, Handler(r) PROVE NobodyCreditsNoKey'
  BY <1>6 DEF Handler, CheckBalance, CoreAnswers, NoProviders, StreamClosesBare, CallFails,
              SaveReceipt, DeductCost, stripeVars, creditVars, NobodyCreditsNoKey
<1>7. CASE \/ UNCHANGED vars
           \/ \E r \in Requests, k \in Accounts, kd \in Kinds : Arrive(r, k, kd)
  BY <1>7 DEF vars, Arrive, stripeVars, creditVars, NobodyCreditsNoKey
<1> QED
  BY <1>2, <1>3, <1>4, <1>5, <1>6, <1>7 DEF Next

-----------------------------------------------------------------------------
(* The receipt a request writes, and where in its handler it is known to    *)
(* stand: after SaveReceipt, which is before the charge in the unary        *)
(* handlers and after it in the SSE handler.                                *)
Entry(r) == [req |-> r, key |-> key[r], cost |-> cost[r]]

Saved(t) == pc[t.req] = "done" \/ (pc[t.req] = "deduct" /\ kind[t.req] # "stream")

Written(r) ==
    /\ Signing
    /\ \/ kind[r] \in {"chat", "completions"} /\ pc[r] \in {"deduct", "done"}
       \/ kind[r] = "stream" /\ pc[r] = "done" /\ paid[r] > 0

Receipted ==
    /\ \A t \in receipts : t = Entry(t.req) /\ Saved(t)
    /\ \A r \in Requests :
          /\ Written(r) => Entry(r) \in receipts
          /\ paid[r] > 0 => paid[r] = cost[r] /\ kind[r] # "ws" /\ key[r] # NoKey
          /\ kind[r] = "ws" => pc[r] \notin {"check", "receipt", "deduct"}

LEMMA ReceiptedInit == Init => Receipted
  BY DEF Init, Receipted, Written

(* The part of Receipted that speaks of one request.                        *)
ReceiptedOf(r) ==
    /\ \A t \in receipts : t.req = r => t = Entry(r) /\ Saved(t)
    /\ Written(r) => Entry(r) \in receipts
    /\ paid[r] > 0 => paid[r] = cost[r] /\ kind[r] # "ws" /\ key[r] # NoKey
    /\ kind[r] = "ws" => pc[r] \notin {"check", "receipt", "deduct"}

LEMMA ReceiptedByRequest ==
    ASSUME receipts \subseteq Receipt
    PROVE  Receipted <=> \A r \in Requests : ReceiptedOf(r)
<1>1. \A t \in receipts : t.req \in Requests
  BY DEF Receipt
<1> QED
  BY <1>1 DEF Receipted, ReceiptedOf

(* A step of one request's handler need only be looked at for that request. *)
LEMMA ReceiptedFrame ==
    ASSUME TypeInv, TypeInv', Receipted, NEW r \in Requests,
           \A q \in Requests \ {r} :
              UNCHANGED <<pc[q], kind[q], key[q], cost[q], paid[q]>>,
           receipts \subseteq receipts',
           \A t \in receipts' \ receipts : t.req = r,
           ReceiptedOf(r)'
    PROVE  Receipted'
<1>1. \A q \in Requests : ReceiptedOf(q)
  BY ReceiptedByRequest DEF TypeInv, TypeOK
<1>2. ASSUME NEW q \in Requests \ {r} PROVE ReceiptedOf(q)'
  <2>1. ReceiptedOf(q)
    BY <1>1
  <2>2. UNCHANGED <<pc[q], kind[q], key[q], cost[q], paid[q]>>
    OBVIOUS
  <2>3. Entry(q)' = Entry(q) /\ Written(q)' = Written(q)
    BY <2>2 DEF Entry, Written
  <2>4. ASSUME NEW t \in receipts', t.req = q PROVE t = Entry(q) /\ Saved(t)'
    <3>1. t \in receipts
      BY <2>4
    <3> QED
      BY <2>1, <2>2, <2>4, <3>1 DEF ReceiptedOf, Saved
  <2> QED
    BY <2>1, <2>2, <2>3, <2>4 DEF ReceiptedOf
<1>3. receipts' \subseteq Receipt
  BY DEF TypeInv, TypeOK
<1>4. \A q \in Requests : ReceiptedOf(q)'
  BY <1>2
<1> QED
  BY <1>3, <1>4, ReceiptedByRequest DEF Receipted, ReceiptedOf, Receipt

(* While a request still awaits its answer it has no receipt.               *)
LEMMA NoReceiptYet ==
    ASSUME Receipted, NEW r \in Requests,
           pc[r] \in {"idle", "check", "call", "receipt"}
              \/ (pc[r] = "deduct" /\ kind[r] = "stream")
    PROVE  \A t \in receipts : t.req # r
  BY DEF Receipted, Saved

LEMMA HandlerReceipted ==
    ASSUME TypeInv, TypeInv', Solvent, NobodyCreditsNoKey, Admission, Receipted,
           NEW r \in Requests,
           Handler(r) \/ \E k \in Accounts, kd \in Kinds : Arrive(r, k, kd)
    PROVE  Receipted'
<1>1. /\ pc \in [Requests -> Steps] /\ kind \in [Requests -> Kinds]
      /\ key \in [Requests -> Accounts] /\ cost \in [Requests -> 0 .. MaxInt64]
      /\ paid \in [Requests -> 0 .. MaxInt64] /\ receipts \subseteq Receipt
  BY DEF TypeInv, TypeOK
<1>2. ReceiptedOf(r) /\ \A t \in receipts : t.req = r => Saved(t)
  BY <1>1, ReceiptedByRequest DEF Receipted
<1>3. ASSUME NEW k \in Accounts, NEW kd \in Kinds, Arrive(r, k, kd) PROVE Receipted'
  <2>1. /\ pc[r] = "idle" /\ pc'[r] = (IF kd = "ws" THEN "call" ELSE "check")
        /\ kind'[r] = kd /\ paid'[r] = paid[r] /\ receipts' = receipts /\ paid[r] = 0
        /\ \A q \in Requests \ {r} : UNCHANGED <<pc[q], kind[q], key[q], cost[q], paid[q]>>
    BY <1>1, <1>3 DEF Arrive, Goto, storeVars, chargeVars, Admission, NotYetCharged
  <2>2. ReceiptedOf(r)'
    BY <2>1, NoReceiptYet DEF ReceiptedOf, Written
  <2> QED
    BY <2>1, <2>2, ReceiptedFrame
<1>4. CASE CheckBalance(r) \/ CoreAnswers(r) \/ NoProviders(r) \/ StreamClosesBare(r) \/ CallFails(r)
  <2>1. /\ pc[r] \in {"check", "call"} /\ paid[r] = 0 /\ UNCHANGED <<kind, key, paid, receipts>>
        /\ pc'[r] \in {"call", "rejected", "receipt", "deduct", "done", "failed"}
        /\ kind[r] \in {"chat", "completions"} => pc'[r] \notin {"deduct", "done"}
        /\ kind[r] = "ws" => pc'[r] \notin {"check", "receipt", "deduct"}
        /\ \A q \in Requests \ {r} : UNCHANGED <<pc[q], kind[q], key[q], cost[q], paid[q]>>
    <3>1. paid[r] = 0 /\ UNCHANGED <<kind, key, paid, receipts>>
      BY <1>4 DEF Admission, NotYetCharged, CheckBalance, CoreAnswers, NoProviders,
                  StreamClosesBare, CallFails, storeVars, chargeVars
    <3>2. /\ pc[r] \in {"check", "call"}
          /\ pc'[r] \in {"call", "rejected", "receipt", "deduct", "done", "failed"}
          /\ kind[r] \in {"chat", "completions"} => pc'[r] \notin {"deduct", "done"}
          /\ kind[r] = "ws" => pc'[r] \notin {"check", "receipt", "deduct"}
      BY <1>1, <1>4 DEF CheckBalance, CoreAnswers, NoProviders, StreamClosesBare, CallFails, Goto,
                       AfterAnswer
    <3>3. \A q \in Requests \ {r} : pc'[q] = pc[q] /\ cost'[q] = cost[q]
      BY <1>1, <1>4 DEF CheckBalance, CoreAnswers, NoProviders, StreamClosesBare, CallFails, Goto
    <3> QED
      BY <3>1, <3>2, <3>3
  <2>2. ReceiptedOf(r)'
    BY <2>1, NoReceiptYet DEF ReceiptedOf, Written
  <2> QED
    BY <2>1, <2>2, ReceiptedFrame
<1>5. CASE SaveReceipt(r)
  <2>1. /\ pc[r] = "receipt" /\ pc'[r] = AfterReceipt(kind[r])
        /\ UNCHANGED <<kind, key, cost, paid>>
        /\ receipts' = IF Writes(r) THEN receipts \cup {Entry(r)} ELSE receipts
        /\ \A q \in Requests \ {r} : UNCHANGED <<pc[q], kind[q], key[q], cost[q], paid[q]>>
    BY <1>1, <1>5 DEF SaveReceipt, Goto, chargeVars, Entry
  <2>2. Entry(r)' = Entry(r) /\ Entry(r).req = r
    BY <2>1 DEF Entry
  <2>3. \A t \in receipts' : t.req = r => t = Entry(r)
    BY <2>1, NoReceiptYet
  <2>4. ~ (kind[r] = "ws") /\ (paid[r] > 0 => paid[r] = cost[r] /\ key[r] # NoKey)
    BY <1>2, <2>1 DEF ReceiptedOf
  <2>5. Written(r)' => Writes(r)
    BY <2>1, <2>4 DEF Written, Writes
  <2>6. ReceiptedOf(r)'
    <3>1. Written(r)' => Entry(r)' \in receipts'
      BY <2>1, <2>2, <2>5
    <3>2. \A t \in receipts' : t.req = r => t = Entry(r)' /\ Saved(t)'
      BY <2>1, <2>2, <2>3 DEF Saved, AfterReceipt
    <3> QED
      BY <2>1, <2>4, <3>1, <3>2 DEF ReceiptedOf
  <2>7. receipts \subseteq receipts' /\ \A t \in receipts' \ receipts : t.req = r
    BY <2>1, <2>2
  <2> QED
    BY <2>1, <2>6, <2>7, ReceiptedFrame
<1>6. CASE DeductCost(r)
  <2>1. /\ pc[r] = "deduct" /\ pc'[r] = (IF kind[r] = "stream" THEN "receipt" ELSE "done")
        /\ UNCHANGED <<kind, key, cost, receipts>> /\ paid'[r] = Taken(r)
        /\ \A q \in Requests \ {r} : UNCHANGED <<pc[q], kind[q], key[q], cost[q], paid[q]>>
    BY <1>1, <1>6 DEF DeductCost, Goto
  <2>2. Taken(r) > 0 => Taken(r) = cost[r] /\ key[r] # NoKey
    <3>1. balance[NoKey] <= 0
      <4>1. credited[NoKey] = 0 /\ charged[NoKey] \in Nat /\ NoKey \in Accounts
        BY BillingAssumption DEF NobodyCreditsNoKey, TypeInv, TypeOK
      <4>2. balance[NoKey] = 0 - charged[NoKey]
        BY <4>1, MaxInt64Assumption DEF Solvent
      <4> QED
        BY <4>1, <4>2
    <3> QED
      BY <1>1, <3>1, BillingAssumption, MaxInt64Assumption
      DEF Taken, Covers, TypeInv, TypeOK, Balances, Int64
  <2>3. kind[r] # "ws"
    BY <1>2, <2>1 DEF ReceiptedOf
  <2>4. Entry(r)' = Entry(r)
    BY <2>1 DEF Entry
  <2>5. Written(r)' => Written(r)
    BY <2>1 DEF Written
  <2>6. \A t \in receipts : t.req = r => Saved(t)'
    BY <1>2, <2>1 DEF Saved
  <2>7. ReceiptedOf(r)'
    BY <1>2, <2>1, <2>2, <2>3, <2>4, <2>5, <2>6 DEF ReceiptedOf
  <2> QED
    BY <2>1, <2>7, ReceiptedFrame
<1> QED
  BY <1>3, <1>4, <1>5, <1>6 DEF Handler

LEMMA ReceiptedNext ==
    TypeInv /\ Solvent /\ NobodyCreditsNoKey /\ Admission /\ Receipted /\ [Next]_vars => Receipted'
<1> SUFFICES ASSUME TypeInv, Solvent, NobodyCreditsNoKey, Admission, Receipted, [Next]_vars
             PROVE  Receipted'
  OBVIOUS
<1>1. TypeInv'
  BY TypeNext
<1>2. CASE \E r \in Requests :
              Handler(r) \/ \E k \in Accounts, kd \in Kinds : Arrive(r, k, kd)
  BY <1>1, <1>2, HandlerReceipted
<1>3. CASE UNCHANGED <<pc, kind, key, cost, paid, receipts>>
  BY <1>3 DEF Receipted, Entry, Saved, Written
<1> QED
  BY <1>2, <1>3
  DEF Next, TopUp, Checkout, CustomerPays, Webhook, vars, handlerVars, chargeVars, storeVars

(* Every charge ends in exactly one receipt, of its own key and amount,     *)
(* whichever of the two orders the handler writes them in, as soon as the   *)
(* handler is past both (SaveReceipt, DeductCost).                          *)
THEOREM ReceiptsMatch == Spec => []ReceiptsCoverCharges
<1> DEFINE I == /\ TypeInv /\ Solvent /\ Admission /\ UnpaidOnlyWhenShort
                /\ NobodyCreditsNoKey /\ Receipted
<1>1. Init => I
  BY TypeInit, SolventInit, AdmissionInit, NoKeyInit, ReceiptedInit
<1>2. I /\ [Next]_vars => I'
  BY TypeNext, SolventNext, AdmissionNext, NoKeyNext, ReceiptedNext
<1>3. I => ReceiptsCoverCharges
  <2> SUFFICES ASSUME I PROVE ReceiptsCoverCharges
    OBVIOUS
  <2>1. \A t, u \in receipts : t.req = u.req => t = u
    BY DEF Receipted
  <2>2. ASSUME NEW r \in Requests, Signing, paid[r] > 0, ~ BetweenChargeAndReceipt(r)
        PROVE  [req |-> r, key |-> key[r], cost |-> paid[r]] \in receipts
    <3>1. pc[r] \in Steps /\ kind[r] \in Kinds /\ paid[r] # 0
      BY <2>2 DEF TypeInv, TypeOK
    <3>2. paid[r] = cost[r] /\ kind[r] # "ws"
      BY <2>2 DEF Receipted
    <3>3. pc[r] = "done"
      BY <2>2, <3>1 DEF Admission, NotYetCharged, BetweenChargeAndReceipt, Steps
    <3>4. Written(r)
      BY <2>2, <3>1, <3>2, <3>3 DEF Written, Kinds
    <3> QED
      BY <3>2, <3>4 DEF Receipted, Entry
  <2> QED
    BY <2>1, <2>2 DEF ReceiptsCoverCharges
<1> HIDE DEF I
<1> QED
  BY <1>1, <1>2, <1>3, PTL DEF Spec
-----------------------------------------------------------------------------
(* The refinement of the ledger.  Each step is mapped by what it does to    *)
(* the standing of its request and to the balances.                         *)
Stands == [q \in Requests |-> Standing(q)]

LEMMA LedgerInitMaps == Init => Ledger!LedgerInit
  BY BillingAssumption DEF Init, Ledger!LedgerInit, Standing, BetweenChargeAndReceipt

(* The requests that a step leaves alone keep their standing.               *)
LEMMA StandingKept ==
    ASSUME NEW q \in Requests, UNCHANGED <<pc[q], kind[q], paid[q]>>
    PROVE  Standing(q)' = Standing(q)
  BY DEF Standing, BetweenChargeAndReceipt

LEMMA StandsMoves ==
    ASSUME NEW r \in Requests, NEW s, Standing(r)' = s,
           \A q \in Requests \ {r} : UNCHANGED <<pc[q], kind[q], paid[q]>>
    PROVE  Stands' = [Stands EXCEPT ![r] = s]
<1>1. \A q \in Requests \ {r} : Standing(q)' = Standing(q)
  BY StandingKept
<1>2. Stands' = [q \in Requests |-> Standing(q)']
  BY DEF Stands
<1> QED
  BY <1>1, <1>2 DEF Stands

LEMMA StandsStays ==
    ASSUME UNCHANGED <<pc, kind, paid>>
    PROVE  Stands' = Stands
  BY DEF Stands, Standing, BetweenChargeAndReceipt

LEMMA CreditMaps ==
    ASSUME TypeInv, NEW k \in Accounts, NEW a \in Cents, CreditKey(k, a),
           UNCHANGED <<handlerVars, chargeVars>>
    PROVE  Ledger!LedgerNext
<1>1. Stands' = Stands /\ key' = key
  BY StandsStays DEF handlerVars, chargeVars
<1>2. balance' = [balance EXCEPT ![k] = Plus64(@, a)]
  BY DEF CreditKey, Add
<1>3. Ledger!Credit(k)
  BY <1>1, <1>2 DEF Ledger!Credit, Stands, Ledger!Cents, Cents, Ledger!Plus64, Plus64
<1> QED
  BY <1>3 DEF Ledger!LedgerNext

LEMMA ArriveMaps ==
    ASSUME TypeInv, NEW r \in Requests, NEW k \in Accounts, NEW kd \in Kinds, Arrive(r, k, kd),
           Admission
    PROVE  Ledger!LedgerNext
<1>1. /\ pc[r] = "idle" /\ pc'[r] \in {"call", "check"} /\ paid' = paid /\ paid[r] = 0
      /\ \A q \in Requests \ {r} : UNCHANGED <<pc[q], kind[q], paid[q]>>
      /\ balance' = balance /\ key' = [key EXCEPT ![r] = k]
  BY DEF Arrive, Goto, TypeInv, TypeOK, storeVars, chargeVars, Admission, NotYetCharged
<1>2. Standing(r) = "none" /\ Standing(r)' = "open"
  BY <1>1 DEF Standing, BetweenChargeAndReceipt, Finished
<1>3. Stands' = [Stands EXCEPT ![r] = "open"]
  BY <1>1, <1>2, StandsMoves
<1>4. Ledger!Open(r, k)
  BY <1>1, <1>2, <1>3 DEF Ledger!Open, Stands
<1> QED
  BY <1>4 DEF Ledger!LedgerNext

(* A step of a handler that takes no money leaves its request open, or      *)
(* waives it, or comes after the request was settled.                       *)
LEMMA FreeStepMaps ==
    ASSUME TypeInv, NEW r \in Requests, UNCHANGED <<balance, key>>,
           \A q \in Requests \ {r} : UNCHANGED <<pc[q], kind[q], paid[q]>>,
           \/ Standing(r)' = Standing(r)
           \/ Standing(r) = "open" /\ Standing(r)' = "waived"
    PROVE  Ledger!LedgerNext \/ UNCHANGED Ledger!ledgerVars
<1>1. CASE Standing(r)' = Standing(r)
  <2>1. Stands' = [Stands EXCEPT ![r] = Standing(r)]
    BY <1>1, StandsMoves
  <2>2. Stands' = Stands
    BY <2>1 DEF Stands
  <2> QED
    BY <2>2 DEF Ledger!ledgerVars, Stands
<1>2. CASE Standing(r) = "open" /\ Standing(r)' = "waived"
  <2>1. Stands' = [Stands EXCEPT ![r] = "waived"]
    BY <1>2, StandsMoves
  <2>2. Ledger!Waive(r)
    BY <1>2, <2>1 DEF Ledger!Waive, Stands
  <2> QED
    BY <2>2 DEF Ledger!LedgerNext
<1> QED
  BY <1>1, <1>2

LEMMA DeductMaps ==
    ASSUME TypeInv, Admission, NEW r \in Requests, DeductCost(r)
    PROVE  Ledger!LedgerNext \/ UNCHANGED Ledger!ledgerVars
<1>1. /\ pc[r] = "deduct" /\ paid[r] = 0 /\ key' = key /\ kind' = kind
      /\ pc' = [pc EXCEPT ![r] = IF kind[r] = "stream" THEN "receipt" ELSE "done"]
      /\ paid' = [paid EXCEPT ![r] = Taken(r)]
  BY DEF DeductCost, Goto, Admission, NotYetCharged
<1>2. /\ pc \in [Requests -> Steps] /\ paid \in [Requests -> 0 .. MaxInt64]
      /\ key[r] \in Accounts /\ cost[r] \in 0 .. MaxInt64
  BY DEF TypeInv, TypeOK
<1>3. \A q \in Requests \ {r} : UNCHANGED <<pc[q], kind[q], paid[q]>>
  BY <1>1, <1>2
<1>4. Standing(r) = "open"
  BY <1>1 DEF Standing, BetweenChargeAndReceipt, Finished
<1>5. CASE Taken(r) = 0
  <2>1. balance' = balance
    BY <1>2, <1>5, MaxInt64Assumption DEF DeductCost, Deduct, Taken, Covers
  <2>2. Standing(r)' = "waived"
    BY <1>1, <1>2, <1>5 DEF Standing, BetweenChargeAndReceipt, Finished
  <2> QED
    BY <1>1, <1>3, <1>4, <2>1, <2>2, FreeStepMaps
<1>6. CASE Taken(r) # 0
  <2>1. /\ cost[r] \in Cents /\ Taken(r) = cost[r] /\ cost[r] <= balance[key[r]]
        /\ balance' = [balance EXCEPT ![key[r]] = @ - cost[r]]
    BY <1>2, <1>6, MaxInt64Assumption DEF DeductCost, Deduct, Taken, Covers, Cents, TypeInv, TypeOK,
                                         Balances, Int64
  <2>2. Standing(r)' = "charged"
    BY <1>1, <1>2, <2>1 DEF Standing, Cents
  <2>3. Stands' = [Stands EXCEPT ![r] = "charged"]
    BY <1>3, <2>2, StandsMoves
  <2>4. Ledger!Charge(r)
    BY <1>1, <1>4, <2>1, <2>3 DEF Ledger!Charge, Stands, Ledger!Cents, Cents
  <2> QED
    BY <2>4 DEF Ledger!LedgerNext
<1> QED
  BY <1>5, <1>6

LEMMA HandlerMaps ==
    ASSUME TypeInv, Admission, NEW r \in Requests,
           \/ CheckBalance(r) \/ CoreAnswers(r) \/ NoProviders(r)
           \/ StreamClosesBare(r) \/ CallFails(r) \/ SaveReceipt(r)
    PROVE  Ledger!LedgerNext \/ UNCHANGED Ledger!ledgerVars
<1>1. /\ UNCHANGED <<balance, key, kind, paid>>
      /\ \A q \in Requests \ {r} : UNCHANGED <<pc[q], kind[q], paid[q]>>
  BY DEF CheckBalance, CoreAnswers, NoProviders, StreamClosesBare, CallFails, SaveReceipt, Goto,
         storeVars, chargeVars, TypeInv, TypeOK
<1>2. \/ Standing(r)' = Standing(r)
      \/ Standing(r) = "open" /\ Standing(r)' = "waived"
  <2>1. pc \in [Requests -> Steps] /\ kind[r] \in Kinds /\ paid[r] \in Nat
    BY MaxInt64Assumption DEF TypeInv, TypeOK
  <2>2. CASE pc[r] \in {"check", "call"}
    <3>1. paid[r] = 0
      BY <2>2 DEF Admission, NotYetCharged
    <3>2. /\ pc'[r] \in {"call", "rejected", "receipt", "deduct", "done", "failed"}
          /\ pc'[r] = "receipt" => kind[r] # "stream"
      BY <2>1, <2>2 DEF CheckBalance, CoreAnswers, NoProviders, StreamClosesBare, CallFails,
                        SaveReceipt, Goto, AfterAnswer, AfterReceipt
    <3> QED
      BY <1>1, <2>2, <3>1, <3>2 DEF Standing, BetweenChargeAndReceipt, Finished
  <2>3. CASE pc[r] = "receipt"
    <3>1. pc'[r] = AfterReceipt(kind[r])
      BY <2>1, <2>3 DEF CheckBalance, CoreAnswers, NoProviders, StreamClosesBare, CallFails,
                        SaveReceipt, Goto
    <3> QED
      BY <1>1, <2>1, <2>3, <3>1 DEF Standing, BetweenChargeAndReceipt, Finished, AfterReceipt
  <2> QED
    BY <2>2, <2>3 DEF CheckBalance, CoreAnswers, NoProviders, StreamClosesBare, CallFails, SaveReceipt
<1> QED
  BY <1>1, <1>2, FreeStepMaps

LEMMA LedgerNextMaps ==
    TypeInv /\ Admission /\ [Next]_vars => [Ledger!LedgerNext]_(Ledger!ledgerVars)
<1> SUFFICES ASSUME TypeInv, Admission, [Next]_vars
             PROVE  Ledger!LedgerNext \/ UNCHANGED Ledger!ledgerVars
  OBVIOUS
<1>1. ASSUME NEW r \in Requests, NEW k \in Accounts, NEW kd \in Kinds, Arrive(r, k, kd)
      PROVE  Ledger!LedgerNext
  BY <1>1, ArriveMaps
<1>2. ASSUME NEW r \in Requests, Handler(r)
      PROVE  Ledger!LedgerNext \/ UNCHANGED Ledger!ledgerVars
  BY <1>2, HandlerMaps, DeductMaps DEF Handler
<1>3. ASSUME NEW k \in Keys, NEW a \in Amounts, TopUp(k, a)
      PROVE  Ledger!LedgerNext
  BY <1>3, CreditMaps, BillingAssumption DEF TopUp, Keys
<1>4. ASSUME NEW p \in Payments, NEW type \in EventTypes, Webhook(p, type)
      PROVE  Ledger!LedgerNext \/ UNCHANGED Ledger!ledgerVars
  <2>1. CASE Credits(p, type)
    <3>1. payment[p].amount \in Cents /\ payment[p].key \in Accounts
      BY <2>1 DEF TypeInv, SessionsCarryCents, TypeOK, Credits, Session
    <3> QED
      BY <1>4, <2>1, <3>1, CreditMaps DEF Webhook
  <2>2. CASE ~ Credits(p, type)
    <3>1. UNCHANGED <<balance, key>> /\ Stands' = Stands
      BY <1>4, <2>2, StandsStays DEF Webhook, handlerVars, chargeVars
    <3> QED
      BY <3>1 DEF Ledger!ledgerVars, Stands
  <2> QED
    BY <2>1, <2>2
<1>5. CASE \/ UNCHANGED vars
           \/ \E p \in Payments, k \in Keys, a \in Amounts : Checkout(p, k, a)
           \/ \E p \in Payments : CustomerPays(p)
  <2>1. UNCHANGED <<balance, key>> /\ Stands' = Stands
    BY <1>5, StandsStays DEF vars, Checkout, CustomerPays, storeVars, handlerVars, chargeVars
  <2> QED
    BY <2>1 DEF Ledger!ledgerVars, Stands
<1> QED
  BY <1>1, <1>2, <1>3, <1>4, <1>5 DEF Next

(* The gateway implements the prepaid ledger.                               *)
THEOREM LedgerRefinement == Spec => ImplementsLedger
<1>1. Init => TypeInv /\ Solvent /\ Admission /\ UnpaidOnlyWhenShort
  BY TypeInit, SolventInit, AdmissionInit
<1>2. TypeInv /\ Solvent /\ Admission /\ UnpaidOnlyWhenShort /\ [Next]_vars
        => (TypeInv /\ Solvent /\ Admission /\ UnpaidOnlyWhenShort)'
  BY TypeNext, SolventNext, AdmissionNext
<1>3. Init => Ledger!LedgerInit
  BY LedgerInitMaps
<1>4. TypeInv /\ Admission /\ [Next]_vars => [Ledger!LedgerNext]_(Ledger!ledgerVars)
  BY LedgerNextMaps
<1> QED
  BY <1>1, <1>2, <1>3, <1>4, PTL DEF Spec, ImplementsLedger, Ledger!LedgerSpec
-----------------------------------------------------------------------------
LEMMA CreditsArePaidStep == TypeOK /\ StripeCreditsArePaid /\ [Next]_vars => StripeCreditsArePaid'
<1> SUFFICES ASSUME TypeOK, StripeCreditsArePaid, [Next]_vars PROVE StripeCreditsArePaid'
  OBVIOUS
<1> USE DEF TypeOK, StripeCreditsArePaid, Session
<1>1. ASSUME NEW p \in Payments, NEW k \in Keys, NEW a \in Amounts, Checkout(p, k, a)
      PROVE  StripeCreditsArePaid'
  BY <1>1 DEF Checkout
<1>2. ASSUME NEW p \in Payments, CustomerPays(p) PROVE StripeCreditsArePaid'
  <2>1. PICK step \in {<<"open", "paid">>, <<"open", "unpaid">>, <<"unpaid", "settled">>} :
           /\ payment[p].status = step[1]
           /\ payment' = [payment EXCEPT ![p].status = step[2]]
    BY <1>2 DEF CustomerPays
  <2>2. fromStripe' = fromStripe
    BY <1>2 DEF CustomerPays
  <2>3. payment[p].status \notin {"paid", "settled"}
    BY <2>1
  <2>4. \A q \in Payments \ {p} : payment'[q] = payment[q]
    BY <2>1
  <2> QED
    BY <2>2, <2>3, <2>4
<1>3. ASSUME NEW p \in Payments, NEW type \in EventTypes, Webhook(p, type)
      PROVE  StripeCreditsArePaid'
  BY <1>3 DEF Webhook, Credits
<1>4. ASSUME NEW r \in Requests, Handler(r) PROVE StripeCreditsArePaid'
  BY <1>4 DEF Handler, CheckBalance, CoreAnswers, NoProviders, StreamClosesBare, CallFails,
              SaveReceipt, DeductCost, stripeVars
<1>5. CASE \/ UNCHANGED vars
           \/ \E r \in Requests, k \in Accounts, kd \in Kinds : Arrive(r, k, kd)
           \/ \E k \in Keys, a \in Amounts : TopUp(k, a)
  BY <1>5 DEF vars, Arrive, TopUp, stripeVars
<1> QED
  BY <1>1, <1>2, <1>3, <1>4, <1>5 DEF Next

(* A session credits nothing before its customer paid, in whatever order    *)
(* its events come (handleCheckoutCompleted).                               *)
THEOREM CreditsArePaid == Spec => []StripeCreditsArePaid
<1>1. Init => StripeCreditsArePaid
  BY DEF Init, StripeCreditsArePaid
<1> QED
  BY <1>1, CreditsArePaidStep, TypeCorrect, PTL DEF Spec
=============================================================================
