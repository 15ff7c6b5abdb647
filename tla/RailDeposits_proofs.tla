-------------------------- MODULE RailDeposits_proofs --------------------------
(***************************************************************************)
(* Proofs about RailDeposits, for any loops, transfers, prices and chains.  *)
(***************************************************************************)
EXTENDS RailDeposits, TLAPS

(* A log in hand is one there was, and its address is watched by the loop.  *)
InHand ==
    \A l \in Loops :
        loop[l] \in {"check"} \cup Crediting =>
            log[l] \in logs /\ To[log[l].transfer] \in watch[l]

(* A watched address has an owner.                                          *)
WatchOwned ==
    \A l \in Loops : \A a \in watch[l] \cap Addresses : owner[a] # None

(* The remainder by Word is a natural number below it.                      *)
LEMMA Remainder ==
    ASSUME NEW n \in Int
    PROVE  n % Word \in 0 .. Word - 1 /\ (n \in 0 .. Word - 1 => n % Word = n)
BY DepositsAssumption

LEMMA Quotient ==
    ASSUME NEW n \in Nat
    PROVE  n \div WeiPerCent \in Nat
BY DepositsAssumption

(* Int64 lands in the range of an int64, and keeps what fits.               *)
LEMMA Int64Type ==
    ASSUME NEW n \in Int
    PROVE  /\ Int64(n) \in (Word \div 2) - Word .. (Word \div 2) - 1
           /\ n \in 0 .. (Word \div 2) - 1 => Int64(n) = n
<1>1. Word \in Nat /\ Word > 1 /\ Word \div 2 \in Nat /\ Word \div 2 <= Word
  BY DepositsAssumption
<1>2. n % Word \in 0 .. Word - 1 /\ (n \in 0 .. Word - 1 => n % Word = n)
  BY Remainder
<1> QED
  BY <1>1, <1>2 DEF Int64

(* What a transfer is credited with is a number, and its worth if its       *)
(* amount fits an int64.                                                    *)
LEMMA CentsType ==
    ASSUME NEW x \in Transfers
    PROVE  /\ Cents(x) \in Int
           /\ ToCents(Wei[x]) \in Nat
           /\ ~ Overflows(x) => Cents(x) = ToCents(Wei[x])
<1>1. Wei[x] \in Nat /\ Word \in Nat /\ Word > 1 /\ Word \div 2 \in Nat
  BY DepositsAssumption
<1> DEFINE n == Int64(Wei[x])
<1>2. n \in Int /\ (~ Overflows(x) => n = Wei[x])
  BY <1>1, Int64Type DEF Overflows
<1>3. ToCents(Wei[x]) \in Nat
  BY <1>1, Quotient DEF ToCents
<1>4. CASE n >= 0
  BY <1>2, <1>3, <1>4, Quotient DEF Cents, ToCents
<1>5. CASE ~ (n >= 0)
  <2>1. -n \in Nat /\ Overflows(x)
    BY <1>1, <1>2, <1>5
  <2>2. (-n) \div WeiPerCent \in Nat
    BY <2>1, Quotient
  <2> QED
    BY <1>3, <1>5, <2>1, <2>2 DEF Cents, ToCents
<1> QED
  BY <1>4, <1>5

(* A credit keeps the types of the accounts.                                *)
LEMMA AddCreditsType ==
    ASSUME TypeOK, NEW k \in Accounts, NEW x \in Transfers, AddCredits(k, x)
    PROVE  /\ account' \in [Accounts -> (Word \div 2) - Word .. (Word \div 2) - 1]
           /\ worth' \in [Accounts -> Nat]
           /\ spent' \in [Accounts -> Nat]
           /\ oversized' \subseteq Accounts
<1>1. Cents(x) \in Int /\ ToCents(Wei[x]) \in Nat
  BY CentsType
<1>2. account[k] \in Int
  BY DepositsAssumption DEF TypeOK
<1>3. Int64(account[k] + Cents(x)) \in (Word \div 2) - Word .. (Word \div 2) - 1
  BY <1>1, <1>2, Int64Type
<1> QED
  BY <1>1, <1>3 DEF TypeOK, AddCredits

(* A remainder is not above the number.                                     *)
LEMMA AtMost ==
    ASSUME NEW n \in Nat
    PROVE  n % Word <= n
<1>1. CASE n < Word
  BY <1>1, Remainder, DepositsAssumption
<1>2. CASE ~ (n < Word)
  BY <1>2, Remainder, DepositsAssumption
<1> QED
  BY <1>1, <1>2

LEMMA InitInv == Init => TypeOK /\ InHand /\ WatchOwned
BY DepositsAssumption DEF Init, TypeOK, InHand, WatchOwned, Crediting, Logs, LogKeys, Accounts

LEMMA TypeStep == TypeOK /\ InHand /\ [Next]_vars => TypeOK'
<1> SUFFICES ASSUME TypeOK, InHand, [Next]_vars PROVE TypeOK'
  OBVIOUS
<1> USE DepositsAssumption DEF TypeOK, Logs, Accounts, chainVars, loopVars, accountVars, Crediting, LogKeys
<1>1. ASSUME NEW S \in SUBSET Transfers, NEW i \in Indexes, Mine(S, i) PROVE TypeOK'
  <2>1. logs' \subseteq Logs
    BY <1>1 DEF Mine
  <2>2. head' \in 1 .. MaxHeight /\ confirmed' \subseteq Transfers
    BY <1>1 DEF Mine
  <2>3. mined' \in [Transfers -> 0 .. MaxHeight]
    BY <1>1 DEF Mine
  <2> QED
    BY <1>1, <2>1, <2>2, <2>3 DEF Mine
<1>2. ASSUME NEW h \in 1 .. MaxHeight, Reorganise(h) PROVE TypeOK'
  <2>1. head' \in 1 .. MaxHeight
    BY <1>2 DEF Reorganise
  <2>2. /\ mined' \in [Transfers -> 0 .. MaxHeight]
        /\ moved' \subseteq Transfers /\ undone' \subseteq Transfers /\ confirmed' \subseteq Transfers
    BY <1>2 DEF Reorganise
  <2>3. reorgs' \in 0 .. MaxReorgs
    BY <1>2 DEF Reorganise
  <2> QED
    BY <1>2, <2>1, <2>2, <2>3 DEF Reorganise
<1>3. ASSUME NEW k \in Keys, NEW a \in Addresses, Register(k, a) PROVE TypeOK'
  BY <1>3 DEF Register
<1>4. ASSUME NEW x \in Transfers, NEW k \in Keys, Settle(x, k) PROVE TypeOK'
  <2>1. AddCredits(k, x)
    BY <1>4 DEF Settle
  <2> QED
    BY <1>4, <2>1, AddCreditsType DEF Settle
<1>5. ASSUME NEW k \in Keys, NEW cents \in Costs, Deduct(k, cents) PROVE TypeOK'
  <2>1. /\ cents \in Nat \ {0}
        /\ account[k] \in (Word \div 2) - Word .. (Word \div 2) - 1
        /\ account[k] >= cents
        /\ Word \in Nat /\ Word \div 2 \in Nat /\ Word \div 2 <= Word
    <3>1. account[k] >= cents /\ cents \in Nat \ {0}
      BY <1>5 DEF Deduct, Covers
    <3>2. account[k] \in (Word \div 2) - Word .. (Word \div 2) - 1
      OBVIOUS
    <3>3. Word \in Nat /\ Word \div 2 \in Nat /\ Word \div 2 <= Word
      OBVIOUS
    <3> QED
      BY <3>1, <3>2, <3>3
  <2>2. account[k] - cents \in (Word \div 2) - Word .. (Word \div 2) - 1
    BY <2>1
  <2>3. account' \in [Accounts -> (Word \div 2) - Word .. (Word \div 2) - 1]
    BY <1>5, <2>2 DEF Deduct
  <2>4. spent' \in [Accounts -> Nat]
    BY <1>5, <2>1 DEF Deduct
  <2> QED
    BY <1>5, <2>3, <2>4 DEF Deduct
<1>6. ASSUME NEW l \in Loops, Start(l) PROVE TypeOK'
  <2>1. Watched \in SUBSET (Addresses \cup Hot)
    BY DEF Watched
  <2>2. watch' \in [Loops -> SUBSET (Addresses \cup Hot)]
    BY <1>6, <2>1 DEF Start
  <2>3. loop' \in [Loops -> {"off", "select", "check", "credit", "mark", "ended"}]
    BY <1>6 DEF Start, Goto
  <2>4. late' \subseteq Loops
    BY <1>6 DEF Start
  <2> QED
    BY <1>6, <2>2, <2>3, <2>4 DEF Start
<1>7. ASSUME NEW l \in Loops, Check(l) PROVE TypeOK'
  <2>1. log[l] \in Logs
    BY <1>7 DEF Check, InHand
  <2>2. loop' \in [Loops -> {"off", "select", "check", "credit", "mark", "ended"}]
    BY <1>7 DEF Check, Goto, Return
  <2>3. log' \in [Loops -> Logs \cup {None}]
    BY <1>7 DEF Check, Return
  <2>4. raced' \subseteq Transfers
    BY <1>7, <2>1 DEF Check
  <2> QED
    BY <1>7, <2>2, <2>3, <2>4 DEF Check
<1>8. ASSUME NEW l \in Loops, Credit(l) PROVE TypeOK'
  <2>1. log[l] \in Logs
    BY <1>8 DEF Credit, InHand
  <2>2. Key(log[l]) \in LogKeys /\ Owner(To[log[l].transfer]) \in Accounts
    BY <2>1 DEF Key, Owner
  <2>4. /\ account' \in [Accounts -> (Word \div 2) - Word .. (Word \div 2) - 1]
        /\ worth' \in [Accounts -> Nat] /\ spent' \in [Accounts -> Nat]
        /\ oversized' \subseteq Accounts
    <3>1. log[l].transfer \in Transfers
      BY <2>1
    <3>2. CASE AddCredits(Owner(To[log[l].transfer]), log[l].transfer)
      BY <2>2, <3>1, <3>2, AddCreditsType
    <3>3. CASE UNCHANGED accountVars
      BY <3>3
    <3> QED
      BY <1>8, <3>2, <3>3 DEF Credit
  <2>5. paid' \in [Accounts -> [LogKeys -> Nat]]
    <3> DEFINE k == Owner(To[log[l].transfer])
               e == Key(log[l])
    <3>1. paid' = [paid EXCEPT ![k][e] = paid[k][e] + 1] \/ paid' = paid
      BY <1>8 DEF Credit
    <3>2. k \in Accounts /\ e \in LogKeys /\ paid \in [Accounts -> [LogKeys -> Nat]]
      BY <2>2
    <3> HIDE DEF k, e, LogKeys, Accounts
    <3>3. paid[k] \in [LogKeys -> Nat]
      BY <3>2
    <3>4. [paid[k] EXCEPT ![e] = paid[k][e] + 1] \in [LogKeys -> Nat]
      BY <3>2, <3>3
    <3> QED
      BY <3>1, <3>2, <3>4
  <2> QED
    BY <1>8, <2>4, <2>5 DEF Credit, Goto, Return
<1>9. ASSUME NEW l \in Loops, MarkProcessed(l) PROVE TypeOK'
  <2>1. log[l] \in Logs
    BY <1>9 DEF MarkProcessed, InHand
  <2>2. Key(log[l]) \in LogKeys
    BY <2>1 DEF Key
  <2> QED
    BY <1>9, <2>2 DEF MarkProcessed, Goto, Return
<1>10. ASSUME NEW l \in Loops, Exit(l) PROVE TypeOK'
  BY <1>10 DEF Exit, Goto
<1>11. ASSUME NEW l \in Loops, NEW entry \in logs, Receive(l, entry) PROVE TypeOK'
  <2>1. deliveries' \in 0 .. MaxDeliveries
    BY <1>11 DEF Receive
  <2>2. loop' \in [Loops -> {"off", "select", "check", "credit", "mark", "ended"}]
    BY <1>11 DEF Receive, Goto
  <2>3. log' \in [Loops -> Logs \cup {None}] /\ misled' \subseteq Transfers
    BY <1>11 DEF Receive
  <2>4. UNCHANGED <<chainVars, watch, late, accountVars, owner, processed, settled, stop, raced>>
    BY <1>11 DEF Receive
  <2> QED
    BY <2>1, <2>2, <2>3, <2>4
<1>12. CASE CloseStop
  BY <1>12 DEF CloseStop
<1>13. CASE StopReturns
  BY <1>13 DEF StopReturns
<1>14. CASE UNCHANGED vars
  BY <1>14 DEF vars
<1> QED
  BY <1>1, <1>2, <1>3, <1>4, <1>5, <1>6, <1>7, <1>8, <1>9, <1>10, <1>11, <1>12, <1>13, <1>14 DEF Next, Handle

LEMMA InHandStep == TypeOK /\ InHand /\ [Next]_vars => InHand'
<1> SUFFICES ASSUME TypeOK, InHand, [Next]_vars PROVE InHand'
  OBVIOUS
<1> USE DepositsAssumption DEF TypeOK, Logs, Accounts, chainVars, loopVars, accountVars, Crediting
<1>1. ASSUME NEW S \in SUBSET Transfers, NEW i \in Indexes, Mine(S, i) PROVE InHand'
  BY <1>1 DEF Mine, InHand
<1>2. ASSUME NEW h \in 1 .. MaxHeight, Reorganise(h) PROVE InHand'
  BY <1>2 DEF Reorganise, InHand
<1>3. ASSUME NEW k \in Keys, NEW a \in Addresses, Register(k, a) PROVE InHand'
  BY <1>3 DEF Register, InHand
<1>4. ASSUME NEW x \in Transfers, NEW k \in Keys, Settle(x, k) PROVE InHand'
  BY <1>4 DEF Settle, InHand
<1>5. ASSUME NEW k \in Keys, NEW cents \in Costs, Deduct(k, cents) PROVE InHand'
  BY <1>5 DEF Deduct, InHand
<1>6. ASSUME NEW l \in Loops, Start(l) PROVE InHand'
  BY <1>6 DEF Start, Goto, InHand
<1>7. ASSUME NEW l \in Loops, Check(l) PROVE InHand'
  BY <1>7 DEF Check, Goto, Return, InHand
<1>8. ASSUME NEW l \in Loops, Credit(l) PROVE InHand'
  BY <1>8 DEF Credit, Goto, Return, InHand
<1>9. ASSUME NEW l \in Loops, MarkProcessed(l) PROVE InHand'
  BY <1>9 DEF MarkProcessed, Goto, Return, InHand
<1>10. ASSUME NEW l \in Loops, Exit(l) PROVE InHand'
  BY <1>10 DEF Exit, Goto, InHand
<1>11. ASSUME NEW l \in Loops, NEW entry \in logs, Receive(l, entry) PROVE InHand'
  BY <1>11 DEF Receive, Goto, InHand
<1>12. CASE CloseStop
  BY <1>12 DEF CloseStop, InHand
<1>13. CASE StopReturns
  BY <1>13 DEF StopReturns, InHand
<1>14. CASE UNCHANGED vars
  BY <1>14 DEF vars, InHand
<1> QED
  BY <1>1, <1>2, <1>3, <1>4, <1>5, <1>6, <1>7, <1>8, <1>9, <1>10, <1>11, <1>12, <1>13, <1>14 DEF Next, Handle

LEMMA WatchOwnedStep == TypeOK /\ WatchOwned /\ [Next]_vars => WatchOwned'
<1> SUFFICES ASSUME TypeOK, WatchOwned, [Next]_vars PROVE WatchOwned'
  OBVIOUS
<1> USE DepositsAssumption DEF TypeOK, Logs, Accounts, chainVars, loopVars, accountVars
<1>1. ASSUME NEW S \in SUBSET Transfers, NEW i \in Indexes, Mine(S, i) PROVE WatchOwned'
  BY <1>1 DEF Mine, WatchOwned
<1>2. ASSUME NEW h \in 1 .. MaxHeight, Reorganise(h) PROVE WatchOwned'
  BY <1>2 DEF Reorganise, WatchOwned
<1>3. ASSUME NEW k \in Keys, NEW a \in Addresses, Register(k, a) PROVE WatchOwned'
  BY <1>3 DEF Register, WatchOwned
<1>4. ASSUME NEW x \in Transfers, NEW k \in Keys, Settle(x, k) PROVE WatchOwned'
  BY <1>4 DEF Settle, WatchOwned
<1>5. ASSUME NEW k \in Keys, NEW cents \in Costs, Deduct(k, cents) PROVE WatchOwned'
  BY <1>5 DEF Deduct, WatchOwned
<1>6. ASSUME NEW l \in Loops, Start(l) PROVE WatchOwned'
  <2>1. \A a \in Watched \cap Addresses : owner[a] # None
    BY DEF Watched
  <2> QED
    BY <1>6, <2>1 DEF Start, Goto, WatchOwned
<1>7. ASSUME NEW l \in Loops, Check(l) PROVE WatchOwned'
  BY <1>7 DEF Check, Goto, Return, WatchOwned
<1>8. ASSUME NEW l \in Loops, Credit(l) PROVE WatchOwned'
  BY <1>8 DEF Credit, Goto, Return, WatchOwned
<1>9. ASSUME NEW l \in Loops, MarkProcessed(l) PROVE WatchOwned'
  BY <1>9 DEF MarkProcessed, Goto, Return, WatchOwned
<1>10. ASSUME NEW l \in Loops, Exit(l) PROVE WatchOwned'
  BY <1>10 DEF Exit, Goto, WatchOwned
<1>11. ASSUME NEW l \in Loops, NEW entry \in logs, Receive(l, entry) PROVE WatchOwned'
  BY <1>11 DEF Receive, Goto, WatchOwned
<1>12. CASE CloseStop
  BY <1>12 DEF CloseStop, WatchOwned
<1>13. CASE StopReturns
  BY <1>13 DEF StopReturns, WatchOwned
<1>14. CASE UNCHANGED vars
  BY <1>14 DEF vars, WatchOwned
<1> QED
  BY <1>1, <1>2, <1>3, <1>4, <1>5, <1>6, <1>7, <1>8, <1>9, <1>10, <1>11, <1>12, <1>13, <1>14 DEF Next, Handle

(* A log that was credited is marked or about to be, unless two loops       *)
(* credit its transfer at once.                                             *)
Marked ==
    \A k \in Accounts : \A e \in LogKeys :
        e[1] \notin raced /\ paid[k][e] > 0 =>
            /\ paid[k][e] = 1
            /\ e \in processed \/ \E l \in Loops : loop[l] = "mark" /\ Key(log[l]) = e

(* A log that is about to be credited was not yet.                          *)
Clean ==
    \A l \in Loops :
        loop[l] = "credit" /\ log[l].transfer \notin raced =>
            /\ Key(log[l]) \notin processed
            /\ \A k \in Accounts : paid[k][Key(log[l])] = 0

(* Two loops with the same log, both past the tracker, are known as rivals. *)
Alone ==
    \A l, r \in Loops :
        (l # r /\ loop[l] \in Crediting /\ loop[r] \in Crediting /\ Key(log[l]) = Key(log[r]))
            => log[l].transfer \in raced

(* Until a transfer is reorganised it has one log, which stays on the chain. *)
Steady ==
    /\ \A e \in logs : e.transfer \notin moved => mined[e.transfer] # 0
    /\ \A e1, e2 \in logs :
          e1.transfer = e2.transfer /\ e1.transfer \notin moved => e1.index = e2.index

(* Only logs are credited.                                                  *)
PaidLogged ==
    \A k \in Accounts : \A e \in LogKeys :
        paid[k][e] > 0 => \E g \in logs : Key(g) = e

(* A transfer that lies deep enough has had its confirmations; one that had *)
(* them is where it was.                                                    *)
Buried ==
    /\ \A x \in Transfers : mined[x] # 0 /\ mined[x] + Confirmations <= head => x \in confirmed
    /\ \A x \in confirmed : mined[x] # 0

(* What a loop takes to the tracker had its confirmations, or misled it.    *)
HeldFirm ==
    \A l \in Loops :
        loop[l] \in {"check"} \cup Crediting => log[l].transfer \in confirmed \cup undone \cup misled

(* So had what the loops credited.                                          *)
PaidFirm ==
    \A k \in Accounts : \A e \in LogKeys :
        paid[k][e] > 0 => e[1] \in confirmed \cup undone \cup misled

Inv ==
    /\ TypeOK /\ InHand /\ WatchOwned
    /\ OwnersOnly /\ AccountsAddUp /\ StoppedIsQuiet
    /\ Buried /\ HeldFirm /\ PaidFirm
    /\ Marked /\ Clean /\ Alone /\ Steady /\ PaidLogged

LEMMA RestInit ==
    Init => /\ OwnersOnly /\ AccountsAddUp /\ StoppedIsQuiet
            /\ Buried /\ HeldFirm /\ PaidFirm
            /\ Marked /\ Clean /\ Alone /\ Steady /\ PaidLogged
BY DEF Init, OwnersOnly, AccountsAddUp, StoppedIsQuiet, Buried, HeldFirm, PaidFirm, Marked, Clean,
       Alone, Steady, PaidLogged, Crediting

(* What a step that credits does to the record of the credits.              *)
LEMMA CreditDoes ==
    ASSUME TypeOK, InHand, WatchOwned, NEW l \in Loops, Credit(l),
           NEW k \in Accounts, NEW e \in LogKeys
    PROVE  /\ log[l] \in Logs /\ log[l] \in logs
           /\ Key(log[l]) \in LogKeys
           /\ paid[k][e] \in Nat
           /\ paid'[k][e] \in {paid[k][e], paid[k][e] + 1}
           /\ paid'[k][e] # paid[k][e] =>
                 /\ k = Owner(To[log[l].transfer])
                 /\ e = Key(log[l])
                 /\ loop' = [loop EXCEPT ![l] = "mark"] /\ log' = log
<1> USE DepositsAssumption
<1> DEFINE o == Owner(To[log[l].transfer])
           g == Key(log[l])
<1>1. log[l] \in logs /\ log[l] \in Logs
  BY DEF Credit, InHand, TypeOK, Crediting
<1>2. g \in LogKeys /\ o \in Accounts
  BY <1>1 DEF Logs, LogKeys, Key, Owner, Accounts, TypeOK
<1>3. paid \in [Accounts -> [LogKeys -> Nat]]
  BY DEF TypeOK
<1>4. \/ /\ paid' = [paid EXCEPT ![o][g] = @ + 1]
         /\ loop' = [loop EXCEPT ![l] = "mark"] /\ log' = log
      \/ paid' = paid
  BY DEF Credit, Goto, accountVars
<1> HIDE DEF o, g
<1>5. paid[k] \in [LogKeys -> Nat] /\ paid[o] \in [LogKeys -> Nat]
  BY <1>2, <1>3
<1>6. CASE paid' = paid
  BY <1>1, <1>2, <1>3, <1>5, <1>6 DEF o, g
<1>7. CASE /\ paid' = [paid EXCEPT ![o][g] = @ + 1]
           /\ loop' = [loop EXCEPT ![l] = "mark"] /\ log' = log
  <2>1. paid'[o] = [paid[o] EXCEPT ![g] = paid[o][g] + 1]
    BY <1>2, <1>3, <1>7
  <2>2. paid'[o][g] = paid[o][g] + 1 /\ paid[o][g] \in Nat
    BY <2>1, <1>2, <1>5
  <2>3. k # o \/ e # g => paid'[k][e] = paid[k][e]
    <3>1. CASE k # o
      BY <3>1, <1>2, <1>3, <1>7
    <3>2. CASE k = o /\ e # g
      BY <3>2, <2>1, <1>2, <1>5
    <3> QED
      BY <3>1, <3>2
  <2>4. paid[k][e] \in Nat
    BY <1>5
  <2> QED
    BY <1>1, <1>2, <1>7, <2>2, <2>3, <2>4 DEF o, g
<1> QED
  BY <1>4, <1>6, <1>7

LEMMA OwnersStep == TypeOK /\ InHand /\ WatchOwned /\ OwnersOnly /\ [Next]_vars => OwnersOnly'
<1> SUFFICES ASSUME TypeOK, InHand, WatchOwned, OwnersOnly, [Next]_vars PROVE OwnersOnly'
  OBVIOUS
<1> USE DepositsAssumption DEF TypeOK, Logs, Accounts, chainVars, loopVars, accountVars
<1>1. ASSUME NEW S \in SUBSET Transfers, NEW i \in Indexes, Mine(S, i) PROVE OwnersOnly'
  BY <1>1 DEF Mine, OwnersOnly
<1>2. ASSUME NEW h \in 1 .. MaxHeight, Reorganise(h) PROVE OwnersOnly'
  BY <1>2 DEF Reorganise, OwnersOnly
<1>3. ASSUME NEW k \in Keys, NEW a \in Addresses, Register(k, a) PROVE OwnersOnly'
  BY <1>3 DEF Register, OwnersOnly
<1>4. ASSUME NEW x \in Transfers, NEW k \in Keys, Settle(x, k) PROVE OwnersOnly'
  BY <1>4 DEF Settle, OwnersOnly
<1>5. ASSUME NEW k \in Keys, NEW cents \in Costs, Deduct(k, cents) PROVE OwnersOnly'
  BY <1>5 DEF Deduct, OwnersOnly
<1>6. ASSUME NEW l \in Loops, Start(l) PROVE OwnersOnly'
  BY <1>6 DEF Start, Goto, OwnersOnly
<1>7. ASSUME NEW l \in Loops, Check(l) PROVE OwnersOnly'
  BY <1>7 DEF Check, Goto, Return, OwnersOnly
<1>8. ASSUME NEW l \in Loops, Credit(l) PROVE OwnersOnly'
  <2> SUFFICES ASSUME NEW k \in Accounts, NEW e \in LogKeys, paid'[k][e] > 0
               PROVE  IF To[e[1]] \in Addresses THEN k = owner'[To[e[1]]] ELSE k = HotKey
    BY DEF OwnersOnly
  <2>1. owner' = owner
    BY <1>8 DEF Credit
  <2>2. CASE paid'[k][e] = paid[k][e]
    BY <2>1, <2>2 DEF OwnersOnly
  <2>3. CASE paid'[k][e] # paid[k][e]
    <3>1. /\ k = Owner(To[log[l].transfer])
          /\ e = Key(log[l])
      BY <1>8, <2>3, CreditDoes
    <3>2. To[log[l].transfer] \in Addresses => owner[To[log[l].transfer]] # None
      BY <1>8 DEF Credit, InHand, WatchOwned, Crediting
    <3> QED
      BY <2>1, <3>1, <3>2 DEF Owner, Key
  <2> QED
    BY <2>2, <2>3
<1>9. ASSUME NEW l \in Loops, MarkProcessed(l) PROVE OwnersOnly'
  BY <1>9 DEF MarkProcessed, Goto, Return, OwnersOnly
<1>10. ASSUME NEW l \in Loops, Exit(l) PROVE OwnersOnly'
  BY <1>10 DEF Exit, Goto, OwnersOnly
<1>11. ASSUME NEW l \in Loops, NEW entry \in logs, Receive(l, entry) PROVE OwnersOnly'
  BY <1>11 DEF Receive, Goto, OwnersOnly
<1>12. CASE CloseStop
  BY <1>12 DEF CloseStop, OwnersOnly
<1>13. CASE StopReturns
  BY <1>13 DEF StopReturns, OwnersOnly
<1>14. CASE UNCHANGED vars
  BY <1>14 DEF vars, OwnersOnly
<1> QED
  BY <1>1, <1>2, <1>3, <1>4, <1>5, <1>6, <1>7, <1>8, <1>9, <1>10, <1>11, <1>12, <1>13, <1>14 DEF Next, Handle

(* What had its confirmations is remembered.                                *)
LEMMA Remembered ==
    ASSUME TypeOK, [Next]_vars
    PROVE  confirmed \cup undone \cup misled \subseteq confirmed' \cup undone' \cup misled'
<1> USE DEF chainVars, loopVars, accountVars
<1>1. ASSUME NEW S \in SUBSET Transfers, NEW i \in Indexes, Mine(S, i)
      PROVE  confirmed \subseteq confirmed' /\ undone' = undone /\ misled' = misled
  BY <1>1 DEF Mine
<1>2. ASSUME NEW h \in 1 .. MaxHeight, Reorganise(h)
      PROVE  confirmed \cup undone \subseteq confirmed' \cup undone' /\ misled' = misled
  BY <1>2 DEF Reorganise
<1>3. ASSUME NEW l \in Loops, NEW entry \in logs, Receive(l, entry)
      PROVE  confirmed' = confirmed /\ undone' = undone /\ misled \subseteq misled'
  BY <1>3 DEF Receive
<1> QED
  BY <1>1, <1>2, <1>3 DEF Next, Handle, Register, Settle, Deduct, Start, Check, Credit, MarkProcessed,
     Exit, CloseStop, StopReturns, vars

LEMMA BuriedStep == TypeOK /\ Buried /\ [Next]_vars => Buried'
<1> SUFFICES ASSUME TypeOK, Buried, [Next]_vars PROVE Buried'
  OBVIOUS
<1> USE DepositsAssumption DEF TypeOK, Logs, Accounts, chainVars, loopVars, accountVars
<1>1. ASSUME NEW S \in SUBSET Transfers, NEW i \in Indexes, Mine(S, i) PROVE Buried'
  <2>1. /\ mined' = [x \in Transfers |-> IF x \in S THEN head + 1 ELSE mined[x]]
        /\ head' = head + 1
        /\ confirmed' = confirmed \cup
              {x \in Transfers : mined'[x] # 0 /\ mined'[x] + Confirmations <= head + 1}
    BY <1>1 DEF Mine
  <2>2. \A x \in confirmed : mined'[x] # 0
    BY <2>1 DEF Buried
  <2> QED
    BY <2>1, <2>2 DEF Buried
<1>2. ASSUME NEW h \in 1 .. MaxHeight, Reorganise(h) PROVE Buried'
  <2>1. /\ mined' = [x \in Transfers |-> IF mined[x] > h THEN 0 ELSE mined[x]]
        /\ head' = h /\ h <= head /\ head \in Nat /\ Confirmations \in Nat
        /\ confirmed' = confirmed \ {x \in Transfers : mined[x] > h}
    BY <1>2 DEF Reorganise
  <2>2. \A x \in Transfers : mined[x] \in Nat
    OBVIOUS
  <2>3. ASSUME NEW x \in Transfers, mined'[x] # 0, mined'[x] + Confirmations <= head'
        PROVE  x \in confirmed'
    <3>1. mined'[x] = mined[x] /\ ~ (mined[x] > h)
      BY <2>1, <2>3
    <3>2. mined[x] + Confirmations <= head
      BY <2>1, <2>2, <2>3, <3>1
    <3> QED
      BY <2>1, <2>3, <3>1, <3>2 DEF Buried
  <2>4. \A x \in confirmed' : mined'[x] # 0
    BY <2>1 DEF Buried
  <2> QED
    BY <2>3, <2>4 DEF Buried
<1>3. ASSUME NEW k \in Keys, NEW a \in Addresses, Register(k, a) PROVE Buried'
  BY <1>3 DEF Register, Buried
<1>4. ASSUME NEW x \in Transfers, NEW k \in Keys, Settle(x, k) PROVE Buried'
  BY <1>4 DEF Settle, Buried
<1>5. ASSUME NEW k \in Keys, NEW cents \in Costs, Deduct(k, cents) PROVE Buried'
  BY <1>5 DEF Deduct, Buried
<1>6. ASSUME NEW l \in Loops, Start(l) PROVE Buried'
  BY <1>6 DEF Start, Goto, Buried
<1>7. ASSUME NEW l \in Loops, Check(l) PROVE Buried'
  BY <1>7 DEF Check, Goto, Return, Buried
<1>8. ASSUME NEW l \in Loops, Credit(l) PROVE Buried'
  BY <1>8 DEF Credit, Goto, Return, Buried
<1>9. ASSUME NEW l \in Loops, MarkProcessed(l) PROVE Buried'
  BY <1>9 DEF MarkProcessed, Goto, Return, Buried
<1>10. ASSUME NEW l \in Loops, Exit(l) PROVE Buried'
  BY <1>10 DEF Exit, Goto, Buried
<1>11. ASSUME NEW l \in Loops, NEW entry \in logs, Receive(l, entry) PROVE Buried'
  BY <1>11 DEF Receive, Goto, Buried
<1>12. CASE CloseStop
  BY <1>12 DEF CloseStop, Buried
<1>13. CASE StopReturns
  BY <1>13 DEF StopReturns, Buried
<1>14. CASE UNCHANGED vars
  BY <1>14 DEF vars, Buried
<1> QED
  BY <1>1, <1>2, <1>3, <1>4, <1>5, <1>6, <1>7, <1>8, <1>9, <1>10, <1>11, <1>12, <1>13, <1>14 DEF Next, Handle

LEMMA HeldFirmStep == TypeOK /\ InHand /\ Buried /\ HeldFirm /\ [Next]_vars => HeldFirm'
<1> SUFFICES ASSUME TypeOK, InHand, Buried, HeldFirm, [Next]_vars PROVE HeldFirm'
  OBVIOUS
<1> USE DepositsAssumption DEF TypeOK, Logs, Accounts, chainVars, loopVars, accountVars, Crediting
<1>1. ASSUME NEW S \in SUBSET Transfers, NEW i \in Indexes, Mine(S, i) PROVE HeldFirm'
  BY <1>1, Remembered DEF Mine, HeldFirm
<1>2. ASSUME NEW h \in 1 .. MaxHeight, Reorganise(h) PROVE HeldFirm'
  BY <1>2, Remembered DEF Reorganise, HeldFirm
<1>3. ASSUME NEW k \in Keys, NEW a \in Addresses, Register(k, a) PROVE HeldFirm'
  BY <1>3 DEF Register, HeldFirm
<1>4. ASSUME NEW x \in Transfers, NEW k \in Keys, Settle(x, k) PROVE HeldFirm'
  BY <1>4 DEF Settle, HeldFirm
<1>5. ASSUME NEW k \in Keys, NEW cents \in Costs, Deduct(k, cents) PROVE HeldFirm'
  BY <1>5 DEF Deduct, HeldFirm
<1>6. ASSUME NEW l \in Loops, Start(l) PROVE HeldFirm'
  BY <1>6 DEF Start, Goto, HeldFirm
<1>7. ASSUME NEW l \in Loops, Check(l) PROVE HeldFirm'
  BY <1>7 DEF Check, Goto, Return, HeldFirm
<1>8. ASSUME NEW l \in Loops, Credit(l) PROVE HeldFirm'
  BY <1>8 DEF Credit, Goto, Return, HeldFirm
<1>9. ASSUME NEW l \in Loops, MarkProcessed(l) PROVE HeldFirm'
  BY <1>9 DEF MarkProcessed, Goto, Return, HeldFirm
<1>10. ASSUME NEW l \in Loops, Exit(l) PROVE HeldFirm'
  BY <1>10 DEF Exit, Goto, HeldFirm
<1>11. ASSUME NEW l \in Loops, NEW entry \in logs, Receive(l, entry) PROVE HeldFirm'
  <2> SUFFICES ASSUME NEW r \in Loops, loop'[r] \in {"check"} \cup Crediting
               PROVE  log'[r].transfer \in confirmed' \cup undone' \cup misled'
    BY DEF HeldFirm
  <2>1. UNCHANGED <<confirmed, undone>> /\ entry \in Logs /\ misled \subseteq misled'
    BY <1>11 DEF Receive
  <2>2. CASE UNCHANGED <<loop, log, misled>>
    BY <2>1, <2>2 DEF HeldFirm
  <2>3. ASSUME NEW header \in 0 .. head,
               ConfirmationsOf(header, entry.block) >= Confirmations,
               Goto(l, "check"),
               log' = [log EXCEPT ![l] = entry],
               misled' = IF header < entry.block \/ mined[entry.transfer] # entry.block
                         THEN misled \cup {entry.transfer} ELSE misled
        PROVE  log'[r].transfer \in confirmed' \cup undone' \cup misled'
    <3>1. CASE r # l
      BY <2>1, <2>3, <3>1 DEF HeldFirm, Goto
    <3>2. CASE r = l /\ (header < entry.block \/ mined[entry.transfer] # entry.block)
      BY <2>3, <3>2
    <3>3. CASE r = l /\ header >= entry.block /\ mined[entry.transfer] = entry.block
      <4>1. header - entry.block \in Nat
        BY <2>1, <2>3, <3>3
      <4>2. (header - entry.block) % Word <= header - entry.block
        BY <4>1, AtMost
      <4>3. entry.block + Confirmations <= header
        BY <2>1, <2>3, <4>1, <4>2, Remainder DEF ConfirmationsOf
      <4>4. entry.transfer \in confirmed
        BY <2>1, <2>3, <3>3, <4>3 DEF Buried
      <4> QED
        BY <2>1, <2>3, <3>3, <4>4
    <3> QED
      BY <2>1, <2>3, <3>1, <3>2, <3>3
  <2> QED
    BY <1>11, <2>2, <2>3 DEF Receive
<1>12. CASE CloseStop
  BY <1>12 DEF CloseStop, HeldFirm
<1>13. CASE StopReturns
  BY <1>13 DEF StopReturns, HeldFirm
<1>14. CASE UNCHANGED vars
  BY <1>14 DEF vars, HeldFirm
<1> QED
  BY <1>1, <1>2, <1>3, <1>4, <1>5, <1>6, <1>7, <1>8, <1>9, <1>10, <1>11, <1>12, <1>13, <1>14 DEF Next, Handle

LEMMA PaidFirmStep == TypeOK /\ InHand /\ WatchOwned /\ HeldFirm /\ PaidFirm /\ [Next]_vars => PaidFirm'
<1> SUFFICES ASSUME TypeOK, InHand, WatchOwned, HeldFirm, PaidFirm, [Next]_vars PROVE PaidFirm'
  OBVIOUS
<1> USE DepositsAssumption DEF TypeOK, Logs, Accounts, chainVars, loopVars, accountVars
<1>1. ASSUME NEW S \in SUBSET Transfers, NEW i \in Indexes, Mine(S, i) PROVE PaidFirm'
  BY <1>1, Remembered DEF Mine, PaidFirm
<1>2. ASSUME NEW h \in 1 .. MaxHeight, Reorganise(h) PROVE PaidFirm'
  BY <1>2, Remembered DEF Reorganise, PaidFirm
<1>3. ASSUME NEW k \in Keys, NEW a \in Addresses, Register(k, a) PROVE PaidFirm'
  BY <1>3 DEF Register, PaidFirm, Key
<1>4. ASSUME NEW x \in Transfers, NEW k \in Keys, Settle(x, k) PROVE PaidFirm'
  BY <1>4 DEF Settle, PaidFirm, Key
<1>5. ASSUME NEW k \in Keys, NEW cents \in Costs, Deduct(k, cents) PROVE PaidFirm'
  BY <1>5 DEF Deduct, PaidFirm, Key
<1>6. ASSUME NEW l \in Loops, Start(l) PROVE PaidFirm'
  BY <1>6 DEF Start, Goto, PaidFirm, Key
<1>7. ASSUME NEW l \in Loops, Check(l) PROVE PaidFirm'
  BY <1>7 DEF Check, Goto, Return, PaidFirm, Key
<1>8. ASSUME NEW l \in Loops, Credit(l) PROVE PaidFirm'
  <2> SUFFICES ASSUME NEW k \in Accounts, NEW e \in LogKeys, paid'[k][e] > 0
               PROVE  e[1] \in confirmed' \cup undone' \cup misled'
    BY DEF PaidFirm
  <2>1. UNCHANGED <<confirmed, undone, misled>>
    BY <1>8 DEF Credit
  <2>2. CASE paid'[k][e] = paid[k][e]
    BY <2>1, <2>2 DEF PaidFirm
  <2>3. CASE paid'[k][e] # paid[k][e]
    <3>1. e = Key(log[l]) /\ log[l].transfer \in confirmed \cup undone \cup misled
      BY <1>8, <2>3, CreditDoes DEF Credit, HeldFirm, Crediting
    <3> QED
      BY <2>1, <3>1 DEF Key
  <2> QED
    BY <2>2, <2>3
<1>9. ASSUME NEW l \in Loops, MarkProcessed(l) PROVE PaidFirm'
  BY <1>9 DEF MarkProcessed, Goto, Return, PaidFirm, Key
<1>10. ASSUME NEW l \in Loops, Exit(l) PROVE PaidFirm'
  BY <1>10 DEF Exit, Goto, PaidFirm, Key
<1>11. ASSUME NEW l \in Loops, NEW entry \in logs, Receive(l, entry) PROVE PaidFirm'
  BY <1>11, Remembered DEF Receive, PaidFirm
<1>12. CASE CloseStop
  BY <1>12 DEF CloseStop, PaidFirm, Key
<1>13. CASE StopReturns
  BY <1>13 DEF StopReturns, PaidFirm, Key
<1>14. CASE UNCHANGED vars
  BY <1>14 DEF vars, PaidFirm, Key
<1> QED
  BY <1>1, <1>2, <1>3, <1>4, <1>5, <1>6, <1>7, <1>8, <1>9, <1>10, <1>11, <1>12, <1>13, <1>14 DEF Next, Handle

(* A credit keeps the sum: an amount that fits an int64 is credited as it   *)
(* is, and a total that fits one is not cut.                                *)
LEMMA AddCreditsAddsUp ==
    ASSUME TypeOK, AccountsAddUp, NEW k \in Accounts, NEW x \in Transfers, AddCredits(k, x)
    PROVE  AccountsAddUp'
<1> SUFFICES ASSUME NEW q \in Accounts, q \notin oversized', worth'[q] < Word \div 2
             PROVE  account'[q] = worth'[q] - spent'[q] /\ spent'[q] <= worth'[q]
  BY DEF AccountsAddUp
<1>1. /\ account[q] \in Int /\ worth[q] \in Nat /\ spent[q] \in Nat
      /\ Word \in Nat /\ Word \div 2 \in Nat
  BY DepositsAssumption DEF TypeOK
<1>2. q \notin oversized /\ spent' = spent
  BY DEF AddCredits
<1>3. CASE q # k
  <2>1. account'[q] = account[q] /\ worth'[q] = worth[q]
    BY <1>3 DEF AddCredits, TypeOK
  <2> QED
    BY <1>2, <2>1 DEF AccountsAddUp
<1>4. CASE q = k
  <2> DEFINE c == ToCents(Wei[x])
  <2>1. ~ Overflows(x)
    BY <1>4 DEF AddCredits
  <2>2. Cents(x) = c /\ c \in Nat
    BY <2>1, CentsType
  <2>3. account'[q] = Int64(account[q] + Cents(x)) /\ worth'[q] = worth[q] + c
    BY <1>4 DEF AddCredits, TypeOK
  <2> HIDE DEF c
  <2>4. account[q] = worth[q] - spent[q] /\ spent[q] <= worth[q]
    BY <1>1, <1>2, <2>2, <2>3 DEF AccountsAddUp
  <2>5. account[q] + c \in 0 .. (Word \div 2) - 1
    BY <1>1, <2>2, <2>3, <2>4
  <2>6. Int64(account[q] + c) = account[q] + c
    BY <2>5, Int64Type
  <2> QED
    BY <1>1, <1>2, <2>2, <2>3, <2>4, <2>6
<1> QED
  BY <1>3, <1>4

LEMMA AddUpStep == TypeOK /\ InHand /\ AccountsAddUp /\ [Next]_vars => AccountsAddUp'
<1> SUFFICES ASSUME TypeOK, InHand, AccountsAddUp, [Next]_vars PROVE AccountsAddUp'
  OBVIOUS
<1> USE DepositsAssumption DEF TypeOK, Logs, Accounts, chainVars, loopVars, accountVars
<1>1. ASSUME NEW S \in SUBSET Transfers, NEW i \in Indexes, Mine(S, i) PROVE AccountsAddUp'
  BY <1>1 DEF Mine, AccountsAddUp
<1>2. ASSUME NEW h \in 1 .. MaxHeight, Reorganise(h) PROVE AccountsAddUp'
  BY <1>2 DEF Reorganise, AccountsAddUp
<1>3. ASSUME NEW k \in Keys, NEW a \in Addresses, Register(k, a) PROVE AccountsAddUp'
  BY <1>3 DEF Register, AccountsAddUp
<1>4. ASSUME NEW x \in Transfers, NEW k \in Keys, Settle(x, k) PROVE AccountsAddUp'
  BY <1>4, AddCreditsAddsUp DEF Settle
<1>5. ASSUME NEW k \in Keys, NEW cents \in Costs, Deduct(k, cents) PROVE AccountsAddUp'
  <2> SUFFICES ASSUME NEW q \in Accounts, q \notin oversized', worth'[q] < Word \div 2
               PROVE  account'[q] = worth'[q] - spent'[q] /\ spent'[q] <= worth'[q]
    BY DEF AccountsAddUp
  <2>1. UNCHANGED <<worth, oversized>> /\ account[k] >= cents /\ cents \in Nat
    BY <1>5 DEF Deduct, Covers
  <2>2. account[q] = worth[q] - spent[q] /\ spent[q] <= worth[q]
    BY <2>1 DEF AccountsAddUp
  <2>3. worth[q] \in Nat /\ spent[q] \in Nat
    OBVIOUS
  <2>4. CASE q # k
    BY <1>5, <2>1, <2>2, <2>4 DEF Deduct
  <2>5. CASE q = k
    <3>1. account'[q] = account[q] - cents /\ spent'[q] = spent[q] + cents
      BY <1>5, <2>5 DEF Deduct
    <3> QED
      BY <2>1, <2>2, <2>3, <2>5, <3>1
  <2> QED
    BY <2>4, <2>5
<1>6. ASSUME NEW l \in Loops, Start(l) PROVE AccountsAddUp'
  BY <1>6 DEF Start, Goto, AccountsAddUp
<1>7. ASSUME NEW l \in Loops, Check(l) PROVE AccountsAddUp'
  BY <1>7 DEF Check, Goto, Return, AccountsAddUp
<1>8. ASSUME NEW l \in Loops, Credit(l) PROVE AccountsAddUp'
  <2>1. log[l] \in Logs
    BY <1>8 DEF Credit, InHand, Crediting
  <2>2. log[l].transfer \in Transfers /\ Owner(To[log[l].transfer]) \in Accounts
    BY <2>1 DEF Owner
  <2>3. CASE AddCredits(Owner(To[log[l].transfer]), log[l].transfer)
    BY <2>2, <2>3, AddCreditsAddsUp
  <2>4. CASE UNCHANGED accountVars
    BY <2>4 DEF AccountsAddUp
  <2> QED
    BY <1>8, <2>3, <2>4 DEF Credit
<1>9. ASSUME NEW l \in Loops, MarkProcessed(l) PROVE AccountsAddUp'
  BY <1>9 DEF MarkProcessed, Goto, Return, AccountsAddUp
<1>10. ASSUME NEW l \in Loops, Exit(l) PROVE AccountsAddUp'
  BY <1>10 DEF Exit, Goto, AccountsAddUp
<1>11. ASSUME NEW l \in Loops, NEW entry \in logs, Receive(l, entry) PROVE AccountsAddUp'
  BY <1>11 DEF Receive, Goto, AccountsAddUp
<1>12. CASE CloseStop
  BY <1>12 DEF CloseStop, AccountsAddUp
<1>13. CASE StopReturns
  BY <1>13 DEF StopReturns, AccountsAddUp
<1>14. CASE UNCHANGED vars
  BY <1>14 DEF vars, AccountsAddUp
<1> QED
  BY <1>1, <1>2, <1>3, <1>4, <1>5, <1>6, <1>7, <1>8, <1>9, <1>10, <1>11, <1>12, <1>13, <1>14 DEF Next, Handle

LEMMA QuietStep == TypeOK /\ StoppedIsQuiet /\ [Next]_vars => StoppedIsQuiet'
<1> SUFFICES ASSUME TypeOK, StoppedIsQuiet, [Next]_vars PROVE StoppedIsQuiet'
  OBVIOUS
<1> USE DepositsAssumption DEF TypeOK, Logs, Accounts, chainVars, loopVars, accountVars
<1>1. ASSUME NEW S \in SUBSET Transfers, NEW i \in Indexes, Mine(S, i) PROVE StoppedIsQuiet'
  BY <1>1 DEF Mine, StoppedIsQuiet
<1>2. ASSUME NEW h \in 1 .. MaxHeight, Reorganise(h) PROVE StoppedIsQuiet'
  BY <1>2 DEF Reorganise, StoppedIsQuiet
<1>3. ASSUME NEW k \in Keys, NEW a \in Addresses, Register(k, a) PROVE StoppedIsQuiet'
  BY <1>3 DEF Register, StoppedIsQuiet
<1>4. ASSUME NEW x \in Transfers, NEW k \in Keys, Settle(x, k) PROVE StoppedIsQuiet'
  BY <1>4 DEF Settle, StoppedIsQuiet
<1>5. ASSUME NEW k \in Keys, NEW cents \in Costs, Deduct(k, cents) PROVE StoppedIsQuiet'
  BY <1>5 DEF Deduct, StoppedIsQuiet
<1>6. ASSUME NEW l \in Loops, Start(l) PROVE StoppedIsQuiet'
  BY <1>6 DEF Start, Goto, StoppedIsQuiet
<1>7. ASSUME NEW l \in Loops, Check(l) PROVE StoppedIsQuiet'
  BY <1>7 DEF Check, Goto, Return, StoppedIsQuiet
<1>8. ASSUME NEW l \in Loops, Credit(l) PROVE StoppedIsQuiet'
  BY <1>8 DEF Credit, Goto, Return, StoppedIsQuiet
<1>9. ASSUME NEW l \in Loops, MarkProcessed(l) PROVE StoppedIsQuiet'
  BY <1>9 DEF MarkProcessed, Goto, Return, StoppedIsQuiet
<1>10. ASSUME NEW l \in Loops, Exit(l) PROVE StoppedIsQuiet'
  BY <1>10 DEF Exit, Goto, StoppedIsQuiet
<1>11. ASSUME NEW l \in Loops, NEW entry \in logs, Receive(l, entry) PROVE StoppedIsQuiet'
  BY <1>11 DEF Receive, Goto, StoppedIsQuiet
<1>12. CASE CloseStop
  BY <1>12 DEF CloseStop, StoppedIsQuiet
<1>13. CASE StopReturns
  BY <1>13 DEF StopReturns, StoppedIsQuiet, AllEnded
<1>14. CASE UNCHANGED vars
  BY <1>14 DEF vars, StoppedIsQuiet
<1> QED
  BY <1>1, <1>2, <1>3, <1>4, <1>5, <1>6, <1>7, <1>8, <1>9, <1>10, <1>11, <1>12, <1>13, <1>14 DEF Next, Handle

LEMMA MarkedStep == TypeOK /\ InHand /\ WatchOwned /\ Marked /\ Clean /\ [Next]_vars => Marked'
<1> SUFFICES ASSUME TypeOK, InHand, WatchOwned, Marked, Clean, [Next]_vars PROVE Marked'
  OBVIOUS
<1> USE DepositsAssumption DEF TypeOK, Logs, Accounts, chainVars, loopVars, accountVars
<1>1. ASSUME NEW S \in SUBSET Transfers, NEW i \in Indexes, Mine(S, i) PROVE Marked'
  BY <1>1 DEF Mine, Marked, Key
<1>2. ASSUME NEW h \in 1 .. MaxHeight, Reorganise(h) PROVE Marked'
  BY <1>2 DEF Reorganise, Marked, Key
<1>3. ASSUME NEW k \in Keys, NEW a \in Addresses, Register(k, a) PROVE Marked'
  BY <1>3 DEF Register, Marked, Key
<1>4. ASSUME NEW x \in Transfers, NEW k \in Keys, Settle(x, k) PROVE Marked'
  BY <1>4 DEF Settle, Marked, Key
<1>5. ASSUME NEW k \in Keys, NEW cents \in Costs, Deduct(k, cents) PROVE Marked'
  BY <1>5 DEF Deduct, Marked, Key
<1>6. ASSUME NEW l \in Loops, Start(l) PROVE Marked'
  BY <1>6 DEF Start, Goto, Marked, Key
<1>7. ASSUME NEW l \in Loops, Check(l) PROVE Marked'
  <2>1. raced \subseteq raced' /\ UNCHANGED <<paid, processed>>
    BY <1>7 DEF Check
  <2>2. \A r \in Loops : loop[r] = "mark" => loop'[r] = "mark" /\ log'[r] = log[r]
    BY <1>7 DEF Check, Return, Goto
  <2> QED
    BY <2>1, <2>2 DEF Marked, Key
<1>8. ASSUME NEW l \in Loops, Credit(l) PROVE Marked'
  <2> SUFFICES ASSUME NEW k \in Accounts, NEW e \in LogKeys, e[1] \notin raced', paid'[k][e] > 0
               PROVE  /\ paid'[k][e] = 1
                      /\ \/ e \in processed'
                         \/ \E r \in Loops : loop'[r] = "mark" /\ Key(log'[r]) = e
    BY DEF Marked, Key
  <2>1. raced' = raced /\ processed' = processed /\ loop[l] = "credit"
    BY <1>8 DEF Credit
  <2>2. \A r \in Loops : loop[r] = "mark" => loop'[r] = "mark" /\ log'[r] = log[r]
    BY <1>8, <2>1 DEF Credit, Return, Goto
  <2>3. CASE paid'[k][e] = paid[k][e]
    BY <2>1, <2>2, <2>3 DEF Marked
  <2>4. CASE paid'[k][e] # paid[k][e]
    <3>1. /\ paid'[k][e] = paid[k][e] + 1
          /\ e = Key(log[l])
          /\ loop' = [loop EXCEPT ![l] = "mark"] /\ log' = log
      BY <1>8, <2>4, CreditDoes
    <3>2. paid[k][e] = 0
      BY <2>1, <3>1 DEF Clean, Key
    <3> QED
      BY <3>1, <3>2
  <2> QED
    BY <2>3, <2>4
<1>9. ASSUME NEW l \in Loops, MarkProcessed(l) PROVE Marked'
  <2>1. /\ UNCHANGED <<paid, raced>>
        /\ processed' = processed \cup {Key(log[l])}
    BY <1>9 DEF MarkProcessed
  <2>2. \A r \in Loops \ {l} : loop[r] = "mark" => loop'[r] = "mark" /\ log'[r] = log[r]
    BY <1>9 DEF MarkProcessed, Return, Goto
  <2> SUFFICES ASSUME NEW k \in Accounts, NEW e \in LogKeys, e[1] \notin raced', paid'[k][e] > 0
               PROVE  /\ paid'[k][e] = 1
                      /\ e \in processed' \/ \E r \in Loops : loop'[r] = "mark" /\ Key(log'[r]) = e
    BY DEF Marked, Key
  <2>3. paid[k][e] = 1 /\ (e \in processed \/ \E r \in Loops : loop[r] = "mark" /\ Key(log[r]) = e)
    BY <2>1 DEF Marked
  <2> QED
    BY <2>1, <2>2, <2>3 DEF Key
<1>10. ASSUME NEW l \in Loops, Exit(l) PROVE Marked'
  BY <1>10 DEF Exit, Goto, Marked, Key
<1>11. ASSUME NEW l \in Loops, NEW entry \in logs, Receive(l, entry) PROVE Marked'
  <2> SUFFICES ASSUME NEW k \in Accounts, NEW e \in LogKeys, e[1] \notin raced', paid'[k][e] > 0
               PROVE  /\ paid'[k][e] = 1
                      /\ \/ e \in processed'
                         \/ \E r \in Loops : loop'[r] = "mark" /\ Key(log'[r]) = e
    BY DEF Marked, Key
  <2>1. UNCHANGED <<paid, raced, processed>>
    BY <1>11 DEF Receive
  <2>2. \A r \in Loops : loop[r] = "mark" => loop'[r] = "mark" /\ log'[r] = log[r]
    BY <1>11 DEF Receive, Goto
  <2> QED
    BY <2>1, <2>2 DEF Marked
<1>12. CASE CloseStop
  BY <1>12 DEF CloseStop, Marked, Key
<1>13. CASE StopReturns
  BY <1>13 DEF StopReturns, Marked, Key
<1>14. CASE UNCHANGED vars
  BY <1>14 DEF vars, Marked, Key
<1> QED
  BY <1>1, <1>2, <1>3, <1>4, <1>5, <1>6, <1>7, <1>8, <1>9, <1>10, <1>11, <1>12, <1>13, <1>14 DEF Next, Handle

LEMMA CleanStep == TypeOK /\ InHand /\ WatchOwned /\ Marked /\ Clean /\ Alone /\ [Next]_vars => Clean'
<1> SUFFICES ASSUME TypeOK, InHand, WatchOwned, Marked, Clean, Alone, [Next]_vars PROVE Clean'
  OBVIOUS
<1> USE DepositsAssumption DEF TypeOK, Logs, Accounts, chainVars, loopVars, accountVars, Crediting
<1>1. ASSUME NEW S \in SUBSET Transfers, NEW i \in Indexes, Mine(S, i) PROVE Clean'
  BY <1>1 DEF Mine, Clean, Key
<1>2. ASSUME NEW h \in 1 .. MaxHeight, Reorganise(h) PROVE Clean'
  BY <1>2 DEF Reorganise, Clean, Key
<1>3. ASSUME NEW k \in Keys, NEW a \in Addresses, Register(k, a) PROVE Clean'
  BY <1>3 DEF Register, Clean, Key
<1>4. ASSUME NEW x \in Transfers, NEW k \in Keys, Settle(x, k) PROVE Clean'
  BY <1>4 DEF Settle, Clean, Key
<1>5. ASSUME NEW k \in Keys, NEW cents \in Costs, Deduct(k, cents) PROVE Clean'
  BY <1>5 DEF Deduct, Clean, Key
<1>6. ASSUME NEW l \in Loops, Start(l) PROVE Clean'
  BY <1>6 DEF Start, Goto, Clean, Key
<1>7. ASSUME NEW l \in Loops, Check(l) PROVE Clean'
  <2> SUFFICES ASSUME NEW r \in Loops, loop'[r] = "credit", log'[r].transfer \notin raced'
               PROVE  /\ Key(log'[r]) \notin processed'
                      /\ \A k \in Accounts : paid'[k][Key(log'[r])] = 0
    BY DEF Clean, Key
  <2>1. raced \subseteq raced' /\ UNCHANGED <<paid, processed>>
    BY <1>7 DEF Check
  <2>2. CASE r # l
    <3>1. loop[r] = "credit" /\ log'[r] = log[r]
      BY <1>7, <2>2 DEF Check, Return, Goto
    <3> QED
      BY <2>1, <3>1 DEF Clean
  <2>3. CASE r = l
    <3>1. ~ IsProcessed(log[l]) /\ log' = log /\ loop[l] = "check"
          /\ raced' = IF Rivals(l) = {} THEN raced ELSE raced \cup {log[l].transfer}
      BY <1>7, <2>3 DEF Check, Return, Goto
    <3>2. Rivals(l) = {} /\ raced' = raced
      BY <2>3, <3>1
    <3>3. log[l] \in Logs
      BY <3>1 DEF InHand
    <3>4. Key(log[l]) \in LogKeys /\ Key(log[l])[1] = log[l].transfer
      BY <3>3 DEF Key, LogKeys
    <3>5. ASSUME NEW q \in Loops, loop[q] = "mark", Key(log[q]) = Key(log[l]) PROVE FALSE
      BY <3>1, <3>2, <3>5 DEF Rivals
    <3>6. \A k \in Accounts : ~ (paid[k][Key(log[l])] > 0)
      BY <2>3, <3>1, <3>2, <3>4, <3>5 DEF Marked, IsProcessed
    <3>7. \A k \in Accounts : paid[k][Key(log[l])] \in Nat
      BY <3>4
    <3> QED
      BY <2>1, <2>3, <3>1, <3>6, <3>7 DEF IsProcessed
  <2> QED
    BY <2>2, <2>3
<1>8. ASSUME NEW l \in Loops, Credit(l) PROVE Clean'
  <2> SUFFICES ASSUME NEW r \in Loops, loop'[r] = "credit", log'[r].transfer \notin raced'
               PROVE  /\ Key(log'[r]) \notin processed'
                      /\ \A k \in Accounts : paid'[k][Key(log'[r])] = 0
    BY DEF Clean, Key
  <2>1. /\ loop[l] = "credit" /\ raced' = raced /\ processed' = processed
        /\ r # l /\ loop[r] = "credit" /\ log'[r] = log[r]
    BY <1>8 DEF Credit, Return, Goto
  <2>2. Key(log[r]) # Key(log[l])
    BY <2>1 DEF Alone, Key
  <2>3. log[r] \in Logs
    BY <2>1 DEF InHand
  <2>4. Key(log[r]) \in LogKeys
    BY <2>3 DEF Key, LogKeys
  <2>5. \A k \in Accounts : paid'[k][Key(log[r])] = paid[k][Key(log[r])]
    <3> SUFFICES ASSUME NEW k \in Accounts PROVE paid'[k][Key(log[r])] = paid[k][Key(log[r])]
      OBVIOUS
    <3> QED
      BY <1>8, <2>2, <2>4, CreditDoes
  <2> QED
    BY <2>1, <2>5 DEF Clean
<1>9. ASSUME NEW l \in Loops, MarkProcessed(l) PROVE Clean'
  <2> SUFFICES ASSUME NEW r \in Loops, loop'[r] = "credit", log'[r].transfer \notin raced'
               PROVE  /\ Key(log'[r]) \notin processed'
                      /\ \A k \in Accounts : paid'[k][Key(log'[r])] = 0
    BY DEF Clean, Key
  <2>1. /\ loop[l] = "mark" /\ UNCHANGED <<raced, paid>>
        /\ processed' = processed \cup {Key(log[l])}
        /\ r # l /\ loop[r] = "credit" /\ log'[r] = log[r]
    BY <1>9 DEF MarkProcessed, Return, Goto
  <2>2. Key(log[r]) # Key(log[l])
    BY <2>1 DEF Alone, Key
  <2> QED
    BY <2>1, <2>2 DEF Clean
<1>10. ASSUME NEW l \in Loops, Exit(l) PROVE Clean'
  BY <1>10 DEF Exit, Goto, Clean, Key
<1>11. ASSUME NEW l \in Loops, NEW entry \in logs, Receive(l, entry) PROVE Clean'
  <2>1. UNCHANGED <<paid, raced, processed>>
    BY <1>11 DEF Receive
  <2>2. \A r \in Loops : loop'[r] = "credit" => loop[r] = "credit" /\ log'[r] = log[r]
    BY <1>11 DEF Receive, Goto
  <2> QED
    BY <2>1, <2>2 DEF Clean, Key
<1>12. CASE CloseStop
  BY <1>12 DEF CloseStop, Clean, Key
<1>13. CASE StopReturns
  BY <1>13 DEF StopReturns, Clean, Key
<1>14. CASE UNCHANGED vars
  BY <1>14 DEF vars, Clean, Key
<1> QED
  BY <1>1, <1>2, <1>3, <1>4, <1>5, <1>6, <1>7, <1>8, <1>9, <1>10, <1>11, <1>12, <1>13, <1>14 DEF Next, Handle

LEMMA AloneStep == TypeOK /\ InHand /\ Alone /\ [Next]_vars => Alone'
<1> SUFFICES ASSUME TypeOK, InHand, Alone, [Next]_vars PROVE Alone'
  OBVIOUS
<1> USE DepositsAssumption DEF TypeOK, Logs, Accounts, chainVars, loopVars, accountVars, Crediting
<1>1. ASSUME NEW S \in SUBSET Transfers, NEW i \in Indexes, Mine(S, i) PROVE Alone'
  BY <1>1 DEF Mine, Alone, Key
<1>2. ASSUME NEW h \in 1 .. MaxHeight, Reorganise(h) PROVE Alone'
  BY <1>2 DEF Reorganise, Alone, Key
<1>3. ASSUME NEW k \in Keys, NEW a \in Addresses, Register(k, a) PROVE Alone'
  BY <1>3 DEF Register, Alone, Key
<1>4. ASSUME NEW x \in Transfers, NEW k \in Keys, Settle(x, k) PROVE Alone'
  BY <1>4 DEF Settle, Alone, Key
<1>5. ASSUME NEW k \in Keys, NEW cents \in Costs, Deduct(k, cents) PROVE Alone'
  BY <1>5 DEF Deduct, Alone, Key
<1>6. ASSUME NEW l \in Loops, Start(l) PROVE Alone'
  BY <1>6 DEF Start, Goto, Alone, Key
<1>7. ASSUME NEW l \in Loops, Check(l) PROVE Alone'
  <2> SUFFICES ASSUME NEW q \in Loops, NEW r \in Loops, q # r,
                      loop'[q] \in Crediting, loop'[r] \in Crediting, Key(log'[q]) = Key(log'[r])
               PROVE  log'[q].transfer \in raced'
    BY DEF Alone, Key
  <2>1. raced \subseteq raced' /\ loop[l] = "check"
    BY <1>7 DEF Check
  <2>2. \A s \in Loops : loop'[s] \in Crediting => log'[s] = log[s] /\ (s # l => loop[s] \in Crediting)
    BY <1>7 DEF Check, Return, Goto
  <2>3. CASE q # l /\ r # l
    BY <2>1, <2>2, <2>3 DEF Alone
  <2>4. CASE q = l \/ r = l
    <3>1. loop'[l] \in Crediting
      BY <2>4
    <3>2. raced' = IF Rivals(l) = {} THEN raced ELSE raced \cup {log[l].transfer}
      BY <1>7, <3>1 DEF Check, Return, Goto
    <3>3. (IF q = l THEN r ELSE q) \in Rivals(l)
      BY <2>2, <2>4 DEF Rivals
    <3>4. log[l].transfer \in raced'
      BY <3>2, <3>3
    <3>5. log[q].transfer = log[l].transfer
      BY <2>2, <2>4 DEF Key
    <3> QED
      BY <2>2, <3>4, <3>5
  <2> QED
    BY <2>3, <2>4
<1>8. ASSUME NEW l \in Loops, Credit(l) PROVE Alone'
  BY <1>8 DEF Credit, Goto, Return, Alone, Key
<1>9. ASSUME NEW l \in Loops, MarkProcessed(l) PROVE Alone'
  BY <1>9 DEF MarkProcessed, Goto, Return, Alone, Key
<1>10. ASSUME NEW l \in Loops, Exit(l) PROVE Alone'
  BY <1>10 DEF Exit, Goto, Alone, Key
<1>11. ASSUME NEW l \in Loops, NEW entry \in logs, Receive(l, entry) PROVE Alone'
  <2>1. UNCHANGED raced
    BY <1>11 DEF Receive
  <2>2. \A r \in Loops : loop'[r] \in Crediting => loop[r] \in Crediting /\ log'[r] = log[r]
    BY <1>11 DEF Receive, Goto
  <2> QED
    BY <2>1, <2>2 DEF Alone, Key
<1>12. CASE CloseStop
  BY <1>12 DEF CloseStop, Alone, Key
<1>13. CASE StopReturns
  BY <1>13 DEF StopReturns, Alone, Key
<1>14. CASE UNCHANGED vars
  BY <1>14 DEF vars, Alone, Key
<1> QED
  BY <1>1, <1>2, <1>3, <1>4, <1>5, <1>6, <1>7, <1>8, <1>9, <1>10, <1>11, <1>12, <1>13, <1>14 DEF Next, Handle

LEMMA SteadyStep == TypeOK /\ Steady /\ [Next]_vars => Steady'
<1> SUFFICES ASSUME TypeOK, Steady, [Next]_vars PROVE Steady'
  OBVIOUS
<1> USE DepositsAssumption DEF TypeOK, Logs, Accounts, chainVars, loopVars, accountVars
<1>1. ASSUME NEW S \in SUBSET Transfers, NEW i \in Indexes, Mine(S, i) PROVE Steady'
  <2>1. moved' = moved /\ logs' = logs \cup [transfer : S, block : {head + 1}, index : {i}]
    BY <1>1 DEF Mine
  <2>2. \A e \in logs' \ logs : e.transfer \in S /\ e.index = i
    BY <2>1
  <2>3. \A x \in S : x \in Transfers /\ mined[x] = 0 /\ mined'[x] # 0
    BY <1>1 DEF Mine
  <2>4. \A x \in Transfers \ S : mined'[x] = mined[x]
    BY <1>1 DEF Mine
  <2>5. \A e \in logs : e.transfer \notin moved => e.transfer \in Transfers \ S
    BY <2>3 DEF Steady
  <2> QED
    BY <2>1, <2>2, <2>3, <2>4, <2>5 DEF Steady
<1>2. ASSUME NEW h \in 1 .. MaxHeight, Reorganise(h) PROVE Steady'
  <2>1. logs' = logs /\ moved' = moved \cup {x \in Transfers : mined[x] > h}
    BY <1>2 DEF Reorganise
  <2>2. \A x \in Transfers \ moved' : mined'[x] = mined[x]
    BY <1>2, <2>1 DEF Reorganise
  <2> QED
    BY <2>1, <2>2 DEF Steady
<1>3. ASSUME NEW k \in Keys, NEW a \in Addresses, Register(k, a) PROVE Steady'
  BY <1>3 DEF Register, Steady
<1>4. ASSUME NEW x \in Transfers, NEW k \in Keys, Settle(x, k) PROVE Steady'
  BY <1>4 DEF Settle, Steady
<1>5. ASSUME NEW k \in Keys, NEW cents \in Costs, Deduct(k, cents) PROVE Steady'
  BY <1>5 DEF Deduct, Steady
<1>6. ASSUME NEW l \in Loops, Start(l) PROVE Steady'
  BY <1>6 DEF Start, Goto, Steady
<1>7. ASSUME NEW l \in Loops, Check(l) PROVE Steady'
  BY <1>7 DEF Check, Goto, Return, Steady
<1>8. ASSUME NEW l \in Loops, Credit(l) PROVE Steady'
  BY <1>8 DEF Credit, Goto, Return, Steady
<1>9. ASSUME NEW l \in Loops, MarkProcessed(l) PROVE Steady'
  BY <1>9 DEF MarkProcessed, Goto, Return, Steady
<1>10. ASSUME NEW l \in Loops, Exit(l) PROVE Steady'
  BY <1>10 DEF Exit, Goto, Steady
<1>11. ASSUME NEW l \in Loops, NEW entry \in logs, Receive(l, entry) PROVE Steady'
  BY <1>11 DEF Receive, Goto, Steady
<1>12. CASE CloseStop
  BY <1>12 DEF CloseStop, Steady
<1>13. CASE StopReturns
  BY <1>13 DEF StopReturns, Steady
<1>14. CASE UNCHANGED vars
  BY <1>14 DEF vars, Steady
<1> QED
  BY <1>1, <1>2, <1>3, <1>4, <1>5, <1>6, <1>7, <1>8, <1>9, <1>10, <1>11, <1>12, <1>13, <1>14 DEF Next, Handle

LEMMA PaidLoggedStep == TypeOK /\ InHand /\ WatchOwned /\ PaidLogged /\ [Next]_vars => PaidLogged'
<1> SUFFICES ASSUME TypeOK, InHand, WatchOwned, PaidLogged, [Next]_vars PROVE PaidLogged'
  OBVIOUS
<1> USE DepositsAssumption DEF TypeOK, Logs, Accounts, chainVars, loopVars, accountVars
<1>1. ASSUME NEW S \in SUBSET Transfers, NEW i \in Indexes, Mine(S, i) PROVE PaidLogged'
  BY <1>1 DEF Mine, PaidLogged, Key
<1>2. ASSUME NEW h \in 1 .. MaxHeight, Reorganise(h) PROVE PaidLogged'
  BY <1>2 DEF Reorganise, PaidLogged, Key
<1>3. ASSUME NEW k \in Keys, NEW a \in Addresses, Register(k, a) PROVE PaidLogged'
  BY <1>3 DEF Register, PaidLogged, Key
<1>4. ASSUME NEW x \in Transfers, NEW k \in Keys, Settle(x, k) PROVE PaidLogged'
  BY <1>4 DEF Settle, PaidLogged, Key
<1>5. ASSUME NEW k \in Keys, NEW cents \in Costs, Deduct(k, cents) PROVE PaidLogged'
  BY <1>5 DEF Deduct, PaidLogged, Key
<1>6. ASSUME NEW l \in Loops, Start(l) PROVE PaidLogged'
  BY <1>6 DEF Start, Goto, PaidLogged, Key
<1>7. ASSUME NEW l \in Loops, Check(l) PROVE PaidLogged'
  BY <1>7 DEF Check, Goto, Return, PaidLogged, Key
<1>8. ASSUME NEW l \in Loops, Credit(l) PROVE PaidLogged'
  <2> SUFFICES ASSUME NEW k \in Accounts, NEW e \in LogKeys, paid'[k][e] > 0
               PROVE  \E g \in logs' : Key(g) = e
    BY DEF PaidLogged, Key
  <2>1. logs' = logs
    BY <1>8 DEF Credit
  <2>2. CASE paid'[k][e] = paid[k][e]
    BY <2>1, <2>2 DEF PaidLogged
  <2>3. CASE paid'[k][e] # paid[k][e]
    <3>1. e = Key(log[l]) /\ log[l] \in logs
      BY <1>8, <2>3, CreditDoes
    <3> QED
      BY <2>1, <3>1
  <2> QED
    BY <2>2, <2>3
<1>9. ASSUME NEW l \in Loops, MarkProcessed(l) PROVE PaidLogged'
  BY <1>9 DEF MarkProcessed, Goto, Return, PaidLogged, Key
<1>10. ASSUME NEW l \in Loops, Exit(l) PROVE PaidLogged'
  BY <1>10 DEF Exit, Goto, PaidLogged, Key
<1>11. ASSUME NEW l \in Loops, NEW entry \in logs, Receive(l, entry) PROVE PaidLogged'
  BY <1>11 DEF Receive, Goto, PaidLogged, Key
<1>12. CASE CloseStop
  BY <1>12 DEF CloseStop, PaidLogged, Key
<1>13. CASE StopReturns
  BY <1>13 DEF StopReturns, PaidLogged, Key
<1>14. CASE UNCHANGED vars
  BY <1>14 DEF vars, PaidLogged, Key
<1> QED
  BY <1>1, <1>2, <1>3, <1>4, <1>5, <1>6, <1>7, <1>8, <1>9, <1>10, <1>11, <1>12, <1>13, <1>14 DEF Next, Handle

(* The parts make the property: a log credited twice would be credited by   *)
(* rivals, and a second log of the transfer comes only from a               *)
(* reorganisation.                                                          *)
LEMMA OnceHolds == Inv => OncePerTransfer
<1> SUFFICES ASSUME Inv, NEW k1 \in Accounts, NEW k2 \in Accounts,
                    NEW e1 \in LogKeys, NEW e2 \in LogKeys,
                    e1[1] = e2[1], e1[1] \notin raced, paid[k1][e1] > 0, paid[k2][e2] > 0
             PROVE  paid[k1][e1] = 1 /\ k1 = k2 /\ (e1 = e2 \/ e1[1] \in moved)
  BY DEF OncePerTransfer
<1>1. paid[k1][e1] = 1
  BY DEF Inv, Marked
<1>2. k1 = k2
  BY DEF Inv, OwnersOnly
<1>3. PICK g1 \in logs, g2 \in logs : Key(g1) = e1 /\ Key(g2) = e2
  BY DEF Inv, PaidLogged
<1>4. CASE e1[1] \notin moved
  <2>1. g1.transfer = e1[1] /\ g2.transfer = e1[1]
    BY <1>3 DEF Key
  <2>2. g1.index = g2.index
    BY <1>4, <2>1 DEF Inv, Steady
  <2> QED
    BY <1>1, <1>2, <1>3, <2>1, <2>2 DEF Key
<1> QED
  BY <1>1, <1>2, <1>4

(* The invariant is inductive.                                              *)
THEOREM Invariance == Spec => []Inv
<1>1. Init => Inv
  BY InitInv, RestInit DEF Inv
<1>2. Inv /\ [Next]_vars => Inv'
  BY TypeStep, InHandStep, WatchOwnedStep, OwnersStep, BuriedStep, HeldFirmStep, PaidFirmStep, AddUpStep, QuietStep,
     MarkedStep, CleanStep, AloneStep, SteadyStep, PaidLoggedStep DEF Inv
<1> QED
  BY <1>1, <1>2, PTL DEF Spec

(* Every variable keeps its type.                                           *)
THEOREM Types == Spec => []TypeOK
<1>1. Inv => TypeOK
  BY DEF Inv
<1> QED
  BY <1>1, Invariance, PTL

(* The loops credit a transfer once and to one account, unless two of them  *)
(* credit it at once or a reorganisation gave its log another index.        *)
THEOREM Once == Spec => []OncePerTransfer
BY OnceHolds, Invariance, PTL

(* A credited transfer is on the chain, unless a reorganisation undid it    *)
(* with all its confirmations, or a stale header or the log of a block that *)
(* was gone let it through.                                                 *)
THEOREM Confirmed == Spec => []CreditedStaysMined
<1>1. Inv => CreditedStaysMined
  BY DEF Inv, Buried, PaidFirm, CreditedStaysMined
<1> QED
  BY <1>1, Invariance, PTL

(* A deposit goes to the owner of its address.                              *)
THEOREM Owners == Spec => []OwnersOnly
<1>1. Inv => OwnersOnly
  BY DEF Inv
<1> QED
  BY <1>1, Invariance, PTL

(* An account holds what its credits were worth less what was spent, unless *)
(* an amount credited to it, or their sum, fits no int64.                   *)
THEOREM AddUp == Spec => []AccountsAddUp
<1>1. Inv => AccountsAddUp
  BY DEF Inv
<1> QED
  BY <1>1, Invariance, PTL

(* After Stop returned nothing but a loop started later credits.            *)
THEOREM Quiet == Spec => []StoppedIsQuiet
<1>1. Inv => StoppedIsQuiet
  BY DEF Inv
<1> QED
  BY <1>1, Invariance, PTL
=============================================================================
