---------------------------- MODULE PrepaidLedger ----------------------------
(***************************************************************************)
(* What prepaid billing promises, whoever implements it.  Money enters an   *)
(* account by credits only.  It leaves an account only for a request of     *)
(* that account, at most once for each request, and only as far as the      *)
(* account covers it.  A request may also be waived; it is then never       *)
(* charged.                                                                 *)
(***************************************************************************)
EXTENDS BalanceStore

CONSTANT Requests

VARIABLES balance,      \* what each account holds
          owner,        \* the account each request is made for
          standing      \* "none", then "open", then "charged" or "waived"

ledgerVars == <<balance, owner, standing>>

LedgerInit ==
    /\ balance = [k \in Accounts |-> 0]
    /\ owner \in [Requests -> Accounts]
    /\ standing = [r \in Requests |-> "none"]

Credit(k) ==
    /\ \E a \in Cents : balance' = [balance EXCEPT ![k] = Plus64(@, a)]
    /\ UNCHANGED <<owner, standing>>

Open(r, k) ==
    /\ standing[r] = "none"
    /\ owner' = [owner EXCEPT ![r] = k]
    /\ standing' = [standing EXCEPT ![r] = "open"]
    /\ UNCHANGED balance

Charge(r) ==
    /\ standing[r] = "open"
    /\ standing' = [standing EXCEPT ![r] = "charged"]
    /\ \E c \in Cents :
          /\ c <= balance[owner[r]]
          /\ balance' = [balance EXCEPT ![owner[r]] = @ - c]
    /\ UNCHANGED owner

Waive(r) ==
    /\ standing[r] = "open"
    /\ standing' = [standing EXCEPT ![r] = "waived"]
    /\ UNCHANGED <<balance, owner>>

LedgerNext ==
    \/ \E k \in Accounts : Credit(k)
    \/ \E r \in Requests, k \in Accounts : Open(r, k)
    \/ \E r \in Requests : Charge(r) \/ Waive(r)

LedgerSpec == LedgerInit /\ [][LedgerNext]_ledgerVars
=============================================================================
