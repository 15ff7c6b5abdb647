---------------------------- MODULE BalanceStore ----------------------------
(***************************************************************************)
(* The prepaid balances of the gateway: InMemoryBalanceStore of             *)
(* pkg/gateway/api/server.go, a map from API key to an int64 number of      *)
(* cents behind one mutex.  Every operation holds the mutex from its first  *)
(* read to its last write, so each is one atomic function of the map.       *)
(*                                                                          *)
(* A key that was never credited is not in the map.  Get reads it as 0, and *)
(* the only callers of Deduct pass a positive amount, which such a key      *)
(* cannot cover: it behaves as an entry that holds 0, and is modelled so.   *)
(***************************************************************************)
EXTENDS Integers

CONSTANTS Accounts,     \* API keys, with the empty key of anonymous callers
          MaxInt64      \* the largest value of an int64

ASSUME MaxInt64Assumption == MaxInt64 \in Nat \ {0}

Int64 == (-MaxInt64 - 1) .. MaxInt64

Cents == 1 .. MaxInt64

Balances == [Accounts -> Int64]

(* Two's-complement sum of two int64 values, the second one positive. *)
Plus64(a, b) == IF a + b > MaxInt64 THEN a + b - 2 * (MaxInt64 + 1) ELSE a + b

(* ub.Balance += delta: the addition is not checked and wraps. *)
Add(balance, k, delta) == [balance EXCEPT ![k] = Plus64(@, delta)]

(* Mutant: an exact balance does not cover. *)
CoversStrictly(balance, k, delta) == balance[k] > delta

Covers(balance, k, delta) == balance[k] >= delta

(* Mutant: the comparison before the subtraction is gone. *)
DeductUnchecked(balance, k, delta) == [balance EXCEPT ![k] = @ - delta]

(* "Does nothing if balance would go negative", and does not tell the caller. *)
Deduct(balance, k, delta) ==
    IF Covers(balance, k, delta) THEN [balance EXCEPT ![k] = @ - delta] ELSE balance
=============================================================================
