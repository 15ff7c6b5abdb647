------------------------------ MODULE SQLBalance ------------------------------
(***************************************************************************)
(* BalanceStore of pkg/store, the balances in a SQLite database.  Deduct    *)
(* and AddCredits each read the row in one statement and write the result   *)
(* in another, without a transaction around them, so calls of several       *)
(* goroutines or processes can come between.  SQLite, which is external,    *)
(* makes each statement atomic and durable; a statement may also fail, and  *)
(* then changes nothing.                                                    *)
(*                                                                          *)
(* Each member of Calls is one call of Deduct or AddCredits with a positive *)
(* amount; Set stores any int64.                                            *)
(***************************************************************************)
EXTENDS BalanceStore, FiniteSets, FiniteSetsExt

CONSTANTS Calls, SetValues, NoRow,
          MaxBusy           \* bound: calls at work at once

ASSUME SQLAssumption ==
    /\ Accounts # {}
    /\ NoRow \notin Int64
    /\ SetValues \subseteq Int64

VARIABLES
    row,                        \* the table, by API key
    step, kind, key, amount,    \* calls: next statement or answer, and arguments
    seen,                       \* what the first statement returned
    base, acked,                \* history: the value last set, and what was acknowledged since
    beside,                     \* history: pairs of calls that were at work on a key at once
    crossed                     \* history: keys last set while calls were at work on them

bookVars == <<base, acked, beside, crossed>>
callVars == <<step, kind, key, amount, seen>>
sqlVars == <<row, callVars, bookVars>>

Working == {"read", "write"}
Answers == {"ok", "insufficient", "error", "dead"}

SQLInit ==
    /\ row = [k \in Accounts |-> NoRow]
    /\ step = [c \in Calls |-> "idle"]
    /\ kind = [c \in Calls |-> "add"]
    /\ key = [c \in Calls |-> CHOOSE k \in Accounts : TRUE]
    /\ amount = [c \in Calls |-> 1]
    /\ seen = [c \in Calls |-> 0]
    /\ base = [k \in Accounts |-> 0]
    /\ acked = [k \in Accounts |-> {}]
    /\ beside = {}
    /\ crossed = {}

(* An account without a row has nothing: Get. *)
Value(k) == IF row[k] = NoRow THEN 0 ELSE row[k]

WorkingOn(k) == {c \in Calls : step[c] \in Working /\ key[c] = k}

Call(c, o, k, a) ==
    /\ step[c] = "idle"
    /\ Cardinality({d \in Calls : step[d] \in Working}) < MaxBusy
    /\ step' = [step EXCEPT ![c] = "read"]
    /\ kind' = [kind EXCEPT ![c] = o]
    /\ key' = [key EXCEPT ![c] = k]
    /\ amount' = [amount EXCEPT ![c] = a]
    /\ beside' = beside \cup {{c, d} : d \in WorkingOn(k)}
    /\ UNCHANGED <<row, seen, base, acked, crossed>>

Sufficient(c) == row[key[c]] # NoRow /\ row[key[c]] >= amount[c]

Answer(c, answer) == step' = [step EXCEPT ![c] = answer]

SelectRow(c) ==
    /\ step[c] = "read"
    /\ IF kind[c] = "deduct" /\ ~ Sufficient(c)
       THEN Answer(c, "insufficient") /\ UNCHANGED seen
       ELSE Answer(c, "write") /\ seen' = [seen EXCEPT ![c] = Value(key[c])]
    /\ UNCHANGED <<row, kind, key, amount, bookVars>>

(* Mutant: the upsert stores the amount. *)
WrittenAmount(c) == IF kind[c] = "add" THEN amount[c] ELSE seen[c] - amount[c]

Written(c) == IF kind[c] = "add" THEN Plus64(seen[c], amount[c]) ELSE seen[c] - amount[c]

(* What the call changes, to be found in the row once it is acknowledged. *)
Entry(c) == [call |-> c, cents |-> IF kind[c] = "add" THEN amount[c] ELSE -amount[c]]

WriteRow(c) ==
    /\ step[c] = "write"
    /\ row' = [row EXCEPT ![key[c]] = Written(c)]
    /\ acked' = [acked EXCEPT ![key[c]] = @ \cup {Entry(c)}]
    /\ Answer(c, "ok")
    /\ UNCHANGED <<kind, key, amount, seen, base, beside, crossed>>

StatementFails(c) ==
    /\ step[c] \in Working
    /\ Answer(c, "error")
    /\ UNCHANGED <<row, kind, key, amount, seen, bookVars>>

Set(k, v) ==
    /\ row' = [row EXCEPT ![k] = v]
    /\ base' = [base EXCEPT ![k] = v]
    /\ acked' = [acked EXCEPT ![k] = {}]
    /\ crossed' = IF WorkingOn(k) = {} THEN crossed \ {k} ELSE crossed \cup {k}
    /\ UNCHANGED <<callVars, beside>>

(* The process ends and starts again; the table stays. *)
Restart ==
    /\ \E c \in Calls : step[c] \in Working
    /\ step' = [c \in Calls |-> IF step[c] \in Working THEN "dead" ELSE step[c]]
    /\ UNCHANGED <<row, kind, key, amount, seen, bookVars>>

SQLNext ==
    \/ \E c \in Calls, k \in Accounts, a \in Cents, o \in {"add", "deduct"} : Call(c, o, k, a)
    \/ \E c \in Calls : SelectRow(c) \/ WriteRow(c) \/ StatementFails(c)
    \/ \E k \in Accounts, v \in SetValues : Set(k, v)
    \/ Restart

SQLSpec == SQLInit /\ [][SQLNext]_sqlVars

-----------------------------------------------------------------------------
(* Every variable keeps its type. *)
SQLTypeOK ==
    /\ row \in [Accounts -> Int64 \cup {NoRow}]
    /\ step \in [Calls -> {"idle"} \cup Working \cup Answers]
    /\ kind \in [Calls -> {"add", "deduct"}]
    /\ key \in [Calls -> Accounts]
    /\ amount \in [Calls -> Cents]
    /\ seen \in [Calls -> Int64]
    /\ base \in [Accounts -> Int64]
    /\ acked \in [Accounts -> SUBSET [call : Calls, cents : Int]]
    /\ beside \subseteq SUBSET Calls
    /\ crossed \subseteq Accounts

Total(entries) == MapThenSumSet(LAMBDA e : e.cents, entries)

(* The same int64: an addition is not checked and wraps. *)
SameWord(m, n) == (m - n) % (2 * (MaxInt64 + 1)) = 0

Overlapped(e, f) == {e.call, f.call} \in beside

(* The row is the value last set and the sum of acknowledged credits and    *)
(* charges, each once, and nothing of a call that failed, was refused or    *)
(* was cut off by a restart.  What is missing of the acknowledged was lost  *)
(* to a call that overlapped it and is there: no update is lost in turn,    *)
(* and of several that overlap one stays.  A Set in the middle of a call is *)
(* overwritten and breaks that for its key (AddCredits, Deduct, Set).       *)
LostOnlyToOverlap ==
    \A k \in Accounts \ crossed :
        \E kept \in SUBSET acked[k] :
            /\ SameWord(Value(k), base[k] + Total(kept))
            /\ \A e \in acked[k] \ kept : \E f \in kept : Overlapped(e, f)
=============================================================================
