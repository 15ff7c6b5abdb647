----------------------------- MODULE RailDeposits -----------------------------
(***************************************************************************)
(* Deposits on a token rail: the log loop of pkg/paygate/tap, the rail that *)
(* credits what the loop confirms, and its accounts in the RailStore of     *)
(* pkg/paygate/balance.  pkg/paygate/tnk has a loop of its own like it, but *)
(* its tracker has no mutex and its rail no Settle; the two share nothing   *)
(* but the type of the store, and the module describes TAP.                 *)
(*                                                                          *)
(* Rail.Start takes the addresses known at that time, subscribes to the     *)
(* Transfer logs of the contract and starts a loop; nothing forbids a       *)
(* second call, the only way to watch addresses registered later, and the   *)
(* loops of one rail share the deposit tracker.  A loop takes a log, asks   *)
(* for the newest header, and drops the log for good unless the header is   *)
(* Confirmations blocks past it.                                            *)
(*                                                                          *)
(* The chain is external: it grows, it is reorganised, a header comes from  *)
(* a node up to Lag blocks behind, and the subscription hands over any log  *)
(* there was, at any time and more than once: FromBlock is left to the node, *)
(* and a reorganisation repeats a log as removed, a mark the loop does not  *)
(* read.                                                                    *)
(***************************************************************************)
EXTENDS Integers, FiniteSets

CONSTANTS Loops,            \* calls of Start
          Transfers,        \* token transfers
          To, Wei,          \* the address a transfer goes to, and its amount
          Addresses, Keys,  \* deposit addresses; API keys
          Hot,              \* the address of the hot wallet, if there is one
          HotKey,           \* the account "__hot__"
          Confirmations,    \* Config.DepositConfirmations: 12 in the code
          Indexes,          \* positions of a log in its block
          Lag,              \* blocks a node may be behind
          Word,             \* 2^64
          WeiPerCent,       \* the price
          Costs,            \* amounts of Deduct, in cents
          MaxHeight, MaxReorgs, MaxLogs, MaxDeliveries, MaxSettled,  \* bounds
          None

ASSUME DepositsAssumption ==
    /\ IsFiniteSet(Loops)
    /\ To \in [Transfers -> Addresses \cup Hot]
    /\ Wei \in [Transfers -> Nat]
    /\ Hot \cap Addresses = {}
    /\ None \notin Keys /\ HotKey \notin Keys /\ HotKey # None
    /\ Confirmations \in Nat
    /\ Lag \in Nat
    /\ Word \in Nat /\ Word > 1
    /\ WeiPerCent \in Nat \ {0}
    /\ Costs \subseteq Nat \ {0}
    /\ MaxHeight \in Nat \ {0}
    /\ {MaxReorgs, MaxLogs, MaxDeliveries, MaxSettled} \subseteq Nat

Accounts == Keys \cup {HotKey}
Logs == [transfer : Transfers, block : 1 .. MaxHeight, index : Indexes]
LogKeys == Transfers \X Indexes

VARIABLES
    head, mined, logs, reorgs,      \* chain: height, block of each transfer (0: none), all logs
                                    \* there ever were, reorganisations so far
    owner,                          \* DepositAddressManager.addrs
    loop, watch, log,         \* each loop: next step, addresses, log in hand
    deliveries,                     \* logs that passed the confirmation test so far
    processed,                      \* InMemoryDepositTracker.processed
    account,                        \* RailStore.accounts, for this rail
    settled,                        \* transfers settled by hand
    stop,                           \* TAPRail.Stop: not called, waiting or returned
    confirmed, moved, undone,       \* history: transfers that got their confirmations where they
                                    \* are; those ever reorganised; those reorganised when confirmed
    misled,                         \* history: transfers let through by a header older than the
                                    \* log, or by the log of a block that is gone
    paid, raced, late,              \* history: credits of each log to each account; transfers two
                                    \* loops credit at once; loops started after Stop returned
    worth, spent, oversized         \* history: cents due to and taken from each account; accounts
                                    \* that got a transfer no int64 holds

chainVars   == <<head, mined, logs, reorgs, confirmed, moved, undone>>
loopVars    == <<loop, watch, log, deliveries, misled, late>>
accountVars == <<account, paid, worth, spent, oversized>>
vars == <<chainVars, loopVars, accountVars, owner, processed, settled, stop, raced>>

Init ==
    /\ head = 1
    /\ mined = [x \in Transfers |-> 0]
    /\ logs = {}
    /\ reorgs = 0
    /\ owner = [a \in Addresses |-> None]
    /\ loop = [l \in Loops |-> "off"]
    /\ watch = [l \in Loops |-> {}]
    /\ log = [l \in Loops |-> None]
    /\ deliveries = 0
    /\ processed = {}
    /\ account = [k \in Accounts |-> 0]
    /\ settled = {}
    /\ stop = "no"
    /\ confirmed = {} /\ moved = {} /\ undone = {} /\ misled = {}
    /\ paid = [k \in Accounts |-> [e \in LogKeys |-> 0]]
    /\ raced = {}
    /\ late = {}
    /\ worth = [k \in Accounts |-> 0]
    /\ spent = [k \in Accounts |-> 0]
    /\ oversized = {}

-----------------------------------------------------------------------------
(* Numbers. *)

(* big.Int.Int64, and what an int64 += keeps: the low 64 bits, signed. *)
Int64(n) == IF n % Word >= Word \div 2 THEN (n % Word) - Word ELSE n % Word

Overflows(x) == Wei[x] >= Word \div 2

(* PriceFeed.ETHToCents rounds towards zero. *)
ToCents(wei) == IF wei >= 0 THEN wei \div WeiPerCent ELSE -((-wei) \div WeiPerCent)

(* What a transfer is worth once its amount went through an int64. *)
Cents(x) == ToCents(Int64(Wei[x]))

(* Mutant: the block of the log counts as a confirmation. *)
ConfirmationsInclusive(header, block) == (header - block + 1) % Word

(* An unsigned difference. *)
ConfirmationsOf(header, block) == (header - block) % Word

-----------------------------------------------------------------------------
(* The chain. *)

(* A block with some of the transfers that are not on the chain. *)
Mine(S, index) ==
    /\ head < MaxHeight
    /\ \A x \in S : mined[x] = 0
    /\ Cardinality(logs) + Cardinality(S) <= MaxLogs
    /\ head' = head + 1
    /\ mined' = [x \in Transfers |-> IF x \in S THEN head + 1 ELSE mined[x]]
    /\ logs' = logs \cup [transfer : S, block : {head + 1}, index : {index}]
    /\ confirmed' = confirmed \cup
           {x \in Transfers : mined'[x] # 0 /\ mined'[x] + Confirmations <= head + 1}
    /\ UNCHANGED <<reorgs, moved, undone, loopVars, accountVars, owner, processed, settled, stop, raced>>

(* The blocks above h give way to others; their transfers wait again. *)
Reorganise(h) ==
    /\ reorgs < MaxReorgs
    /\ h \in 1 .. head - 1
    /\ head' = h
    /\ reorgs' = reorgs + 1
    /\ mined' = [x \in Transfers |-> IF mined[x] > h THEN 0 ELSE mined[x]]
    /\ LET gone == {x \in Transfers : mined[x] > h}
       IN /\ moved' = moved \cup gone
          /\ undone' = undone \cup (gone \cap confirmed)
          /\ confirmed' = confirmed \ gone
    /\ UNCHANGED <<logs, loopVars, accountVars, owner, processed, settled, stop, raced>>

-----------------------------------------------------------------------------
(* The rail. *)

(* A derived address is unique to its key. *)
Register(k, a) ==
    /\ owner[a] = None
    /\ owner' = [owner EXCEPT ![a] = k]
    /\ UNCHANGED <<chainVars, loopVars, accountVars, processed, settled, stop, raced>>

Goto(l, step) == loop' = [loop EXCEPT ![l] = step]

(* Mutant: every address is watched. *)
WatchAll == Addresses \cup Hot

Watched == {a \in Addresses : owner[a] # None} \cup Hot

(* Rail.Start: the addresses of this moment, then the header and the        *)
(* subscription.  If one of them fails there is no loop, and Start may be   *)
(* called again.                                                            *)
Start(l) ==
    /\ loop[l] = "off"
    /\ Goto(l, "select")
    /\ watch' = [watch EXCEPT ![l] = Watched]
    /\ late' = IF stop = "returned" THEN late \cup {l} ELSE late
    /\ UNCHANGED <<chainVars, log, deliveries, misled, accountVars, owner, processed, settled,
                   stop, raced>>

(* RailStore.AddCredits: an unchecked += on an int64.                       *)
AddCredits(k, x) ==
    /\ account' = [account EXCEPT ![k] = Int64(@ + Cents(x))]
    /\ worth' = [worth EXCEPT ![k] = @ + ToCents(Wei[x])]
    /\ oversized' = IF Overflows(x) THEN oversized \cup {k} ELSE oversized
    /\ UNCHANGED spent

(* Settle credits without a look at the tracker, and does not mark.  Whoever *)
(* calls it does so once for a transfer.                                    *)
Settle(x, k) ==
    /\ x \notin settled
    /\ Cardinality(settled) < MaxSettled
    /\ settled' = settled \cup {x}
    /\ AddCredits(k, x)
    /\ UNCHANGED <<chainVars, loopVars, paid, owner, processed, stop, raced>>

(* Mutant: Deduct compares after it subtracted one cent less. *)
CoversOffByOne(balance, cents) == balance >= cents - 1

Covers(balance, cents) == balance >= cents

Deduct(k, cents) ==
    /\ Covers(account[k], cents)
    /\ account' = [account EXCEPT ![k] = @ - cents]
    /\ spent' = [spent EXCEPT ![k] = @ + cents]
    /\ UNCHANGED <<chainVars, loopVars, paid, worth, oversized, owner, processed, settled, stop,
                   raced>>

-----------------------------------------------------------------------------
(* The loop: select and handleLogMulti. *)

Key(entry) == <<entry.transfer, entry.index>>

(* The steps of a log that passed the tracker's check. *)
Crediting == {"credit", "mark"}

(* handleLogMulti returns: the log in hand is forgotten. *)
Return(l) ==
    /\ Goto(l, "select")
    /\ log' = [log EXCEPT ![l] = None]

(* The select takes a log, although Stop may have been called, and the      *)
(* header for it arrives.  Nothing is shared up to here, so one step does.  *)
(* The log is dropped if its address is not watched, if the header fails or *)
(* is too near.  Nothing asks whether the block of the log is still there.  *)
Receive(l, entry) ==
    /\ loop[l] = "select"
    /\ deliveries < MaxDeliveries
    /\ \/ \E header \in 0 .. head :
             /\ To[entry.transfer] \in watch[l]
             /\ header >= head - Lag
             /\ ConfirmationsOf(header, entry.block) >= Confirmations
             /\ Goto(l, "check")
             /\ log' = [log EXCEPT ![l] = entry]
             /\ deliveries' = deliveries + 1
             /\ misled' = IF header < entry.block \/ mined[entry.transfer] # entry.block
                          THEN misled \cup {entry.transfer} ELSE misled
       \/ UNCHANGED <<loop, log, deliveries, misled>>
    /\ UNCHANGED <<chainVars, watch, late, accountVars, owner, processed, settled, stop, raced>>

(* Mutant: the tracker is asked for the block of the log. *)
SeenInBlock(entry) == <<entry.block, entry.index>> \in processed

IsProcessed(entry) == Key(entry) \in processed

(* Others that are about to credit the log, too. *)
Rivals(l) == {r \in Loops \ {l} : loop[r] \in Crediting /\ Key(log[r]) = Key(log[l])}

Check(l) ==
    /\ loop[l] = "check"
    /\ IF IsProcessed(log[l])
       THEN Return(l) /\ UNCHANGED raced
       ELSE /\ Goto(l, "credit")
            /\ raced' = IF Rivals(l) = {} THEN raced ELSE raced \cup {log[l].transfer}
            /\ UNCHANGED log
    /\ UNCHANGED <<chainVars, watch, late, deliveries, misled, accountVars, owner, processed,
                   settled, stop>>

(* Lookup, and the account for a deposit of nobody. *)
Owner(a) ==
    IF a \in Addresses /\ owner[a] # None THEN owner[a] ELSE HotKey

(* The price feed may fail: the log is dropped and not marked. *)
Credit(l) ==
    /\ loop[l] = "credit"
    /\ LET x == log[l].transfer
           k == Owner(To[x])
       IN \/ /\ AddCredits(k, x)
             /\ paid' = [paid EXCEPT ![k][Key(log[l])] = @ + 1]
             /\ Goto(l, "mark")
             /\ UNCHANGED log
          \/ Return(l) /\ UNCHANGED accountVars
    /\ UNCHANGED <<chainVars, watch, late, deliveries, misled, owner, processed, settled, stop,
                   raced>>

MarkProcessed(l) ==
    /\ loop[l] = "mark"
    /\ processed' = processed \cup {Key(log[l])}
    /\ Return(l)
    /\ UNCHANGED <<chainVars, watch, late, deliveries, misled, accountVars, owner, settled, stop,
                   raced>>

Handle(l) == Check(l) \/ Credit(l) \/ MarkProcessed(l)

-----------------------------------------------------------------------------
(* Stop. *)

CloseStop ==
    /\ stop = "no"
    /\ stop' = "waiting"
    /\ UNCHANGED <<chainVars, loopVars, accountVars, owner, processed, settled, raced>>

(* A loop ends on the closed channel, or with the context of its Start,     *)
(* which may end at any time.                                               *)
Exit(l) ==
    /\ loop[l] = "select"
    /\ Goto(l, "ended")
    /\ UNCHANGED <<chainVars, watch, late, log, deliveries, misled, accountVars, owner, processed,
                   settled, stop, raced>>

(* Mutant: Stop does not wait for a loop with a log in hand. *)
NoneSelects == \A l \in Loops : loop[l] # "select"

(* wg.Wait. *)
AllEnded == \A l \in Loops : loop[l] \in {"off", "ended"}

StopReturns ==
    /\ stop = "waiting"
    /\ AllEnded
    /\ stop' = "returned"
    /\ UNCHANGED <<chainVars, loopVars, accountVars, owner, processed, settled, raced>>

-----------------------------------------------------------------------------
Next ==
    \/ \E S \in SUBSET Transfers, i \in Indexes : Mine(S, i)
    \/ \E h \in 1 .. MaxHeight : Reorganise(h)
    \/ \E k \in Keys, a \in Addresses : Register(k, a)
    \/ \E x \in Transfers, k \in Keys : Settle(x, k)
    \/ \E k \in Keys, cents \in Costs : Deduct(k, cents)
    \/ \E l \in Loops : Start(l) \/ Handle(l) \/ Exit(l)
    \/ \E l \in Loops, entry \in logs : Receive(l, entry)
    \/ CloseStop
    \/ StopReturns

Spec == Init /\ [][Next]_vars

-----------------------------------------------------------------------------
(* Every variable keeps its type. *)
TypeOK ==
    /\ head \in 1 .. MaxHeight
    /\ mined \in [Transfers -> 0 .. MaxHeight]
    /\ logs \subseteq Logs
    /\ reorgs \in 0 .. MaxReorgs
    /\ owner \in [Addresses -> Keys \cup {None}]
    /\ loop \in [Loops -> {"off", "select", "check", "credit", "mark",
                           "ended"}]
    /\ watch \in [Loops -> SUBSET (Addresses \cup Hot)]
    /\ log \in [Loops -> Logs \cup {None}]
    /\ deliveries \in 0 .. MaxDeliveries
    /\ processed \subseteq LogKeys
    /\ account \in [Accounts -> (Word \div 2) - Word .. (Word \div 2) - 1]
    /\ settled \subseteq Transfers
    /\ stop \in {"no", "waiting", "returned"}
    /\ confirmed \subseteq Transfers /\ moved \subseteq Transfers /\ undone \subseteq Transfers
    /\ misled \subseteq Transfers /\ raced \subseteq Transfers
    /\ paid \in [Accounts -> [LogKeys -> Nat]]
    /\ late \subseteq Loops
    /\ worth \in [Accounts -> Nat]
    /\ spent \in [Accounts -> Nat]
    /\ oversized \subseteq Accounts

(* The loops credit a transfer once, to one account, though its log comes   *)
(* again and again (IsProcessed, credit, MarkProcessed).  Two things break  *)
(* that: two loops of the rail between check and mark at the same time, and *)
(* a reorganisation that gives the log another index.                       *)
OncePerTransfer ==
    \A k1, k2 \in Accounts : \A e1, e2 \in LogKeys :
        (e1[1] = e2[1] /\ e1[1] \notin raced /\ paid[k1][e1] > 0 /\ paid[k2][e2] > 0)
            => paid[k1][e1] = 1 /\ k1 = k2 /\ (e1 = e2 \/ e1[1] \in moved)

(* A transfer the loops credited is on the chain: the confirmation test and *)
(* the credit are steps apart, and a reorganisation may come in between or  *)
(* afterwards.  Three things break it: a reorganisation that undoes a       *)
(* transfer with all its confirmations, a header older than the log, whose  *)
(* difference wraps to a huge number, and the log of a block that is gone,  *)
(* which comes again as removed and is taken like any other                 *)
(* (handleLogMulti).                                                        *)
CreditedStaysMined ==
    \A k \in Accounts : \A e \in LogKeys :
        paid[k][e] > 0 /\ mined[e[1]] = 0 => e[1] \in undone \cup misled

(* A deposit goes to the key its address was derived for; the hot account   *)
(* gets none of them, although addresses are watched from one map at one    *)
(* time and looked up at another (Rail.Start).                              *)
OwnersOnly ==
    \A k \in Accounts : \A e \in LogKeys :
        paid[k][e] > 0 =>
            IF To[e[1]] \in Addresses THEN k = owner[To[e[1]]] ELSE k = HotKey

(* An account holds what its credits were worth less what was spent from    *)
(* it, and no more is spent than came in, through credits of loops,         *)
(* settlements and deductions in any order.  Two things break that: a       *)
(* transfer to the account whose amount no int64 holds (value.Int64), and   *)
(* credits that add up to more than one (AddCredits).                       *)
AccountsAddUp ==
    \A k \in Accounts :
        k \notin oversized /\ worth[k] < Word \div 2 =>
            account[k] = worth[k] - spent[k] /\ spent[k] <= worth[k]

(* Once Stop returned, no loop credits anything, but for one that Start     *)
(* added afterwards: its select may take a log before the closed channel.   *)
StoppedIsQuiet ==
    stop = "returned" => \A l \in Loops \ late : loop[l] \in {"off", "ended"}
=============================================================================
