------------------------------ MODULE P2PSessions ------------------------------
(***************************************************************************)
(* Sessions of the P2P service (pkg/p2p): OpenSession, SendMessage,         *)
(* CloseSession, Disconnect, the heartbeat that drops idle sessions, and    *)
(* Start and Stop of the service.                                           *)
(*                                                                          *)
(* A session is in two tables, each behind a mutex of its own: that of the  *)
(* libp2p Host and that of the SessionManager.  An operation takes the      *)
(* mutexes one after the other and lets go of them in between, so opening,  *)
(* sending and stopping are several steps each.  Only CloseSession keeps    *)
(* the manager's mutex while it calls the host: the variable closing is the *)
(* session whose closer holds it, and everyone else who needs that mutex    *)
(* waits.                                                                   *)
(*                                                                          *)
(* The network is external: a dial or a stream may fail at any time, and    *)
(* always fails once the host is closed.                                    *)
(***************************************************************************)
EXTENDS Integers, FiniteSets

CONSTANTS Sessions,     \* a session for each call of OpenSession
          Peers,
          PeerOf,       \* the peer of a session, which is a part of its id
          Senders,      \* calls of SendMessage
          None

ASSUME SessionsAssumption ==
    /\ PeerOf \in [Sessions -> Peers]
    /\ None \notin Sessions
    /\ IsFiniteSet(Senders)

VARIABLES
    open,                   \* OpenSession: its next step, for each session
    managed, state, idle,   \* SessionManager.sessions, ActiveSession.State, no recent activity
    managerClosed,          \* SessionManager.closed
    closing, closeStep,     \* CloseSession: the session, and what its closer does next
    hosted, hostState,      \* Host.sessions, Session.State
    hostUp, hostStarted,    \* the libp2p host accepts work; Host.started
    send, target,           \* SendMessage: its next step and its session
    managerSent, hostSent,  \* Messages of the two session records
    start, stop, started,   \* P2PService: the calls of Start and Stop, started
    serviceMutex, context,  \* who holds P2PService.mu; the context given to Start
    ended, late, delivered  \* history: sessions that left the manager; sends begun after that,
                            \* and sends that reached the peer

openVars    == <<open>>
managerVars == <<managed, state, idle, managerClosed>>
closeVars   == <<closing, closeStep>>
hostVars    == <<hosted, hostState>>
upVars      == <<hostUp, hostStarted>>
sendVars    == <<send, target, managerSent, hostSent, late, delivered>>
serviceVars == <<start, stop, started, serviceMutex, context>>
vars == <<openVars, managerVars, closeVars, hostVars, upVars, sendVars, serviceVars, ended>>

Init ==
    /\ open = [s \in Sessions |-> "idle"]
    /\ managed = {}
    /\ state = [s \in Sessions |-> "none"]
    /\ idle = [s \in Sessions |-> FALSE]
    /\ managerClosed = FALSE
    /\ closing = None
    /\ closeStep = "none"
    /\ hosted = {}
    /\ hostState = [s \in Sessions |-> "none"]
    /\ hostUp = TRUE
    /\ hostStarted = FALSE
    /\ send = [t \in Senders |-> "idle"]
    /\ target \in [Senders -> Sessions]
    /\ managerSent = [s \in Sessions |-> 0]
    /\ hostSent = [s \in Sessions |-> 0]
    /\ start = "idle"
    /\ stop = "idle"
    /\ started = FALSE
    /\ serviceMutex = "free"
    /\ context = "live"
    /\ ended = {}
    /\ late = {}
    /\ delivered = {}

(* The manager's mutex can be taken. *)
ManagerFree == closing = None

-----------------------------------------------------------------------------
(* OpenSession. *)

CheckOpen(s) ==
    /\ open[s] = "idle"
    /\ ManagerFree
    /\ open' = [open EXCEPT ![s] = IF managerClosed THEN "failed" ELSE "dial"]
    /\ UNCHANGED <<managerVars, closeVars, hostVars, upVars, sendVars, serviceVars, ended>>

Dial(s) ==
    /\ open[s] = "dial"
    /\ \/ hostUp /\ open' = [open EXCEPT ![s] = "register"]
       \/ open' = [open EXCEPT ![s] = "failed"]
    /\ UNCHANGED <<managerVars, closeVars, hostVars, upVars, sendVars, serviceVars, ended>>

(* Host.OpenSession adds the session whether or not the host was stopped    *)
(* since it dialled.                                                        *)
Register(s) ==
    /\ open[s] = "register"
    /\ hosted' = hosted \cup {s}
    /\ hostState' = [hostState EXCEPT ![s] = "open"]
    /\ open' = [open EXCEPT ![s] = "insert"]
    /\ UNCHANGED <<managerVars, closeVars, upVars, sendVars, serviceVars, ended>>

(* The manager does not look at closed again. *)
Insert(s) ==
    /\ open[s] = "insert"
    /\ ManagerFree
    /\ managed' = managed \cup {s}
    /\ state' = [state EXCEPT ![s] = "open"]
    /\ open' = [open EXCEPT ![s] = "returned"]
    /\ UNCHANGED <<idle, managerClosed, closeVars, hostVars, upVars, sendVars, serviceVars, ended>>

Open(s) == CheckOpen(s) \/ Dial(s) \/ Register(s) \/ Insert(s)

-----------------------------------------------------------------------------
(* CloseSession. *)

BeginClose(s) ==
    /\ ManagerFree
    /\ ~ managerClosed
    /\ s \in managed
    /\ closing' = s
    /\ closeStep' = "host"
    /\ state' = [state EXCEPT ![s] = "closing"]
    /\ UNCHANGED <<openVars, managed, idle, managerClosed, hostVars, upVars, sendVars, serviceVars,
                   ended>>

Release == None

(* Host.CloseSession fails for a session the host does not have; the        *)
(* manager then returns and keeps the session.                              *)
CloseOnHost ==
    /\ closeStep = "host"
    /\ IF closing \in hosted
       THEN /\ hosted' = hosted \ {closing}
            /\ hostState' = [hostState EXCEPT ![closing] = "closing"]
            /\ closeStep' = "drop"
            /\ UNCHANGED closing
       ELSE /\ closing' = Release
            /\ closeStep' = "none"
            /\ UNCHANGED hostVars
    /\ UNCHANGED <<openVars, managerVars, upVars, sendVars, serviceVars, ended>>

(* Mutant: the closer does not delete the session. *)
KeepsDropped(s) == managed

Without(s) == managed \ {s}

DropClosed ==
    /\ closeStep = "drop"
    /\ managed' = Without(closing)
    /\ ended' = ended \cup {closing}
    /\ closing' = Release
    /\ closeStep' = "none"
    /\ UNCHANGED <<openVars, state, idle, managerClosed, hostVars, upVars, sendVars, serviceVars>>

-----------------------------------------------------------------------------
(* Sessions the manager ends by itself.  The host keeps its record of them. *)

End(gone) ==
    /\ managed' = managed \ gone
    /\ state' = [s \in Sessions |-> IF s \in gone THEN "closed" ELSE state[s]]
    /\ ended' = ended \cup gone

OfPeer(p) == {s \in managed : PeerOf[s] = p}

(* Disconnect closes the connection and publishes an event that the manager *)
(* handles.                                                                 *)
Disconnect(p) ==
    /\ ManagerFree
    /\ End(OfPeer(p))
    /\ UNCHANGED <<openVars, idle, managerClosed, closeVars, hostVars, upVars, sendVars,
                   serviceVars>>

(* SessionTimeout passes without activity. *)
GoIdle(s) ==
    /\ s \in managed
    /\ idle' = [idle EXCEPT ![s] = TRUE]
    /\ UNCHANGED <<openVars, managed, state, managerClosed, closeVars, hostVars, upVars, sendVars,
                   serviceVars, ended>>

(* Mutant: the heartbeat drops sessions that are no longer open. *)
NotOpenAndIdle == {s \in managed : state[s] # "open" /\ idle[s]}

Timeouts == {s \in managed : state[s] = "open" /\ idle[s]}

(* A turn of the loop in StartHeartbeat, which Start calls itself. *)
CheckSessions ==
    /\ start = "beating"
    /\ ManagerFree
    /\ End(Timeouts)
    /\ UNCHANGED <<openVars, idle, managerClosed, closeVars, hostVars, upVars, sendVars,
                   serviceVars>>

-----------------------------------------------------------------------------
(* SendMessage and Host.Send. *)

Goto(t, step) == send' = [send EXCEPT ![t] = step]

(* Mutant: the session is looked up on the host. *)
FoundOnHost(t) == target[t] \in hosted

Found(t) == target[t] \in managed

Find(t) ==
    /\ send[t] = "idle"
    /\ open[target[t]] = "returned"          \* the caller has an id
    /\ ManagerFree
    /\ Goto(t, IF Found(t) THEN "state" ELSE "failed")
    /\ late' = IF target[t] \in ended THEN late \cup {t} ELSE late
    /\ UNCHANGED <<target, managerSent, hostSent, delivered, openVars, managerVars, closeVars,
                   hostVars, upVars, serviceVars, ended>>

CheckState(t) ==
    /\ send[t] = "state"
    /\ Goto(t, IF state[target[t]] = "open" THEN "hostFind" ELSE "failed")
    /\ UNCHANGED <<target, managerSent, hostSent, late, delivered, openVars, managerVars,
                   closeVars, hostVars, upVars, serviceVars, ended>>

FindOnHost(t) ==
    /\ send[t] = "hostFind"
    /\ Goto(t, IF target[t] \in hosted THEN "hostState" ELSE "failed")
    /\ UNCHANGED <<target, managerSent, hostSent, late, delivered, openVars, managerVars,
                   closeVars, hostVars, upVars, serviceVars, ended>>

CheckHostState(t) ==
    /\ send[t] = "hostState"
    /\ Goto(t, IF hostState[target[t]] = "open" THEN "write" ELSE "failed")
    /\ UNCHANGED <<target, managerSent, hostSent, late, delivered, openVars, managerVars,
                   closeVars, hostVars, upVars, serviceVars, ended>>

(* Mutant: a failed write is counted as a message. *)
AfterFailedWriteCounts == "finish"

AfterFailedWrite == "failed"

(* NewStream dials the peer again if it has to. *)
WriteStream(t) ==
    /\ send[t] = "write"
    /\ \/ /\ hostUp
          /\ delivered' = delivered \cup {t}
          /\ Goto(t, "count")
       \/ /\ Goto(t, AfterFailedWrite)
          /\ UNCHANGED delivered
    /\ UNCHANGED <<target, managerSent, hostSent, late, openVars, managerVars, closeVars, hostVars,
                   upVars, serviceVars, ended>>

CountOnHost(t) ==
    /\ send[t] = "count"
    /\ hostSent' = [hostSent EXCEPT ![target[t]] = @ + 1]
    /\ Goto(t, "publish")
    /\ UNCHANGED <<target, managerSent, late, delivered, openVars, managerVars, closeVars, hostVars,
                   upVars, serviceVars, ended>>

(* The manager handles the event of the message before Host.Send returns. *)
PublishMessage(t) ==
    /\ send[t] = "publish"
    /\ ManagerFree
    /\ idle' = IF target[t] \in managed THEN [idle EXCEPT ![target[t]] = FALSE] ELSE idle
    /\ Goto(t, "finish")
    /\ UNCHANGED <<target, managerSent, hostSent, late, delivered, openVars, managed, state,
                   managerClosed, closeVars, hostVars, upVars, serviceVars, ended>>

Finish(t) ==
    /\ send[t] = "finish"
    /\ managerSent' = [managerSent EXCEPT ![target[t]] = @ + 1]
    /\ idle' = [idle EXCEPT ![target[t]] = FALSE]
    /\ Goto(t, "sent")
    /\ UNCHANGED <<target, hostSent, late, delivered, openVars, managed, state, managerClosed,
                   closeVars, hostVars, upVars, serviceVars, ended>>

Send(t) ==
    \/ Find(t)
    \/ CheckState(t)
    \/ FindOnHost(t)
    \/ CheckHostState(t)
    \/ WriteStream(t)
    \/ CountOnHost(t)
    \/ PublishMessage(t)
    \/ Finish(t)

-----------------------------------------------------------------------------
(* Start and Stop of the service. *)

(* Start keeps the mutex of the service while it runs the heartbeat.  The   *)
(* host refuses a second Start.                                             *)
StartService ==
    /\ start = "idle"
    /\ serviceMutex = "free"
    /\ IF started \/ hostStarted
       THEN /\ start' = "returned"
            /\ UNCHANGED <<serviceMutex, hostStarted>>
       ELSE /\ start' = "beating"
            /\ serviceMutex' = "start"
            /\ hostStarted' = TRUE
    /\ UNCHANGED <<stop, started, context, hostUp, openVars, managerVars, closeVars, hostVars,
                   sendVars, ended>>

(* Whoever called Start may cancel the context, or never do. *)
CancelContext ==
    /\ context = "live"
    /\ context' = "done"
    /\ UNCHANGED <<start, stop, started, serviceMutex, openVars, managerVars, closeVars, hostVars,
                   upVars, sendVars, ended>>

StartReturns ==
    /\ start = "beating"
    /\ context = "done"
    /\ start' = "returned"
    /\ started' = TRUE
    /\ serviceMutex' = "free"
    /\ UNCHANGED <<stop, context, openVars, managerVars, closeVars, hostVars, upVars, sendVars,
                   ended>>

CallStop ==
    /\ stop = "idle"
    /\ stop' = "lock"
    /\ UNCHANGED <<start, started, serviceMutex, context, openVars, managerVars, closeVars,
                   hostVars, upVars, sendVars, ended>>

(* Mutant: the host is stopped before the manager is closed. *)
StopOrderHostFirst == [lock |-> "host", sessions |-> "close", host |-> "sessions"]

StopOrder == [lock |-> "sessions", sessions |-> "host", host |-> "close"]

StopService ==
    /\ stop = "lock"
    /\ serviceMutex = "free"
    /\ IF started
       THEN /\ stop' = StopOrder.lock
            /\ serviceMutex' = "stop"
       ELSE /\ stop' = "returned"
            /\ UNCHANGED serviceMutex
    /\ UNCHANGED <<start, started, context, openVars, managerVars, closeVars, hostVars, upVars,
                   sendVars, ended>>

(* SessionManager.Close empties the table; the records stay as they are. *)
CloseManager ==
    /\ stop = "sessions"
    /\ ManagerFree
    /\ managerClosed' = TRUE
    /\ managed' = {}
    /\ ended' = ended \cup managed
    /\ stop' = StopOrder.sessions
    /\ UNCHANGED <<state, idle, start, started, serviceMutex, context, openVars, closeVars,
                   hostVars, upVars, sendVars>>

StopHost ==
    /\ stop = "host"
    /\ hosted' = {}
    /\ stop' = StopOrder.host
    /\ UNCHANGED <<hostState, start, started, serviceMutex, context, openVars, managerVars,
                   closeVars, upVars, sendVars, ended>>

CloseHost ==
    /\ stop = "close"
    /\ hostUp' = FALSE
    /\ started' = FALSE
    /\ serviceMutex' = "free"
    /\ stop' = "returned"
    /\ UNCHANGED <<hostStarted, start, context, openVars, managerVars, closeVars, hostVars,
                   sendVars, ended>>

Stop == StopService \/ CloseManager \/ StopHost \/ CloseHost

-----------------------------------------------------------------------------
Next ==
    \/ \E s \in Sessions : Open(s) \/ BeginClose(s) \/ GoIdle(s)
    \/ CloseOnHost
    \/ DropClosed
    \/ \E p \in Peers : Disconnect(p)
    \/ CheckSessions
    \/ \E t \in Senders : Send(t)
    \/ StartService
    \/ CancelContext
    \/ StartReturns
    \/ CallStop
    \/ Stop

Spec == Init /\ [][Next]_vars

(* The goroutines that hold or wait for a mutex run on; the ticker of the   *)
(* heartbeat fires again and again.                                         *)
Fairness ==
    /\ WF_vars(CloseOnHost \/ DropClosed)
    /\ WF_vars(CheckSessions)
    /\ WF_vars(StartService)
    /\ WF_vars(StartReturns)
    /\ WF_vars(Stop)

FairSpec == Spec /\ Fairness

-----------------------------------------------------------------------------
(* Every variable keeps its type. *)
TypeOK ==
    /\ open \in [Sessions -> {"idle", "dial", "register", "insert", "returned", "failed"}]
    /\ managed \subseteq Sessions
    /\ state \in [Sessions -> {"none", "open", "closing", "closed"}]
    /\ idle \in [Sessions -> BOOLEAN]
    /\ managerClosed \in BOOLEAN
    /\ closeStep \in {"none", "host", "drop"}
    /\ closing \in IF closeStep = "none" THEN {None} ELSE Sessions
    /\ hosted \subseteq Sessions
    /\ hostState \in [Sessions -> {"none", "open", "closing"}]
    /\ hostUp \in BOOLEAN
    /\ hostStarted \in BOOLEAN
    /\ send \in [Senders -> {"idle", "state", "hostFind", "hostState", "write", "count", "publish",
                             "finish", "sent", "failed"}]
    /\ target \in [Senders -> Sessions]
    /\ managerSent \in [Sessions -> Nat]
    /\ hostSent \in [Sessions -> Nat]
    /\ start \in {"idle", "beating", "returned"}
    /\ stop \in {"idle", "lock", "sessions", "host", "close", "returned"}
    /\ started \in BOOLEAN
    /\ serviceMutex \in {"free", "start", "stop"}
    /\ context \in {"live", "done"}
    /\ ended \subseteq Sessions
    /\ late \subseteq Senders
    /\ delivered \subseteq Senders

(* Until the manager is closed, the host has every session the manager      *)
(* still hands out, but for the one that is being dropped from both: Stop   *)
(* closes the manager before it empties the host, and an opener registers   *)
(* with the host first.                                                     *)
ManagedIsHosted ==
    managerClosed \/ \A s \in managed : s \in hosted \/ (s = closing /\ closeStep = "drop")

(* CloseSession never leaves a session half closed.  It would stay in the   *)
(* table for ever: the heartbeat only drops open sessions, and the host     *)
(* refuses to close it again.                                               *)
NoneHalfClosed == \A s \in managed : state[s] = "open" \/ s = closing

(* A send begun after its session was closed, disconnected, timed out or    *)
(* shut down reaches nobody, although the host may still have the session.  *)
EndedSessionsAreSilent == late \cap delivered = {}

(* The two records of a session agree on its messages, but for those on     *)
(* their way from one to the other (SendMessage, Host.Send).                *)
CountsAgree ==
    \A s \in Sessions :
        hostSent[s] =
            managerSent[s]
                + Cardinality({t \in Senders : target[t] = s /\ send[t] \in {"publish", "finish"}})

(* While the heartbeat runs, a session that stays idle leaves the table,    *)
(* whoever opens, closes and sends besides (checkSessions).                 *)
IdleSessionsGo ==
    \A s \in Sessions :
        (s \in managed /\ idle[s] /\ start = "beating")
            ~> (s \notin managed \/ ~ idle[s] \/ start # "beating")

(* "Stop gracefully shuts down the P2P host and all sessions": it returns.  *)
StopEnds == (stop = "lock") ~> (stop = "returned")
=============================================================================
