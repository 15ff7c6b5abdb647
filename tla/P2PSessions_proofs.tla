-------------------------- MODULE P2PSessions_proofs --------------------------
(***************************************************************************)
(* Proofs about P2PSessions, for any sessions, peers and sends.             *)
(***************************************************************************)
EXTENDS P2PSessions, TLAPS, FiniteSetTheorems

(* A closer holds the mutex of an open manager, and its session is in the   *)
(* tables it has yet to take it out of.                                     *)
Locked ==
    closeStep # "none" =>
        /\ ~ managerClosed
        /\ closing \in managed
        /\ closeStep = "host" => closing \in hosted

(* Only a session whose opening is over is in the manager's table; one that *)
(* is about to enter it is already in the host's.                           *)
Opened ==
    /\ \A s \in managed : open[s] = "returned"
    /\ \A s \in Sessions : open[s] = "insert" => s \in hosted \/ managerClosed

Tables ==
    /\ Locked
    /\ Opened
    /\ stop \in {"host", "close"} => managerClosed
    /\ ManagedIsHosted
    /\ NoneHalfClosed

(* A session leaves the manager for good, so a send that looks it up later  *)
(* fails, and one that fails has not reached the peer.                      *)
Silence ==
    /\ \A s \in ended : s \notin managed /\ open[s] = "returned"
    /\ \A t \in late : send[t] = "failed"
    /\ \A t \in delivered : send[t] \in {"count", "publish", "finish", "sent"}

LEMMA TypeInit == Init => TypeOK
<1> SUFFICES ASSUME Init PROVE TypeOK
  OBVIOUS
<1>1. closing \in IF closeStep = "none" THEN {None} ELSE Sessions
  BY DEF Init
<1>2. idle \in [Sessions -> BOOLEAN]
  BY DEF Init
<1>3. open \in [Sessions -> {"idle", "dial", "register", "insert", "returned", "failed"}]
  BY DEF Init
<1>4. send \in [Senders -> {"idle", "state", "hostFind", "hostState", "write", "count", "publish",
                            "finish", "sent", "failed"}]
  BY DEF Init
<1>5. /\ state \in [Sessions -> {"none", "open", "closing", "closed"}]
      /\ hostState \in [Sessions -> {"none", "open", "closing"}]
      /\ managerSent \in [Sessions -> Nat]
      /\ hostSent \in [Sessions -> Nat]
  BY DEF Init
<1> QED
  BY <1>1, <1>2, <1>3, <1>4, <1>5 DEF Init, TypeOK

LEMMA TypeStep == TypeOK /\ [Next]_vars => TypeOK'
<1> SUFFICES ASSUME TypeOK, [Next]_vars PROVE TypeOK'
  OBVIOUS
<1> USE SessionsAssumption
<1>1. ASSUME NEW s \in Sessions, CheckOpen(s) PROVE TypeOK'
  BY <1>1 DEF CheckOpen, ManagerFree, TypeOK, openVars, managerVars, closeVars, hostVars, upVars,
              sendVars, serviceVars
<1>2. ASSUME NEW s \in Sessions, Dial(s) PROVE TypeOK'
  BY <1>2 DEF Dial, ManagerFree, TypeOK, openVars, managerVars, closeVars, hostVars, upVars,
              sendVars, serviceVars
<1>3. ASSUME NEW s \in Sessions, Register(s) PROVE TypeOK'
  BY <1>3 DEF Register, ManagerFree, TypeOK, openVars, managerVars, closeVars, hostVars, upVars,
              sendVars, serviceVars
<1>4. ASSUME NEW s \in Sessions, Insert(s) PROVE TypeOK'
  BY <1>4 DEF Insert, ManagerFree, TypeOK, openVars, managerVars, closeVars, hostVars, upVars,
              sendVars, serviceVars
<1>5. ASSUME NEW s \in Sessions, BeginClose(s) PROVE TypeOK'
  BY <1>5 DEF BeginClose, ManagerFree, TypeOK, openVars, managerVars, closeVars, hostVars,
              upVars, sendVars, serviceVars
<1>6. ASSUME NEW s \in Sessions, GoIdle(s) PROVE TypeOK'
  BY <1>6 DEF GoIdle, ManagerFree, TypeOK, openVars, managerVars, closeVars, hostVars, upVars,
              sendVars, serviceVars
<1>7. CASE CloseOnHost
  BY <1>7 DEF CloseOnHost, Release, ManagerFree, TypeOK, openVars, managerVars, closeVars,
              hostVars, upVars, sendVars, serviceVars
<1>8. CASE DropClosed
  BY <1>8 DEF DropClosed, Release, Without, ManagerFree, TypeOK, openVars, managerVars,
              closeVars, hostVars, upVars, sendVars, serviceVars
<1>9. ASSUME NEW p \in Peers, Disconnect(p) PROVE TypeOK'
  BY <1>9 DEF Disconnect, End, OfPeer, ManagerFree, TypeOK, openVars, managerVars, closeVars,
              hostVars, upVars, sendVars, serviceVars
<1>10. CASE CheckSessions
  BY <1>10 DEF CheckSessions, End, Timeouts, ManagerFree, TypeOK, openVars, managerVars,
               closeVars, hostVars, upVars, sendVars, serviceVars
<1>11. ASSUME NEW t \in Senders, Find(t) PROVE TypeOK'
  BY <1>11 DEF Find, Goto, Found, ManagerFree, TypeOK, openVars, managerVars, closeVars,
               hostVars, upVars, sendVars, serviceVars
<1>12. ASSUME NEW t \in Senders, CheckState(t) PROVE TypeOK'
  BY <1>12 DEF CheckState, Goto, ManagerFree, TypeOK, openVars, managerVars, closeVars, hostVars,
               upVars, sendVars, serviceVars
<1>13. ASSUME NEW t \in Senders, FindOnHost(t) PROVE TypeOK'
  BY <1>13 DEF FindOnHost, Goto, ManagerFree, TypeOK, openVars, managerVars, closeVars, hostVars,
               upVars, sendVars, serviceVars
<1>14. ASSUME NEW t \in Senders, CheckHostState(t) PROVE TypeOK'
  BY <1>14 DEF CheckHostState, Goto, ManagerFree, TypeOK, openVars, managerVars, closeVars,
               hostVars, upVars, sendVars, serviceVars
<1>15. ASSUME NEW t \in Senders, WriteStream(t) PROVE TypeOK'
  BY <1>15 DEF WriteStream, Goto, AfterFailedWrite, ManagerFree, TypeOK, openVars, managerVars,
               closeVars, hostVars, upVars, sendVars, serviceVars
<1>16. ASSUME NEW t \in Senders, CountOnHost(t) PROVE TypeOK'
  BY <1>16 DEF CountOnHost, Goto, ManagerFree, TypeOK, openVars, managerVars, closeVars,
               hostVars, upVars, sendVars, serviceVars
<1>17. ASSUME NEW t \in Senders, PublishMessage(t) PROVE TypeOK'
  BY <1>17 DEF PublishMessage, Goto, ManagerFree, TypeOK, openVars, managerVars, closeVars,
               hostVars, upVars, sendVars, serviceVars
<1>18. ASSUME NEW t \in Senders, Finish(t) PROVE TypeOK'
  BY <1>18 DEF Finish, Goto, ManagerFree, TypeOK, openVars, managerVars, closeVars, hostVars,
               upVars, sendVars, serviceVars
<1>19. CASE StartService
  BY <1>19 DEF StartService, ManagerFree, TypeOK, openVars, managerVars, closeVars, hostVars,
               upVars, sendVars, serviceVars
<1>20. CASE CancelContext
  BY <1>20 DEF CancelContext, ManagerFree, TypeOK, openVars, managerVars, closeVars, hostVars,
               upVars, sendVars, serviceVars
<1>21. CASE StartReturns
  BY <1>21 DEF StartReturns, ManagerFree, TypeOK, openVars, managerVars, closeVars, hostVars,
               upVars, sendVars, serviceVars
<1>22. CASE CallStop
  BY <1>22 DEF CallStop, ManagerFree, TypeOK, openVars, managerVars, closeVars, hostVars, upVars,
               sendVars, serviceVars
<1>23. CASE StopService
  BY <1>23 DEF StopService, StopOrder, ManagerFree, TypeOK, openVars, managerVars, closeVars,
               hostVars, upVars, sendVars, serviceVars
<1>24. CASE CloseManager
  BY <1>24 DEF CloseManager, StopOrder, ManagerFree, TypeOK, openVars, managerVars, closeVars,
               hostVars, upVars, sendVars, serviceVars
<1>25. CASE StopHost
  BY <1>25 DEF StopHost, StopOrder, ManagerFree, TypeOK, openVars, managerVars, closeVars,
               hostVars, upVars, sendVars, serviceVars
<1>26. CASE CloseHost
  BY <1>26 DEF CloseHost, ManagerFree, TypeOK, openVars, managerVars, closeVars, hostVars,
               upVars, sendVars, serviceVars
<1>27. CASE UNCHANGED vars
  BY <1>27 DEF vars, TypeOK, openVars, managerVars, closeVars, hostVars, upVars, sendVars,
               serviceVars
<1> QED
  BY <1>1, <1>2, <1>3, <1>4, <1>5, <1>6, <1>7, <1>8, <1>9, <1>10, <1>11, <1>12, <1>13, <1>14,
     <1>15, <1>16, <1>17, <1>18, <1>19, <1>20, <1>21, <1>22, <1>23, <1>24, <1>25, <1>26, <1>27 DEF Next, Open, Send, Stop

-----------------------------------------------------------------------------
LEMMA TablesInit == Init => Tables
BY DEF Init, Tables, Locked, Opened, ManagedIsHosted, NoneHalfClosed

LEMMA TablesStep == TypeOK /\ Tables /\ [Next]_vars => Tables'
<1> SUFFICES ASSUME TypeOK, Tables, [Next]_vars PROVE Tables'
  OBVIOUS
<1> USE SessionsAssumption
<1>1. ASSUME NEW s \in Sessions, CheckOpen(s) PROVE Tables'
  BY <1>1 DEF CheckOpen, ManagerFree, TypeOK, Tables, Locked, Opened, ManagedIsHosted,
              NoneHalfClosed, openVars, managerVars, closeVars, hostVars, upVars, sendVars,
              serviceVars
<1>2. ASSUME NEW s \in Sessions, Dial(s) PROVE Tables'
  BY <1>2 DEF Dial, ManagerFree, TypeOK, Tables, Locked, Opened, ManagedIsHosted, NoneHalfClosed,
              openVars, managerVars, closeVars, hostVars, upVars, sendVars, serviceVars
<1>3. ASSUME NEW s \in Sessions, Register(s) PROVE Tables'
  BY <1>3 DEF Register, ManagerFree, TypeOK, Tables, Locked, Opened, ManagedIsHosted,
              NoneHalfClosed, openVars, managerVars, closeVars, hostVars, upVars, sendVars,
              serviceVars
<1>4. ASSUME NEW s \in Sessions, Insert(s) PROVE Tables'
  BY <1>4 DEF Insert, ManagerFree, TypeOK, Tables, Locked, Opened, ManagedIsHosted,
              NoneHalfClosed, openVars, managerVars, closeVars, hostVars, upVars, sendVars,
              serviceVars
<1>5. ASSUME NEW s \in Sessions, BeginClose(s) PROVE Tables'
  BY <1>5 DEF BeginClose, ManagerFree, TypeOK, Tables, Locked, Opened, ManagedIsHosted,
              NoneHalfClosed, openVars, managerVars, closeVars, hostVars, upVars, sendVars,
              serviceVars
<1>6. ASSUME NEW s \in Sessions, GoIdle(s) PROVE Tables'
  BY <1>6 DEF GoIdle, ManagerFree, TypeOK, Tables, Locked, Opened, ManagedIsHosted,
              NoneHalfClosed, openVars, managerVars, closeVars, hostVars, upVars, sendVars,
              serviceVars
<1>7. CASE CloseOnHost
  BY <1>7 DEF CloseOnHost, Release, ManagerFree, TypeOK, Tables, Locked, Opened, ManagedIsHosted,
              NoneHalfClosed, openVars, managerVars, closeVars, hostVars, upVars, sendVars,
              serviceVars
<1>8. CASE DropClosed
  BY <1>8 DEF DropClosed, Release, Without, ManagerFree, TypeOK, Tables, Locked, Opened,
              ManagedIsHosted, NoneHalfClosed, openVars, managerVars, closeVars, hostVars,
              upVars, sendVars, serviceVars
<1>9. ASSUME NEW p \in Peers, Disconnect(p) PROVE Tables'
  BY <1>9 DEF Disconnect, End, OfPeer, ManagerFree, TypeOK, Tables, Locked, Opened,
              ManagedIsHosted, NoneHalfClosed, openVars, managerVars, closeVars, hostVars,
              upVars, sendVars, serviceVars
<1>10. CASE CheckSessions
  BY <1>10 DEF CheckSessions, End, Timeouts, ManagerFree, TypeOK, Tables, Locked, Opened,
               ManagedIsHosted, NoneHalfClosed, openVars, managerVars, closeVars, hostVars,
               upVars, sendVars, serviceVars
<1>11. ASSUME NEW t \in Senders, Find(t) PROVE Tables'
  BY <1>11 DEF Find, Goto, Found, ManagerFree, TypeOK, Tables, Locked, Opened, ManagedIsHosted,
               NoneHalfClosed, openVars, managerVars, closeVars, hostVars, upVars, sendVars,
               serviceVars
<1>12. ASSUME NEW t \in Senders, CheckState(t) PROVE Tables'
  BY <1>12 DEF CheckState, Goto, ManagerFree, TypeOK, Tables, Locked, Opened, ManagedIsHosted,
               NoneHalfClosed, openVars, managerVars, closeVars, hostVars, upVars, sendVars,
               serviceVars
<1>13. ASSUME NEW t \in Senders, FindOnHost(t) PROVE Tables'
  BY <1>13 DEF FindOnHost, Goto, ManagerFree, TypeOK, Tables, Locked, Opened, ManagedIsHosted,
               NoneHalfClosed, openVars, managerVars, closeVars, hostVars, upVars, sendVars,
               serviceVars
<1>14. ASSUME NEW t \in Senders, CheckHostState(t) PROVE Tables'
  BY <1>14 DEF CheckHostState, Goto, ManagerFree, TypeOK, Tables, Locked, Opened,
               ManagedIsHosted, NoneHalfClosed, openVars, managerVars, closeVars, hostVars,
               upVars, sendVars, serviceVars
<1>15. ASSUME NEW t \in Senders, WriteStream(t) PROVE Tables'
  BY <1>15 DEF WriteStream, Goto, AfterFailedWrite, ManagerFree, TypeOK, Tables, Locked, Opened,
               ManagedIsHosted, NoneHalfClosed, openVars, managerVars, closeVars, hostVars,
               upVars, sendVars, serviceVars
<1>16. ASSUME NEW t \in Senders, CountOnHost(t) PROVE Tables'
  BY <1>16 DEF CountOnHost, Goto, ManagerFree, TypeOK, Tables, Locked, Opened, ManagedIsHosted,
               NoneHalfClosed, openVars, managerVars, closeVars, hostVars, upVars, sendVars,
               serviceVars
<1>17. ASSUME NEW t \in Senders, PublishMessage(t) PROVE Tables'
  BY <1>17 DEF PublishMessage, Goto, ManagerFree, TypeOK, Tables, Locked, Opened,
               ManagedIsHosted, NoneHalfClosed, openVars, managerVars, closeVars, hostVars,
               upVars, sendVars, serviceVars
<1>18. ASSUME NEW t \in Senders, Finish(t) PROVE Tables'
  BY <1>18 DEF Finish, Goto, ManagerFree, TypeOK, Tables, Locked, Opened, ManagedIsHosted,
               NoneHalfClosed, openVars, managerVars, closeVars, hostVars, upVars, sendVars,
               serviceVars
<1>19. CASE StartService
  BY <1>19 DEF StartService, ManagerFree, TypeOK, Tables, Locked, Opened, ManagedIsHosted,
               NoneHalfClosed, openVars, managerVars, closeVars, hostVars, upVars, sendVars,
               serviceVars
<1>20. CASE CancelContext
  BY <1>20 DEF CancelContext, ManagerFree, TypeOK, Tables, Locked, Opened, ManagedIsHosted,
               NoneHalfClosed, openVars, managerVars, closeVars, hostVars, upVars, sendVars,
               serviceVars
<1>21. CASE StartReturns
  BY <1>21 DEF StartReturns, ManagerFree, TypeOK, Tables, Locked, Opened, ManagedIsHosted,
               NoneHalfClosed, openVars, managerVars, closeVars, hostVars, upVars, sendVars,
               serviceVars
<1>22. CASE CallStop
  BY <1>22 DEF CallStop, ManagerFree, TypeOK, Tables, Locked, Opened, ManagedIsHosted,
               NoneHalfClosed, openVars, managerVars, closeVars, hostVars, upVars, sendVars,
               serviceVars
<1>23. CASE StopService
  BY <1>23 DEF StopService, StopOrder, ManagerFree, TypeOK, Tables, Locked, Opened,
               ManagedIsHosted, NoneHalfClosed, openVars, managerVars, closeVars, hostVars,
               upVars, sendVars, serviceVars
<1>24. CASE CloseManager
  BY <1>24 DEF CloseManager, StopOrder, ManagerFree, TypeOK, Tables, Locked, Opened,
               ManagedIsHosted, NoneHalfClosed, openVars, managerVars, closeVars, hostVars,
               upVars, sendVars, serviceVars
<1>25. CASE StopHost
  BY <1>25 DEF StopHost, StopOrder, ManagerFree, TypeOK, Tables, Locked, Opened, ManagedIsHosted,
               NoneHalfClosed, openVars, managerVars, closeVars, hostVars, upVars, sendVars,
               serviceVars
<1>26. CASE CloseHost
  BY <1>26 DEF CloseHost, ManagerFree, TypeOK, Tables, Locked, Opened, ManagedIsHosted,
               NoneHalfClosed, openVars, managerVars, closeVars, hostVars, upVars, sendVars,
               serviceVars
<1>27. CASE UNCHANGED vars
  BY <1>27 DEF vars, TypeOK, Tables, Locked, Opened, ManagedIsHosted, NoneHalfClosed, openVars,
               managerVars, closeVars, hostVars, upVars, sendVars, serviceVars
<1> QED
  BY <1>1, <1>2, <1>3, <1>4, <1>5, <1>6, <1>7, <1>8, <1>9, <1>10, <1>11, <1>12, <1>13, <1>14,
     <1>15, <1>16, <1>17, <1>18, <1>19, <1>20, <1>21, <1>22, <1>23, <1>24, <1>25, <1>26, <1>27 DEF Next, Open, Send, Stop

-----------------------------------------------------------------------------
LEMMA SilenceInit == Init => Silence
BY DEF Init, Silence

LEMMA SilenceStep == TypeOK /\ Tables /\ Silence /\ [Next]_vars => Silence'
<1> SUFFICES ASSUME TypeOK, Tables, Silence, [Next]_vars PROVE Silence'
  OBVIOUS
<1> USE SessionsAssumption
<1>1. ASSUME NEW s \in Sessions, CheckOpen(s) PROVE Silence'
  BY <1>1 DEF CheckOpen, ManagerFree, TypeOK, Tables, Locked, Opened, Silence, openVars,
              managerVars, closeVars, hostVars, upVars, sendVars, serviceVars
<1>2. ASSUME NEW s \in Sessions, Dial(s) PROVE Silence'
  BY <1>2 DEF Dial, ManagerFree, TypeOK, Tables, Locked, Opened, Silence, openVars, managerVars,
              closeVars, hostVars, upVars, sendVars, serviceVars
<1>3. ASSUME NEW s \in Sessions, Register(s) PROVE Silence'
  BY <1>3 DEF Register, ManagerFree, TypeOK, Tables, Locked, Opened, Silence, openVars,
              managerVars, closeVars, hostVars, upVars, sendVars, serviceVars
<1>4. ASSUME NEW s \in Sessions, Insert(s) PROVE Silence'
  BY <1>4 DEF Insert, ManagerFree, TypeOK, Tables, Locked, Opened, Silence, openVars,
              managerVars, closeVars, hostVars, upVars, sendVars, serviceVars
<1>5. ASSUME NEW s \in Sessions, BeginClose(s) PROVE Silence'
  BY <1>5 DEF BeginClose, ManagerFree, TypeOK, Tables, Locked, Opened, Silence, openVars,
              managerVars, closeVars, hostVars, upVars, sendVars, serviceVars
<1>6. ASSUME NEW s \in Sessions, GoIdle(s) PROVE Silence'
  BY <1>6 DEF GoIdle, ManagerFree, TypeOK, Tables, Locked, Opened, Silence, openVars,
              managerVars, closeVars, hostVars, upVars, sendVars, serviceVars
<1>7. CASE CloseOnHost
  BY <1>7 DEF CloseOnHost, Release, ManagerFree, TypeOK, Tables, Locked, Opened, Silence,
              openVars, managerVars, closeVars, hostVars, upVars, sendVars, serviceVars
<1>8. CASE DropClosed
  BY <1>8 DEF DropClosed, Release, Without, ManagerFree, TypeOK, Tables, Locked, Opened, Silence,
              openVars, managerVars, closeVars, hostVars, upVars, sendVars, serviceVars
<1>9. ASSUME NEW p \in Peers, Disconnect(p) PROVE Silence'
  BY <1>9 DEF Disconnect, End, OfPeer, ManagerFree, TypeOK, Tables, Locked, Opened, Silence,
              openVars, managerVars, closeVars, hostVars, upVars, sendVars, serviceVars
<1>10. CASE CheckSessions
  BY <1>10 DEF CheckSessions, End, Timeouts, ManagerFree, TypeOK, Tables, Locked, Opened,
               Silence, openVars, managerVars, closeVars, hostVars, upVars, sendVars, serviceVars
<1>11. ASSUME NEW t \in Senders, Find(t) PROVE Silence'
  BY <1>11 DEF Find, Goto, Found, ManagerFree, TypeOK, Tables, Locked, Opened, Silence, openVars,
               managerVars, closeVars, hostVars, upVars, sendVars, serviceVars
<1>12. ASSUME NEW t \in Senders, CheckState(t) PROVE Silence'
  BY <1>12 DEF CheckState, Goto, ManagerFree, TypeOK, Tables, Locked, Opened, Silence, openVars,
               managerVars, closeVars, hostVars, upVars, sendVars, serviceVars
<1>13. ASSUME NEW t \in Senders, FindOnHost(t) PROVE Silence'
  BY <1>13 DEF FindOnHost, Goto, ManagerFree, TypeOK, Tables, Locked, Opened, Silence, openVars,
               managerVars, closeVars, hostVars, upVars, sendVars, serviceVars
<1>14. ASSUME NEW t \in Senders, CheckHostState(t) PROVE Silence'
  BY <1>14 DEF CheckHostState, Goto, ManagerFree, TypeOK, Tables, Locked, Opened, Silence,
               openVars, managerVars, closeVars, hostVars, upVars, sendVars, serviceVars
<1>15. ASSUME NEW t \in Senders, WriteStream(t) PROVE Silence'
  BY <1>15 DEF WriteStream, Goto, AfterFailedWrite, ManagerFree, TypeOK, Tables, Locked, Opened,
               Silence, openVars, managerVars, closeVars, hostVars, upVars, sendVars, serviceVars
<1>16. ASSUME NEW t \in Senders, CountOnHost(t) PROVE Silence'
  BY <1>16 DEF CountOnHost, Goto, ManagerFree, TypeOK, Tables, Locked, Opened, Silence, openVars,
               managerVars, closeVars, hostVars, upVars, sendVars, serviceVars
<1>17. ASSUME NEW t \in Senders, PublishMessage(t) PROVE Silence'
  BY <1>17 DEF PublishMessage, Goto, ManagerFree, TypeOK, Tables, Locked, Opened, Silence,
               openVars, managerVars, closeVars, hostVars, upVars, sendVars, serviceVars
<1>18. ASSUME NEW t \in Senders, Finish(t) PROVE Silence'
  BY <1>18 DEF Finish, Goto, ManagerFree, TypeOK, Tables, Locked, Opened, Silence, openVars,
               managerVars, closeVars, hostVars, upVars, sendVars, serviceVars
<1>19. CASE StartService
  BY <1>19 DEF StartService, ManagerFree, TypeOK, Tables, Locked, Opened, Silence, openVars,
               managerVars, closeVars, hostVars, upVars, sendVars, serviceVars
<1>20. CASE CancelContext
  BY <1>20 DEF CancelContext, ManagerFree, TypeOK, Tables, Locked, Opened, Silence, openVars,
               managerVars, closeVars, hostVars, upVars, sendVars, serviceVars
<1>21. CASE StartReturns
  BY <1>21 DEF StartReturns, ManagerFree, TypeOK, Tables, Locked, Opened, Silence, openVars,
               managerVars, closeVars, hostVars, upVars, sendVars, serviceVars
<1>22. CASE CallStop
  BY <1>22 DEF CallStop, ManagerFree, TypeOK, Tables, Locked, Opened, Silence, openVars,
               managerVars, closeVars, hostVars, upVars, sendVars, serviceVars
<1>23. CASE StopService
  BY <1>23 DEF StopService, StopOrder, ManagerFree, TypeOK, Tables, Locked, Opened, Silence,
               openVars, managerVars, closeVars, hostVars, upVars, sendVars, serviceVars
<1>24. CASE CloseManager
  BY <1>24 DEF CloseManager, StopOrder, ManagerFree, TypeOK, Tables, Locked, Opened, Silence,
               openVars, managerVars, closeVars, hostVars, upVars, sendVars, serviceVars
<1>25. CASE StopHost
  BY <1>25 DEF StopHost, StopOrder, ManagerFree, TypeOK, Tables, Locked, Opened, Silence,
               openVars, managerVars, closeVars, hostVars, upVars, sendVars, serviceVars
<1>26. CASE CloseHost
  BY <1>26 DEF CloseHost, ManagerFree, TypeOK, Tables, Locked, Opened, Silence, openVars,
               managerVars, closeVars, hostVars, upVars, sendVars, serviceVars
<1>27. CASE UNCHANGED vars
  BY <1>27 DEF vars, TypeOK, Tables, Locked, Opened, Silence, openVars, managerVars, closeVars,
               hostVars, upVars, sendVars, serviceVars
<1> QED
  BY <1>1, <1>2, <1>3, <1>4, <1>5, <1>6, <1>7, <1>8, <1>9, <1>10, <1>11, <1>12, <1>13, <1>14,
     <1>15, <1>16, <1>17, <1>18, <1>19, <1>20, <1>21, <1>22, <1>23, <1>24, <1>25, <1>26, <1>27 DEF Next, Open, Send, Stop

-----------------------------------------------------------------------------
(* Every variable keeps its type (Service, SessionManager and Host).        *)
THEOREM SessionsTypeCorrect == Spec => []TypeOK
BY TypeInit, TypeStep, PTL DEF Spec

LEMMA TablesAlways == Spec => [](TypeOK /\ Tables)
BY TypeInit, TypeStep, TablesInit, TablesStep, PTL DEF Spec

(* Until the manager is closed, the host has every session the manager      *)
(* hands out, but for the one being dropped from both (OpenSession,         *)
(* CloseSession, Stop).                                                     *)
THEOREM Hosted == Spec => []ManagedIsHosted
<1>1. Tables => ManagedIsHosted
  BY DEF Tables
<1> QED
  BY TablesAlways, <1>1, PTL

(* CloseSession closes a session in both tables or in neither.              *)
THEOREM ClosesWhole == Spec => []NoneHalfClosed
<1>1. Tables => NoneHalfClosed
  BY DEF Tables
<1> QED
  BY TablesAlways, <1>1, PTL

(* A send begun after its session ended reaches nobody (SendMessage).       *)
THEOREM Silent == Spec => []EndedSessionsAreSilent
<1>1. Silence => EndedSessionsAreSilent
  BY DEF Silence, EndedSessionsAreSilent
<1> QED
  BY TypeInit, TypeStep, TablesInit, TablesStep, SilenceInit, SilenceStep, <1>1, PTL DEF Spec
-----------------------------------------------------------------------------
(* Sends of a session between the two counts. *)
Between(s) == {t \in Senders : target[t] = s /\ send[t] \in {"publish", "finish"}}

(* A step that moves one send tells the other sessions apart from its own.  *)
LEMMA CountsStep == TypeOK /\ CountsAgree /\ [Next]_vars => CountsAgree'
<1> SUFFICES ASSUME TypeOK, CountsAgree, [Next]_vars, NEW s \in Sessions
             PROVE  hostSent'[s] = managerSent'[s] + Cardinality(Between(s)')
  BY DEF CountsAgree, Between
<1>1. hostSent[s] = managerSent[s] + Cardinality(Between(s))
  BY DEF CountsAgree, Between
<1>2. IsFiniteSet(Between(s)) /\ Cardinality(Between(s)) \in Nat
  BY SessionsAssumption, FS_Subset, FS_CardinalityType DEF Between
<1>3. hostSent[s] \in Nat /\ managerSent[s] \in Nat
  BY DEF TypeOK
<1>4. ASSUME UNCHANGED <<hostSent, managerSent>>, Between(s)' = Between(s)
      PROVE  hostSent'[s] = managerSent'[s] + Cardinality(Between(s)')
  BY <1>1, <1>4
<1>5. ASSUME NEW t \in Senders, CountOnHost(t)
      PROVE  hostSent'[s] = managerSent'[s] + Cardinality(Between(s)')
  <2>1. CASE target[t] = s
    <3>1. Between(s)' = Between(s) \cup {t} /\ t \notin Between(s)
      BY <1>5, <2>1 DEF CountOnHost, Goto, Between, TypeOK
    <3>2. Cardinality(Between(s)') = Cardinality(Between(s)) + 1
      BY <1>2, <3>1, FS_AddElement
    <3>3. hostSent'[s] = hostSent[s] + 1 /\ managerSent' = managerSent
      BY <1>5, <2>1 DEF CountOnHost, TypeOK
    <3> QED
      BY <1>1, <1>2, <1>3, <3>2, <3>3
  <2>2. CASE target[t] # s
    <3>1. Between(s)' = Between(s)
      BY <1>5, <2>2 DEF CountOnHost, Goto, Between, TypeOK
    <3>2. hostSent'[s] = hostSent[s] /\ managerSent' = managerSent
      BY <1>5, <2>2 DEF CountOnHost, TypeOK
    <3> QED
      BY <1>1, <3>1, <3>2
  <2> QED
    BY <2>1, <2>2
<1>6. ASSUME NEW t \in Senders, Finish(t)
      PROVE  hostSent'[s] = managerSent'[s] + Cardinality(Between(s)')
  <2>1. CASE target[t] = s
    <3>1. Between(s)' = Between(s) \ {t} /\ t \in Between(s)
      BY <1>6, <2>1 DEF Finish, Goto, Between, TypeOK
    <3>2. Cardinality(Between(s)') = Cardinality(Between(s)) - 1
      BY <1>2, <3>1, FS_RemoveElement
    <3>3. managerSent'[s] = managerSent[s] + 1 /\ hostSent' = hostSent
      BY <1>6, <2>1 DEF Finish, TypeOK
    <3> QED
      BY <1>1, <1>2, <1>3, <3>2, <3>3
  <2>2. CASE target[t] # s
    <3>1. Between(s)' = Between(s)
      BY <1>6, <2>2 DEF Finish, Goto, Between, TypeOK
    <3>2. managerSent'[s] = managerSent[s] /\ hostSent' = hostSent
      BY <1>6, <2>2 DEF Finish, TypeOK
    <3> QED
      BY <1>1, <3>1, <3>2
  <2> QED
    BY <2>1, <2>2
<1>7. ASSUME NEW t \in Senders,
             \/ Find(t) \/ CheckState(t) \/ FindOnHost(t) \/ CheckHostState(t) \/ WriteStream(t)
             \/ PublishMessage(t)
      PROVE  hostSent'[s] = managerSent'[s] + Cardinality(Between(s)')
  <2>1. UNCHANGED <<hostSent, managerSent, target>>
    BY <1>7 DEF Find, CheckState, FindOnHost, CheckHostState, WriteStream, PublishMessage
  <2>2. send' = [send EXCEPT ![t] = send'[t]]
    BY <1>7 DEF TypeOK, Find, CheckState, FindOnHost, CheckHostState, WriteStream, PublishMessage,
                Goto
  <2>3. send'[t] \in {"publish", "finish"} <=> send[t] \in {"publish", "finish"}
    BY <1>7 DEF TypeOK, Find, CheckState, FindOnHost, CheckHostState, WriteStream, PublishMessage,
                Goto, AfterFailedWrite
  <2>4. Between(s)' = Between(s)
    BY <2>1, <2>2, <2>3 DEF Between, TypeOK
  <2> QED
    BY <1>4, <2>1, <2>4
<1>8. ASSUME UNCHANGED sendVars
      PROVE  hostSent'[s] = managerSent'[s] + Cardinality(Between(s)')
  BY <1>4, <1>8 DEF sendVars, Between
<1>9. ASSUME NEW q \in Sessions, Open(q) \/ BeginClose(q) \/ GoIdle(q) PROVE UNCHANGED sendVars
  BY <1>9 DEF Open, CheckOpen, Dial, Register, Insert, BeginClose, GoIdle
<1>10. CASE CloseOnHost \/ DropClosed \/ CheckSessions \/ StartService
  BY <1>8, <1>10 DEF CloseOnHost, DropClosed, CheckSessions, StartService
<1>11. ASSUME NEW p \in Peers, Disconnect(p) PROVE UNCHANGED sendVars
  BY <1>11 DEF Disconnect
<1>12. CASE CancelContext \/ StartReturns \/ CallStop
  BY <1>8, <1>12 DEF CancelContext, StartReturns, CallStop
<1>13. CASE Stop
  BY <1>8, <1>13 DEF Stop, StopService, CloseManager, StopHost, CloseHost
<1>14. CASE UNCHANGED vars
  BY <1>8, <1>14 DEF vars
<1> QED
  BY <1>5, <1>6, <1>7, <1>8, <1>9, <1>10, <1>11, <1>12, <1>13, <1>14 DEF Next, Send

(* The message counts of the two records of a session differ by the sends   *)
(* between the two (SendMessage, Host.Send).                                *)
THEOREM Counts == Spec => []CountsAgree
<1>1. Init => CountsAgree
  BY FS_EmptySet, SMTT(30) DEF Init, CountsAgree
<1> QED
  BY <1>1, CountsStep, SessionsTypeCorrect, PTL DEF Spec
=============================================================================
