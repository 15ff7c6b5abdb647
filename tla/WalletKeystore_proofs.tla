------------------------- MODULE WalletKeystore_proofs -------------------------
(***************************************************************************)
(* Proofs about WalletKeystore, for any processes, calls and passwords.     *)
(***************************************************************************)
EXTENDS WalletKeystore, TLAPS

(* A call that is not over runs in a process that is up; what it is about   *)
(* to use is there, and the mutexes are in the hands the steps say.         *)
Ready ==
    /\ \A c \in Calls :
          /\ step[c] \in Going => at[c] \in Processes /\ up[at[c]]
          /\ step[c] = "making" => making[at[c]] = c /\ wallet[at[c]] # None
          /\ step[c] \in {"bind", "open"} \cup Saving => keystore[at[c]] # None
          /\ step[c] \in {"open"} \cup Saving => payload[c] \in Payloads /\ saver[at[c]] = c
          /\ step[c] \in Saving => fd[c] \in Calls
    /\ \A p \in Processes :
          /\ keystore[p] # None => wallet[p] # None /\ up[p]
          /\ making[p] # None => step[making[p]] = "making" /\ at[making[p]] = p
          /\ saver[p] # None => step[saver[p]] \in {"bind", "open"} \cup Saving /\ at[saver[p]] = p

LEMMA NotPayloads == None \notin Payloads /\ Torn \notin Payloads
BY WalletAssumption DEF Payloads

LEMMA InitBase == Init => TypeOK /\ Ready
<1> SUFFICES ASSUME Init PROVE TypeOK /\ Ready
  OBVIOUS
<1>1. /\ up \in [Processes -> BOOLEAN] /\ unlocked \in [Processes -> BOOLEAN]
      /\ kind \in [Calls -> Kinds]
      /\ step \in [Calls -> {"idle"} \cup Going \cup Answers]
  BY DEF Init, Kinds
<1>2. TypeOK
  BY <1>1 DEF Init, TypeOK
<1>3. Ready
  BY DEF Init, Ready, Going, Saving
<1> QED
  BY <1>2, <1>3

LEMMA TypeStep == TypeOK /\ Ready /\ [Next]_vars => TypeOK'
<1> SUFFICES ASSUME TypeOK, Ready, [Next]_vars PROVE TypeOK'
  OBVIOUS
<1> USE WalletAssumption DEF TypeOK, serviceVars, saveVars, callVars, Going, Saving, Answers, Kinds, Payloads, Ready, Creation
<1>1. ASSUME NEW p \in Processes, Start(p) PROVE TypeOK'
  BY <1>1 DEF Start, Reads
<1>2. ASSUME NEW p \in Processes, Crash(p) PROVE TypeOK'
  BY <1>2 DEF Crash, Dying
<1>3. ASSUME NEW c \in Calls, NEW p \in Processes, NEW k \in {"create", "restore"}, BeginCreation(c, p, k) PROVE TypeOK'
  BY <1>3 DEF BeginCreation, Begin, Goto
<1>4. ASSUME NEW c \in Calls, NEW p \in Processes, Lock(c, p) PROVE TypeOK'
  BY <1>4 DEF Lock, Begin, Goto
<1>5. ASSUME NEW c \in Calls, NEW p \in Processes, Unlock(c, p) PROVE TypeOK'
  <2>1. at' \in [Calls -> Processes \cup {None}] /\ kind' \in [Calls -> Kinds] /\ mixed' \in BOOLEAN
    BY <1>5 DEF Unlock, Begin
  <2>2. CASE Opens(p, c)
    <3>1. /\ unlocked' = [unlocked EXCEPT ![p] = TRUE]
          /\ saver' = [saver EXCEPT ![p] = c]
          /\ step' = [step EXCEPT ![c] = "bind"]
      BY <1>5, <2>2 DEF Unlock, Goto
    <3>2. /\ unlocked' \in [Processes -> BOOLEAN]
          /\ saver' \in [Processes -> Calls \cup {None}]
          /\ step' \in [Calls -> {"idle"} \cup Going \cup Answers]
      BY <3>1
    <3> QED
      BY <1>5, <2>1, <3>2 DEF Unlock
  <2>3. CASE ~ Opens(p, c)
    <3>1. /\ unlocked' = unlocked /\ saver' = saver
          /\ step' = [step EXCEPT ![c] = IF keystore[p] = None THEN "noWallet" ELSE "wrong"]
      BY <1>5, <2>3 DEF Unlock, Goto
    <3>2. step' \in [Calls -> {"idle"} \cup Going \cup Answers]
      BY <3>1
    <3> QED
      BY <1>5, <2>1, <3>1, <3>2 DEF Unlock
  <2> QED
    BY <2>2, <2>3
<1>6. ASSUME NEW c \in Calls, NEW p \in Processes, Mnemonic(c, p) PROVE TypeOK'
  BY <1>6 DEF Mnemonic, Begin, Goto
<1>7. ASSUME NEW c \in Calls, FinishCreation(c) PROVE TypeOK'
  BY <1>7 DEF FinishCreation, Goto, NewKeystore
<1>8. ASSUME NEW c \in Calls, UnlockInner(c) PROVE TypeOK'
  BY <1>8 DEF UnlockInner, Goto, Opens
<1>9. ASSUME NEW c \in Calls, Decrypt(c) PROVE TypeOK'
  BY <1>9 DEF Decrypt, Goto, Opens
<1>10. ASSUME NEW c \in Calls, Bind(c) PROVE TypeOK'
  BY <1>10 DEF Bind, Goto, Done
<1>11. ASSUME NEW c \in Calls, OpenTmp(c) PROVE TypeOK'
  BY <1>11 DEF OpenTmp, Goto, TmpInode
<1>12. ASSUME NEW c \in Calls, Write(c) PROVE TypeOK'
  BY <1>12 DEF Write, Goto, Done, OnError
<1>13. ASSUME NEW c \in Calls, Rename(c) PROVE TypeOK'
  BY <1>13 DEF Rename, Goto, Done
<1>14. ASSUME NEW c \in Calls, RemoveTmp(c) PROVE TypeOK'
  BY <1>14 DEF RemoveTmp, Done, OnError
<1>15. CASE UNCHANGED vars
  BY <1>15 DEF vars
<1> QED
  BY <1>1, <1>2, <1>3, <1>4, <1>5, <1>6, <1>7, <1>8, <1>9, <1>10, <1>11, <1>12, <1>13, <1>14, <1>15 DEF Next

LEMMA ReadyStep == TypeOK /\ Ready /\ [Next]_vars => Ready'
<1> SUFFICES ASSUME TypeOK, Ready, [Next]_vars PROVE Ready'
  OBVIOUS
<1> USE WalletAssumption DEF TypeOK, serviceVars, saveVars, callVars, Going, Saving, Answers
<1>1. ASSUME NEW p \in Processes, Start(p) PROVE Ready'
  BY <1>1 DEF Start, Reads, Ready
<1>2. ASSUME NEW p \in Processes, Crash(p) PROVE Ready'
  BY <1>2 DEF Crash, Dying, Ready
<1>3. ASSUME NEW c \in Calls, NEW p \in Processes, NEW k \in {"create", "restore"}, BeginCreation(c, p, k) PROVE Ready'
  BY <1>3 DEF BeginCreation, Begin, Goto, Ready
<1>4. ASSUME NEW c \in Calls, NEW p \in Processes, Lock(c, p) PROVE Ready'
  BY <1>4 DEF Lock, Begin, Goto, Ready
<1>5. ASSUME NEW c \in Calls, NEW p \in Processes, Unlock(c, p) PROVE Ready'
  BY <1>5 DEF Unlock, Begin, Goto, Opens, Ready
<1>6. ASSUME NEW c \in Calls, NEW p \in Processes, Mnemonic(c, p) PROVE Ready'
  BY <1>6 DEF Mnemonic, Begin, Goto, Ready
<1>7. ASSUME NEW c \in Calls, FinishCreation(c) PROVE Ready'
  BY <1>7 DEF FinishCreation, Goto, NewKeystore, Ready
<1>8. ASSUME NEW c \in Calls, UnlockInner(c) PROVE Ready'
  BY <1>8 DEF UnlockInner, Goto, Opens, Ready
<1>9. ASSUME NEW c \in Calls, Decrypt(c) PROVE Ready'
  BY <1>9 DEF Decrypt, Goto, Opens, Ready
<1>10. ASSUME NEW c \in Calls, Bind(c) PROVE Ready'
  <2>1. /\ step[c] = "bind" /\ at[c] \in Processes /\ up[at[c]] /\ saver[at[c]] \in {None, c}
        /\ keystore[at[c]] # None /\ wallet[at[c]] # None
    BY <1>10 DEF Bind, Ready
  <2>2. CASE Creation(kind[c]) /\ file # None
    <3>1. Done(c, "exists") /\ UNCHANGED serviceVars
      BY <1>10, <2>2 DEF Bind
    <3> QED
      BY <2>1, <3>1 DEF Done, Ready
  <2>3. CASE ~ (Creation(kind[c]) /\ file # None)
    <3> DEFINE new == [meta |-> IF Creation(kind[c]) THEN c ELSE wallet[at[c]],
                       key  |-> keystore[at[c]]]
    <3>1. new \in Payloads
      BY <2>1 DEF Payloads
    <3> HIDE DEF new
    <3>2. /\ step' = [step EXCEPT ![c] = "open"]
          /\ saver' = [saver EXCEPT ![at[c]] = c]
          /\ payload' = [payload EXCEPT ![c] = new]
          /\ UNCHANGED <<serviceVars, at, fd>>
      BY <1>10, <2>3 DEF Bind, Goto, new
    <3> QED
      BY <2>1, <3>1, <3>2 DEF Ready
  <2> QED
    BY <2>2, <2>3
<1>11. ASSUME NEW c \in Calls, OpenTmp(c) PROVE Ready'
  BY <1>11 DEF OpenTmp, Goto, TmpInode, Ready
<1>12. ASSUME NEW c \in Calls, Write(c) PROVE Ready'
  BY <1>12 DEF Write, Goto, Done, OnError, Ready
<1>13. ASSUME NEW c \in Calls, Rename(c) PROVE Ready'
  BY <1>13 DEF Rename, Goto, Done, Ready
<1>14. ASSUME NEW c \in Calls, RemoveTmp(c) PROVE Ready'
  BY <1>14 DEF RemoveTmp, Done, OnError, Ready
<1>15. CASE UNCHANGED vars
  BY <1>15 DEF vars, Ready
<1> QED
  BY <1>1, <1>2, <1>3, <1>4, <1>5, <1>6, <1>7, <1>8, <1>9, <1>10, <1>11, <1>12, <1>13, <1>14, <1>15 DEF Next

(* Of two calls that run in one process, neither is a creation, unless mixed. *)
Beside ==
    \A c, d \in Calls :
        (c # d /\ step[c] \in Going /\ step[d] \in Going /\ at[c] = at[d] /\ Creation(kind[c]))
            => mixed

(* The steps a creation has, and those it has not.                          *)
Makers ==
    \A c \in Calls :
        /\ step[c] = "making" => Creation(kind[c])
        /\ step[c] \in {"look", "decrypt"} => ~ Creation(kind[c])

(* The keystore in memory belongs to the wallet in memory.                  *)
Matching ==
    ~ mixed =>
        /\ \A p \in Processes :
              making[p] = None /\ keystore[p] # None => wallet[p] = keystore[p]
        /\ \A c \in Calls :
              /\ step[c] = "making" => wallet[at[c]] = c
              /\ step[c] = "bind" /\ Creation(kind[c]) => keystore[at[c]] = c

Good(saved) == saved.key # None /\ (mixed \/ saved.key = saved.meta)

(* Whatever is saved has the keystore of its wallet.                        *)
Saved ==
    \A c \in Calls :
        /\ payload[c] \in Payloads => Good(payload[c])
        /\ content[c] \in Payloads => Good(content[c])

(* An inode has the name of the call that makes it.                         *)
Fresh ==
    \A c \in Calls :
        step[c] \in {"idle"} \cup (Going \ Saving) =>
            file # c /\ tmp # c /\ \A d \in Calls : fd[d] # c

(* Without overlap one call saves at a time.                                *)
OneSaves ==
    ~ overlap => \A c, d \in Calls : step[c] \in Saving /\ step[d] \in Saving => c = d

(* Without overlap a save works on a file nobody else has.                  *)
Whole ==
    ~ overlap =>
        /\ file # None => Reads(file) /\ tmp # file
        /\ \A c \in Calls :
              /\ step[c] \in {"write", "rename"} => fd[c] = tmp
              /\ step[c] = "write" => content[fd[c]] = None
              /\ step[c] = "rename" => Reads(fd[c])

Made(c) == Creation(kind[c]) /\ step[c] # "idle"

(* Wallets and keystores come from creations.                               *)
Names ==
    /\ \A p \in Processes :
          /\ wallet[p] # None => Made(wallet[p])
          /\ keystore[p] # None => Made(keystore[p]) /\ step[keystore[p]] # "making"
    /\ \A c \in Calls :
          /\ payload[c] \in Payloads =>
                Made(payload[c].meta) /\ (payload[c].key # None => Made(payload[c].key))
          /\ content[c] \in Payloads =>
                Made(content[c].meta) /\ (content[c].key # None => Made(content[c].key))

(* A keystore is only in the process that made it: none is read from disk.  *)
OneOwner ==
    \A p, q \in Processes : keystore[p] # None /\ keystore[p] = keystore[q] => p = q

Only(c) == \A d \in Calls \ {c} : step[d] = "idle" \/ ~ Creation(kind[d])

(* With one creation there is one process that saves.                       *)
Peace == (\E c \in Calls : Only(c)) => ~ overlap

(* A creation is acknowledged when there is a file.                         *)
Acknowledged == \A c \in Calls : step[c] = "ok" /\ Creation(kind[c]) => file # None

Inv ==
    /\ TypeOK /\ Ready
    /\ Makers /\ Beside /\ Matching /\ Saved
    /\ Fresh /\ OneSaves /\ Whole
    /\ Names /\ OneOwner /\ Peace /\ Acknowledged

LEMMA InitRest ==
    Init => /\ Makers /\ Beside /\ Matching /\ Saved /\ Fresh /\ OneSaves /\ Whole
            /\ Names /\ OneOwner /\ Peace /\ Acknowledged
BY WalletAssumption DEF Init, Makers, Beside, Matching, Saved, Fresh, OneSaves, Whole, Names, OneOwner, Peace,
    Acknowledged, Going, Saving, Payloads

LEMMA BesideStep == TypeOK /\ Ready /\ Beside /\ [Next]_vars => Beside'
<1> SUFFICES ASSUME TypeOK, Ready, Beside, [Next]_vars PROVE Beside'
  OBVIOUS
<1> USE WalletAssumption DEF TypeOK, serviceVars, saveVars, callVars, Going, Saving, Answers
<1>1. ASSUME NEW p \in Processes, Start(p) PROVE Beside'
  BY <1>1 DEF Start, Reads, Beside, Creation
<1>2. ASSUME NEW p \in Processes, Crash(p) PROVE Beside'
  BY <1>2 DEF Crash, Dying, Beside, Creation
<1>3. ASSUME NEW c \in Calls, NEW p \in Processes, NEW k \in {"create", "restore"}, BeginCreation(c, p, k) PROVE Beside'
  BY <1>3 DEF BeginCreation, Begin, Goto, Beside, Creation
<1>4. ASSUME NEW c \in Calls, NEW p \in Processes, Lock(c, p) PROVE Beside'
  BY <1>4 DEF Lock, Begin, Goto, Beside, Creation
<1>5. ASSUME NEW c \in Calls, NEW p \in Processes, Unlock(c, p) PROVE Beside'
  BY <1>5 DEF Unlock, Begin, Goto, Opens, Beside, Creation
<1>6. ASSUME NEW c \in Calls, NEW p \in Processes, Mnemonic(c, p) PROVE Beside'
  BY <1>6 DEF Mnemonic, Begin, Goto, Beside, Creation
<1>7. ASSUME NEW c \in Calls, FinishCreation(c) PROVE Beside'
  BY <1>7 DEF FinishCreation, Goto, NewKeystore, Beside, Creation
<1>8. ASSUME NEW c \in Calls, UnlockInner(c) PROVE Beside'
  BY <1>8 DEF UnlockInner, Goto, Opens, Beside, Creation
<1>9. ASSUME NEW c \in Calls, Decrypt(c) PROVE Beside'
  BY <1>9 DEF Decrypt, Goto, Opens, Beside, Creation
<1>10. ASSUME NEW c \in Calls, Bind(c) PROVE Beside'
  BY <1>10 DEF Bind, Goto, Done, Beside, Creation
<1>11. ASSUME NEW c \in Calls, OpenTmp(c) PROVE Beside'
  BY <1>11 DEF OpenTmp, Goto, TmpInode, Beside, Creation
<1>12. ASSUME NEW c \in Calls, Write(c) PROVE Beside'
  BY <1>12 DEF Write, Goto, Done, OnError, Beside, Creation
<1>13. ASSUME NEW c \in Calls, Rename(c) PROVE Beside'
  BY <1>13 DEF Rename, Goto, Done, Beside, Creation
<1>14. ASSUME NEW c \in Calls, RemoveTmp(c) PROVE Beside'
  BY <1>14 DEF RemoveTmp, Done, OnError, Beside, Creation
<1>15. CASE UNCHANGED vars
  BY <1>15 DEF vars, Beside, Creation
<1> QED
  BY <1>1, <1>2, <1>3, <1>4, <1>5, <1>6, <1>7, <1>8, <1>9, <1>10, <1>11, <1>12, <1>13, <1>14, <1>15 DEF Next

LEMMA MakersStep == TypeOK /\ Makers /\ [Next]_vars => Makers'
<1> SUFFICES ASSUME TypeOK, Makers, [Next]_vars PROVE Makers'
  OBVIOUS
<1> USE WalletAssumption DEF TypeOK, serviceVars, saveVars, callVars, Going, Saving, Answers
<1>1. ASSUME NEW p \in Processes, Start(p) PROVE Makers'
  BY <1>1 DEF Start, Reads, Makers, Creation
<1>2. ASSUME NEW p \in Processes, Crash(p) PROVE Makers'
  BY <1>2 DEF Crash, Dying, Makers, Creation
<1>3. ASSUME NEW c \in Calls, NEW p \in Processes, NEW k \in {"create", "restore"}, BeginCreation(c, p, k) PROVE Makers'
  BY <1>3 DEF BeginCreation, Begin, Goto, Makers, Creation
<1>4. ASSUME NEW c \in Calls, NEW p \in Processes, Lock(c, p) PROVE Makers'
  BY <1>4 DEF Lock, Begin, Goto, Makers, Creation
<1>5. ASSUME NEW c \in Calls, NEW p \in Processes, Unlock(c, p) PROVE Makers'
  BY <1>5 DEF Unlock, Begin, Goto, Opens, Makers, Creation
<1>6. ASSUME NEW c \in Calls, NEW p \in Processes, Mnemonic(c, p) PROVE Makers'
  BY <1>6 DEF Mnemonic, Begin, Goto, Makers, Creation
<1>7. ASSUME NEW c \in Calls, FinishCreation(c) PROVE Makers'
  BY <1>7 DEF FinishCreation, Goto, NewKeystore, Makers, Creation
<1>8. ASSUME NEW c \in Calls, UnlockInner(c) PROVE Makers'
  BY <1>8 DEF UnlockInner, Goto, Opens, Makers, Creation
<1>9. ASSUME NEW c \in Calls, Decrypt(c) PROVE Makers'
  BY <1>9 DEF Decrypt, Goto, Opens, Makers, Creation
<1>10. ASSUME NEW c \in Calls, Bind(c) PROVE Makers'
  BY <1>10 DEF Bind, Goto, Done, Makers, Creation
<1>11. ASSUME NEW c \in Calls, OpenTmp(c) PROVE Makers'
  BY <1>11 DEF OpenTmp, Goto, TmpInode, Makers, Creation
<1>12. ASSUME NEW c \in Calls, Write(c) PROVE Makers'
  BY <1>12 DEF Write, Goto, Done, OnError, Makers, Creation
<1>13. ASSUME NEW c \in Calls, Rename(c) PROVE Makers'
  BY <1>13 DEF Rename, Goto, Done, Makers, Creation
<1>14. ASSUME NEW c \in Calls, RemoveTmp(c) PROVE Makers'
  BY <1>14 DEF RemoveTmp, Done, OnError, Makers, Creation
<1>15. CASE UNCHANGED vars
  BY <1>15 DEF vars, Makers, Creation
<1> QED
  BY <1>1, <1>2, <1>3, <1>4, <1>5, <1>6, <1>7, <1>8, <1>9, <1>10, <1>11, <1>12, <1>13, <1>14, <1>15 DEF Next

LEMMA MatchingStep == TypeOK /\ Ready /\ Makers /\ Beside /\ Matching /\ [Next]_vars => Matching'
<1> SUFFICES ASSUME TypeOK, Ready, Makers, Beside, Matching, [Next]_vars PROVE Matching'
  OBVIOUS
<1> USE WalletAssumption DEF TypeOK, serviceVars, saveVars, callVars, Going, Saving, Answers
<1>1. ASSUME NEW p \in Processes, Start(p) PROVE Matching'
  <2>1. /\ UNCHANGED <<making, keystore, step, kind, at, mixed>> /\ ~ up[p]
        /\ \A q \in Processes : q # p => wallet'[q] = wallet[q]
    BY <1>1 DEF Start
  <2>2. keystore[p] = None /\ \A d \in Calls : step[d] \in Going => at[d] # p
    BY <2>1 DEF Ready
  <2> QED
    BY <2>1, <2>2 DEF Matching, Ready
<1>2. ASSUME NEW p \in Processes, Crash(p) PROVE Matching'
  BY <1>2 DEF Crash, Dying, Matching, Creation
<1>3. ASSUME NEW c \in Calls, NEW p \in Processes, NEW k \in {"create", "restore"}, BeginCreation(c, p, k) PROVE Matching'
  BY <1>3 DEF BeginCreation, Begin, Goto, Matching, Creation
<1>4. ASSUME NEW c \in Calls, NEW p \in Processes, Lock(c, p) PROVE Matching'
  BY <1>4 DEF Lock, Begin, Goto, Matching, Creation
<1>5. ASSUME NEW c \in Calls, NEW p \in Processes, Unlock(c, p) PROVE Matching'
  BY <1>5 DEF Unlock, Begin, Goto, Opens, Matching, Creation
<1>6. ASSUME NEW c \in Calls, NEW p \in Processes, Mnemonic(c, p) PROVE Matching'
  BY <1>6 DEF Mnemonic, Begin, Goto, Matching, Creation
<1>7. ASSUME NEW c \in Calls, FinishCreation(c) PROVE Matching'
  <2> SUFFICES ASSUME ~ mixed' PROVE Matching'
    BY DEF Matching
  <2> DEFINE p == at[c]
  <2>1. /\ step[c] = "making" /\ p \in Processes /\ making[p] = c /\ ~ mixed
        /\ UNCHANGED <<wallet, kind, at, mixed>>
        /\ keystore' = [keystore EXCEPT ![p] = c]
        /\ making' = [making EXCEPT ![p] = None]
        /\ step' = [step EXCEPT ![c] = "bind"]
    BY <1>7 DEF FinishCreation, Goto, NewKeystore, Ready
  <2>2. wallet[p] = c
    BY <2>1 DEF Matching
  <2>3. ASSUME NEW d \in Calls, step'[d] = "bind", Creation(kind'[d]) PROVE keystore'[at'[d]] = d
    <3>1. CASE d = c
      BY <2>1, <3>1
    <3>2. CASE d # c
      <4>1. step[d] = "bind" /\ Creation(kind[d])
        BY <2>1, <2>3, <3>2
      <4>2. at[d] # p
        BY <2>1, <3>2, <4>1 DEF Beside
      <4> QED
        BY <2>1, <4>1, <4>2 DEF Matching, Ready
    <3> QED
      BY <3>1, <3>2
  <2>4. ASSUME NEW q \in Processes, making'[q] = None, keystore'[q] # None
        PROVE  wallet'[q] = keystore'[q]
    BY <2>1, <2>2, <2>4 DEF Matching
  <2>5. ASSUME NEW d \in Calls, step'[d] = "making" PROVE wallet'[at'[d]] = d
    BY <2>1, <2>5 DEF Matching
  <2> QED
    BY <2>3, <2>4, <2>5 DEF Matching
<1>8. ASSUME NEW c \in Calls, UnlockInner(c) PROVE Matching'
  BY <1>8 DEF UnlockInner, Goto, Opens, Matching, Creation
<1>9. ASSUME NEW c \in Calls, Decrypt(c) PROVE Matching'
  <2>1. UNCHANGED <<making, wallet, keystore, kind, at, mixed>>
    BY <1>9 DEF Decrypt
  <2>2. \A d \in Calls : step'[d] = "bind" => step[d] = "bind" \/ (d = c /\ step[c] = "decrypt")
    BY <1>9 DEF Decrypt, Goto
  <2>3. step[c] = "decrypt" => ~ Creation(kind[c])
    BY DEF Makers
  <2>4. \A d \in Calls : step'[d] = "making" => step[d] = "making"
    BY <1>9 DEF Decrypt, Goto
  <2> QED
    BY <2>1, <2>2, <2>3, <2>4 DEF Matching
<1>10. ASSUME NEW c \in Calls, Bind(c) PROVE Matching'
  BY <1>10 DEF Bind, Goto, Done, Matching, Creation
<1>11. ASSUME NEW c \in Calls, OpenTmp(c) PROVE Matching'
  BY <1>11 DEF OpenTmp, Goto, TmpInode, Matching, Creation
<1>12. ASSUME NEW c \in Calls, Write(c) PROVE Matching'
  BY <1>12 DEF Write, Goto, Done, OnError, Matching, Creation
<1>13. ASSUME NEW c \in Calls, Rename(c) PROVE Matching'
  BY <1>13 DEF Rename, Goto, Done, Matching, Creation
<1>14. ASSUME NEW c \in Calls, RemoveTmp(c) PROVE Matching'
  BY <1>14 DEF RemoveTmp, Done, OnError, Matching, Creation
<1>15. CASE UNCHANGED vars
  BY <1>15 DEF vars, Matching, Creation
<1> QED
  BY <1>1, <1>2, <1>3, <1>4, <1>5, <1>6, <1>7, <1>8, <1>9, <1>10, <1>11, <1>12, <1>13, <1>14, <1>15 DEF Next

LEMMA SavedStep == TypeOK /\ Ready /\ Makers /\ Beside /\ Matching /\ Saved /\ [Next]_vars => Saved'
<1> SUFFICES ASSUME TypeOK, Ready, Makers, Beside, Matching, Saved, [Next]_vars PROVE Saved'
  OBVIOUS
<1> USE WalletAssumption DEF TypeOK, serviceVars, saveVars, callVars, Going, Saving, Answers
<1>1. ASSUME NEW p \in Processes, Start(p) PROVE Saved'
  BY <1>1 DEF Start, Reads, Saved, Good
<1>2. ASSUME NEW p \in Processes, Crash(p) PROVE Saved'
  <2>1. \A d \in Calls : payload'[d] \in {payload[d], None} /\ content'[d] = content[d] /\ mixed' = mixed
    BY <1>2 DEF Crash, Dying
  <2> QED
    BY <2>1, NotPayloads DEF Saved, Good
<1>3. ASSUME NEW c \in Calls, NEW p \in Processes, NEW k \in {"create", "restore"}, BeginCreation(c, p, k) PROVE Saved'
  BY <1>3 DEF BeginCreation, Begin, Goto, Saved, Good
<1>4. ASSUME NEW c \in Calls, NEW p \in Processes, Lock(c, p) PROVE Saved'
  BY <1>4 DEF Lock, Begin, Goto, Saved, Good
<1>5. ASSUME NEW c \in Calls, NEW p \in Processes, Unlock(c, p) PROVE Saved'
  BY <1>5 DEF Unlock, Begin, Goto, Opens, Saved, Good
<1>6. ASSUME NEW c \in Calls, NEW p \in Processes, Mnemonic(c, p) PROVE Saved'
  BY <1>6 DEF Mnemonic, Begin, Goto, Saved, Good
<1>7. ASSUME NEW c \in Calls, FinishCreation(c) PROVE Saved'
  BY <1>7 DEF FinishCreation, Goto, NewKeystore, Saved, Good
<1>8. ASSUME NEW c \in Calls, UnlockInner(c) PROVE Saved'
  BY <1>8 DEF UnlockInner, Goto, Opens, Saved, Good
<1>9. ASSUME NEW c \in Calls, Decrypt(c) PROVE Saved'
  BY <1>9 DEF Decrypt, Goto, Opens, Saved, Good
<1>10. ASSUME NEW c \in Calls, Bind(c) PROVE Saved'
  <2> DEFINE new == [meta |-> IF Creation(kind[c]) THEN c ELSE wallet[at[c]],
                     key  |-> keystore[at[c]]]
  <2>1. /\ \A d \in Calls : payload'[d] \in {payload[d], None} \/ (d = c /\ payload'[d] = new)
        /\ content' = content /\ mixed' = mixed
    BY <1>10 DEF Bind, Done
  <2>2. /\ step[c] = "bind" /\ at[c] \in Processes /\ keystore[at[c]] # None
        /\ making[at[c]] # None => step[making[at[c]]] = "making" /\ at[making[at[c]]] = at[c]
    BY <1>10 DEF Bind, Ready
  <2>3. CASE Creation(kind[c])
    <3>1. mixed \/ new.key = new.meta
      BY <2>2, <2>3 DEF Matching
    <3> QED
      BY <2>1, <2>2, <3>1, NotPayloads DEF Saved, Good
  <2>4. CASE ~ Creation(kind[c])
    <3>1. making[at[c]] # None => mixed
      <4>1. ASSUME making[at[c]] # None PROVE Creation(kind[making[at[c]]]) /\ making[at[c]] \in Calls
        BY <2>2, <4>1 DEF Makers
      <4> QED
        BY <2>2, <4>1 DEF Beside
    <3>2. mixed \/ new.key = new.meta
      BY <2>2, <2>4, <3>1 DEF Matching
    <3> QED
      BY <2>1, <2>2, <3>2, NotPayloads DEF Saved, Good
  <2> QED
    BY <2>3, <2>4
<1>11. ASSUME NEW c \in Calls, OpenTmp(c) PROVE Saved'
  <2>1. \A d \in Calls : payload'[d] = payload[d] /\ content'[d] \in {content[d], None} /\ mixed' = mixed
    BY <1>11 DEF OpenTmp, TmpInode
  <2> QED
    BY <2>1, NotPayloads DEF Saved, Good
<1>12. ASSUME NEW c \in Calls, Write(c) PROVE Saved'
  <2>1. \A d \in Calls : payload'[d] \in {payload[d], None} /\ content'[d] \in {content[d], payload[c], Torn} /\ mixed' = mixed
    BY <1>12 DEF Write, Done
  <2> QED
    BY <2>1, NotPayloads DEF Saved, Good
<1>13. ASSUME NEW c \in Calls, Rename(c) PROVE Saved'
  <2>1. \A d \in Calls : payload'[d] \in {payload[d], None} /\ content'[d] = content[d] /\ mixed' = mixed
    BY <1>13 DEF Rename, Done
  <2> QED
    BY <2>1, NotPayloads DEF Saved, Good
<1>14. ASSUME NEW c \in Calls, RemoveTmp(c) PROVE Saved'
  <2>1. \A d \in Calls : payload'[d] \in {payload[d], None} /\ content'[d] = content[d] /\ mixed' = mixed
    BY <1>14 DEF RemoveTmp, Done
  <2> QED
    BY <2>1, NotPayloads DEF Saved, Good
<1>15. CASE UNCHANGED vars
  BY <1>15 DEF vars, Saved, Good
<1> QED
  BY <1>1, <1>2, <1>3, <1>4, <1>5, <1>6, <1>7, <1>8, <1>9, <1>10, <1>11, <1>12, <1>13, <1>14, <1>15 DEF Next

LEMMA FreshStep == TypeOK /\ Ready /\ Fresh /\ [Next]_vars => Fresh'
<1> SUFFICES ASSUME TypeOK, Ready, Fresh, [Next]_vars PROVE Fresh'
  OBVIOUS
<1> USE WalletAssumption DEF TypeOK, serviceVars, saveVars, callVars, Going, Saving, Answers
<1>1. ASSUME NEW p \in Processes, Start(p) PROVE Fresh'
  BY <1>1 DEF Start, Reads, Fresh
<1>2. ASSUME NEW p \in Processes, Crash(p) PROVE Fresh'
  BY <1>2 DEF Crash, Dying, Fresh
<1>3. ASSUME NEW c \in Calls, NEW p \in Processes, NEW k \in {"create", "restore"}, BeginCreation(c, p, k) PROVE Fresh'
  BY <1>3 DEF BeginCreation, Begin, Goto, Fresh
<1>4. ASSUME NEW c \in Calls, NEW p \in Processes, Lock(c, p) PROVE Fresh'
  BY <1>4 DEF Lock, Begin, Goto, Fresh
<1>5. ASSUME NEW c \in Calls, NEW p \in Processes, Unlock(c, p) PROVE Fresh'
  BY <1>5 DEF Unlock, Begin, Goto, Opens, Fresh
<1>6. ASSUME NEW c \in Calls, NEW p \in Processes, Mnemonic(c, p) PROVE Fresh'
  BY <1>6 DEF Mnemonic, Begin, Goto, Fresh
<1>7. ASSUME NEW c \in Calls, FinishCreation(c) PROVE Fresh'
  BY <1>7 DEF FinishCreation, Goto, NewKeystore, Fresh
<1>8. ASSUME NEW c \in Calls, UnlockInner(c) PROVE Fresh'
  BY <1>8 DEF UnlockInner, Goto, Opens, Fresh
<1>9. ASSUME NEW c \in Calls, Decrypt(c) PROVE Fresh'
  BY <1>9 DEF Decrypt, Goto, Opens, Fresh
<1>10. ASSUME NEW c \in Calls, Bind(c) PROVE Fresh'
  BY <1>10 DEF Bind, Goto, Done, Fresh
<1>11. ASSUME NEW c \in Calls, OpenTmp(c) PROVE Fresh'
  BY <1>11 DEF OpenTmp, Goto, TmpInode, Fresh
<1>12. ASSUME NEW c \in Calls, Write(c) PROVE Fresh'
  BY <1>12 DEF Write, Goto, Done, OnError, Fresh
<1>13. ASSUME NEW c \in Calls, Rename(c) PROVE Fresh'
  BY <1>13 DEF Rename, Goto, Done, Fresh
<1>14. ASSUME NEW c \in Calls, RemoveTmp(c) PROVE Fresh'
  BY <1>14 DEF RemoveTmp, Done, OnError, Fresh
<1>15. CASE UNCHANGED vars
  BY <1>15 DEF vars, Fresh
<1> QED
  BY <1>1, <1>2, <1>3, <1>4, <1>5, <1>6, <1>7, <1>8, <1>9, <1>10, <1>11, <1>12, <1>13, <1>14, <1>15 DEF Next

LEMMA OneSavesStep == TypeOK /\ Ready /\ OneSaves /\ [Next]_vars => OneSaves'
<1> SUFFICES ASSUME TypeOK, Ready, OneSaves, [Next]_vars PROVE OneSaves'
  OBVIOUS
<1> USE WalletAssumption DEF TypeOK, serviceVars, saveVars, callVars, Going, Saving, Answers, Ready
<1>1. ASSUME NEW p \in Processes, Start(p) PROVE OneSaves'
  BY <1>1 DEF Start, Reads, OneSaves
<1>2. ASSUME NEW p \in Processes, Crash(p) PROVE OneSaves'
  BY <1>2 DEF Crash, Dying, OneSaves
<1>3. ASSUME NEW c \in Calls, NEW p \in Processes, NEW k \in {"create", "restore"}, BeginCreation(c, p, k) PROVE OneSaves'
  BY <1>3 DEF BeginCreation, Begin, Goto, OneSaves
<1>4. ASSUME NEW c \in Calls, NEW p \in Processes, Lock(c, p) PROVE OneSaves'
  BY <1>4 DEF Lock, Begin, Goto, OneSaves
<1>5. ASSUME NEW c \in Calls, NEW p \in Processes, Unlock(c, p) PROVE OneSaves'
  BY <1>5 DEF Unlock, Begin, Goto, Opens, OneSaves
<1>6. ASSUME NEW c \in Calls, NEW p \in Processes, Mnemonic(c, p) PROVE OneSaves'
  BY <1>6 DEF Mnemonic, Begin, Goto, OneSaves
<1>7. ASSUME NEW c \in Calls, FinishCreation(c) PROVE OneSaves'
  BY <1>7 DEF FinishCreation, Goto, NewKeystore, OneSaves
<1>8. ASSUME NEW c \in Calls, UnlockInner(c) PROVE OneSaves'
  BY <1>8 DEF UnlockInner, Goto, Opens, OneSaves
<1>9. ASSUME NEW c \in Calls, Decrypt(c) PROVE OneSaves'
  BY <1>9 DEF Decrypt, Goto, Opens, OneSaves
<1>10. ASSUME NEW c \in Calls, Bind(c) PROVE OneSaves'
  BY <1>10 DEF Bind, Goto, Done, OneSaves
<1>11. ASSUME NEW c \in Calls, OpenTmp(c) PROVE OneSaves'
  BY <1>11 DEF OpenTmp, Goto, TmpInode, OneSaves
<1>12. ASSUME NEW c \in Calls, Write(c) PROVE OneSaves'
  BY <1>12 DEF Write, Goto, Done, OnError, OneSaves
<1>13. ASSUME NEW c \in Calls, Rename(c) PROVE OneSaves'
  BY <1>13 DEF Rename, Goto, Done, OneSaves
<1>14. ASSUME NEW c \in Calls, RemoveTmp(c) PROVE OneSaves'
  BY <1>14 DEF RemoveTmp, Done, OnError, OneSaves
<1>15. CASE UNCHANGED vars
  BY <1>15 DEF vars, OneSaves
<1> QED
  BY <1>1, <1>2, <1>3, <1>4, <1>5, <1>6, <1>7, <1>8, <1>9, <1>10, <1>11, <1>12, <1>13, <1>14, <1>15 DEF Next

LEMMA WholeStep == TypeOK /\ Ready /\ Fresh /\ OneSaves /\ Whole /\ [Next]_vars => Whole'
<1> SUFFICES ASSUME TypeOK, Ready, Fresh, OneSaves, Whole, [Next]_vars PROVE Whole'
  OBVIOUS
<1> USE WalletAssumption DEF TypeOK, serviceVars, saveVars, callVars, Going, Saving, Answers
<1>1. ASSUME NEW p \in Processes, Start(p) PROVE Whole'
  BY <1>1 DEF Start, Reads, Whole, Reads, Fresh, OneSaves
<1>2. ASSUME NEW p \in Processes, Crash(p) PROVE Whole'
  BY <1>2 DEF Crash, Dying, Whole, Reads, Fresh, OneSaves
<1>3. ASSUME NEW c \in Calls, NEW p \in Processes, NEW k \in {"create", "restore"}, BeginCreation(c, p, k) PROVE Whole'
  BY <1>3 DEF BeginCreation, Begin, Goto, Whole, Reads, Fresh, OneSaves
<1>4. ASSUME NEW c \in Calls, NEW p \in Processes, Lock(c, p) PROVE Whole'
  BY <1>4 DEF Lock, Begin, Goto, Whole, Reads, Fresh, OneSaves
<1>5. ASSUME NEW c \in Calls, NEW p \in Processes, Unlock(c, p) PROVE Whole'
  BY <1>5 DEF Unlock, Begin, Goto, Opens, Whole, Reads, Fresh, OneSaves
<1>6. ASSUME NEW c \in Calls, NEW p \in Processes, Mnemonic(c, p) PROVE Whole'
  BY <1>6 DEF Mnemonic, Begin, Goto, Whole, Reads, Fresh, OneSaves
<1>7. ASSUME NEW c \in Calls, FinishCreation(c) PROVE Whole'
  BY <1>7 DEF FinishCreation, Goto, NewKeystore, Whole, Reads, Fresh, OneSaves
<1>8. ASSUME NEW c \in Calls, UnlockInner(c) PROVE Whole'
  BY <1>8 DEF UnlockInner, Goto, Opens, Whole, Reads, Fresh, OneSaves
<1>9. ASSUME NEW c \in Calls, Decrypt(c) PROVE Whole'
  BY <1>9 DEF Decrypt, Goto, Opens, Whole, Reads, Fresh, OneSaves
<1>10. ASSUME NEW c \in Calls, Bind(c) PROVE Whole'
  BY <1>10 DEF Bind, Goto, Done, Whole, Reads, Fresh, OneSaves
<1>11. ASSUME NEW c \in Calls, OpenTmp(c) PROVE Whole'
  <2> DEFINE i == TmpInode(c)
  <2> SUFFICES ASSUME ~ overlap' PROVE Whole'
    BY DEF Whole
  <2>1. /\ ~ overlap /\ step[c] = "open" /\ file' = file /\ tmp' = i
        /\ \A d \in Calls : at[d] # at[c] => step[d] \notin Saving
        /\ fd' = [fd EXCEPT ![c] = i]
        /\ content' = [content EXCEPT ![i] = None]
        /\ step' = [step EXCEPT ![c] = "write"]
    BY <1>11 DEF OpenTmp, Goto
  <2>2. \A d \in Calls : step[d] \notin Saving
    BY <2>1 DEF Ready
  <2>3. i \in Calls /\ file # i
    BY <2>1 DEF TmpInode, Fresh, Whole
  <2> HIDE DEF i
  <2>4. content'[i] = None /\ fd'[c] = i /\ step'[c] = "write"
    BY <2>1, <2>3
  <2>5. \A d \in Calls \ {c} : step'[d] \notin Saving
    BY <2>1, <2>2
  <2>6. file' # None => Reads(file)' /\ tmp' # file'
    BY <2>1, <2>3 DEF Whole, Reads
  <2> QED
    BY <2>1, <2>4, <2>5, <2>6 DEF Whole
<1>12. ASSUME NEW c \in Calls, Write(c) PROVE Whole'
  <2> SUFFICES ASSUME ~ overlap' PROVE Whole'
    BY DEF Whole
  <2>1. ~ overlap /\ step[c] = "write" /\ file' = file /\ tmp' = tmp
    BY <1>12 DEF Write
  <2>2. fd[c] = tmp /\ fd[c] \in Calls /\ content[fd[c]] = None /\ payload[c] \in Payloads
    BY <2>1 DEF Whole, Ready
  <2>3. \A d \in Calls \ {c} : step[d] \notin Saving
    BY <2>1 DEF OneSaves
  <2>4. file # None => file # fd[c] /\ Reads(file) /\ tmp # file
    BY <2>1, <2>2 DEF Whole
  <2>5. \A d \in Calls : d # fd[c] => content'[d] = content[d]
    BY <1>12, <2>2 DEF Write
  <2>6. file' # None => Reads(file)' /\ tmp' # file'
    BY <2>1, <2>4, <2>5 DEF Reads
  <2>7. CASE step' = [step EXCEPT ![c] = "rename"] /\ content' = [content EXCEPT ![fd[c]] = payload[c]] /\ fd' = fd
    <3>1. fd'[c] = tmp' /\ Reads(fd[c])'
      BY <2>1, <2>2, <2>7 DEF Reads
    <3>2. \A d \in Calls \ {c} : step'[d] \notin Saving
      BY <2>3, <2>7
    <3> QED
      BY <2>6, <2>7, <3>1, <3>2 DEF Whole
  <2>8. CASE \A d \in Calls : step'[d] \notin Saving
    BY <2>6, <2>8 DEF Whole
  <2>9. \/ step' = [step EXCEPT ![c] = "rename"] /\ content' = [content EXCEPT ![fd[c]] = payload[c]] /\ fd' = fd
        \/ step' = [step EXCEPT ![c] = OnError(c)]
    BY <1>12, <2>2 DEF Write, Goto, Done
  <2>10. step' = [step EXCEPT ![c] = OnError(c)] => \A d \in Calls : step'[d] \notin Saving
    BY <2>3 DEF OnError
  <2> QED
    BY <2>7, <2>8, <2>9, <2>10
<1>13. ASSUME NEW c \in Calls, Rename(c) PROVE Whole'
  BY <1>13 DEF Rename, Goto, Done, Whole, Reads, Fresh, OneSaves
<1>14. ASSUME NEW c \in Calls, RemoveTmp(c) PROVE Whole'
  BY <1>14 DEF RemoveTmp, Done, OnError, Whole, Reads, Fresh, OneSaves
<1>15. CASE UNCHANGED vars
  BY <1>15 DEF vars, Whole, Reads, Fresh, OneSaves
<1> QED
  BY <1>1, <1>2, <1>3, <1>4, <1>5, <1>6, <1>7, <1>8, <1>9, <1>10, <1>11, <1>12, <1>13, <1>14, <1>15 DEF Next

LEMMA NamesStep == TypeOK /\ Ready /\ Makers /\ Names /\ [Next]_vars => Names'
<1> SUFFICES ASSUME TypeOK, Ready, Makers, Names, [Next]_vars PROVE Names'
  OBVIOUS
<1> USE WalletAssumption DEF TypeOK, serviceVars, saveVars, callVars, Going, Saving, Answers
<1>1. ASSUME NEW p \in Processes, Start(p) PROVE Names'
  BY <1>1 DEF Start, Reads, Names, Made
<1>2. ASSUME NEW p \in Processes, Crash(p) PROVE Names'
  <2>1. \A d \in Calls : /\ step[d] # "idle" => kind'[d] = kind[d] /\ step'[d] # "idle"
                         /\ step[d] # "making" /\ step[d] # "idle" => step'[d] # "making"
    BY <1>2 DEF Crash, Dying, Made
  <2>2. /\ \A q \in Processes : wallet'[q] \in {wallet[q], None} /\ keystore'[q] \in {keystore[q], None}
        /\ \A d \in Calls : payload'[d] \in {payload[d], None} /\ content'[d] = content[d]
    BY <1>2 DEF Crash, Dying
  <2> QED
    BY <2>1, <2>2, NotPayloads DEF Names, Made, Payloads
<1>3. ASSUME NEW c \in Calls, NEW p \in Processes, NEW k \in {"create", "restore"}, BeginCreation(c, p, k) PROVE Names'
  BY <1>3 DEF BeginCreation, Begin, Goto, Names, Made
<1>4. ASSUME NEW c \in Calls, NEW p \in Processes, Lock(c, p) PROVE Names'
  BY <1>4 DEF Lock, Begin, Goto, Names, Made
<1>5. ASSUME NEW c \in Calls, NEW p \in Processes, Unlock(c, p) PROVE Names'
  <2>1. \A d \in Calls : /\ step[d] # "idle" => kind'[d] = kind[d] /\ step'[d] # "idle"
                         /\ step[d] # "making" /\ step[d] # "idle" => step'[d] # "making"
    BY <1>5 DEF Unlock, Begin, Goto, Opens, Made
  <2>2. UNCHANGED <<wallet, keystore, payload, content>>
    BY <1>5 DEF Unlock, Begin, Goto, Opens
  <2> QED
    BY <2>1, <2>2, NotPayloads DEF Names, Made, Payloads
<1>6. ASSUME NEW c \in Calls, NEW p \in Processes, Mnemonic(c, p) PROVE Names'
  BY <1>6 DEF Mnemonic, Begin, Goto, Names, Made
<1>7. ASSUME NEW c \in Calls, FinishCreation(c) PROVE Names'
  <2>1. \A d \in Calls : /\ step[d] # "idle" => kind'[d] = kind[d] /\ step'[d] # "idle"
                         /\ step[d] # "making" /\ step[d] # "idle" => step'[d] # "making"
    BY <1>7 DEF FinishCreation, Goto, Made
  <2>2. /\ UNCHANGED <<wallet, payload, content>>
        /\ \A q \in Processes : keystore'[q] \in {keystore[q], c}
    BY <1>7 DEF FinishCreation, NewKeystore
  <2>3. Made(c)' /\ step'[c] = "bind"
    BY <1>7 DEF FinishCreation, Goto, Made, Makers
  <2> QED
    BY <2>1, <2>2, <2>3 DEF Names, Made, Payloads
<1>8. ASSUME NEW c \in Calls, UnlockInner(c) PROVE Names'
  BY <1>8 DEF UnlockInner, Goto, Opens, Names, Made
<1>9. ASSUME NEW c \in Calls, Decrypt(c) PROVE Names'
  BY <1>9 DEF Decrypt, Goto, Opens, Names, Made
<1>10. ASSUME NEW c \in Calls, Bind(c) PROVE Names'
  <2> DEFINE new == [meta |-> IF Creation(kind[c]) THEN c ELSE wallet[at[c]],
                     key  |-> keystore[at[c]]]
  <2>1. \A d \in Calls : /\ step[d] # "idle" => kind'[d] = kind[d] /\ step'[d] # "idle"
                         /\ step[d] # "making" /\ step[d] # "idle" => step'[d] # "making"
    BY <1>10 DEF Bind, Goto, Done, Made
  <2>2. /\ UNCHANGED <<wallet, keystore, content>>
        /\ \A d \in Calls : payload'[d] \in {payload[d], None} \/ (d = c /\ payload'[d] = new)
    BY <1>10 DEF Bind, Done
  <2>3. step[c] = "bind" /\ at[c] \in Processes /\ keystore[at[c]] # None /\ wallet[at[c]] # None
    BY <1>10 DEF Bind, Ready
  <2>4. Made(new.meta) /\ Made(new.key) /\ new.meta \in Calls /\ new.key \in Calls
    BY <2>3 DEF Names, Made
  <2> HIDE DEF new
  <2>5. /\ Creation(kind'[new.meta]) /\ step'[new.meta] # "idle"
        /\ Creation(kind'[new.key]) /\ step'[new.key] # "idle"
    BY <2>1, <2>4 DEF Made
  <2> QED
    BY <2>1, <2>2, <2>5, NotPayloads DEF Names, Made, Payloads
<1>11. ASSUME NEW c \in Calls, OpenTmp(c) PROVE Names'
  <2>1. \A d \in Calls : /\ step[d] # "idle" => kind'[d] = kind[d] /\ step'[d] # "idle"
                         /\ step[d] # "making" /\ step[d] # "idle" => step'[d] # "making"
    BY <1>11 DEF OpenTmp, Goto, TmpInode, Made
  <2>2. /\ UNCHANGED <<wallet, keystore>>
        /\ \A d \in Calls : payload'[d] = payload[d] /\ content'[d] \in {content[d], None}
    BY <1>11 DEF OpenTmp, Goto, TmpInode
  <2> QED
    BY <2>1, <2>2, NotPayloads DEF Names, Made, Payloads
<1>12. ASSUME NEW c \in Calls, Write(c) PROVE Names'
  <2>1. \A d \in Calls : /\ step[d] # "idle" => kind'[d] = kind[d] /\ step'[d] # "idle"
                         /\ step[d] # "making" /\ step[d] # "idle" => step'[d] # "making"
    BY <1>12 DEF Write, Goto, Done, OnError, Made
  <2>2. /\ UNCHANGED <<wallet, keystore>>
        /\ \A d \in Calls : payload'[d] \in {payload[d], None} /\ content'[d] \in {content[d], payload[c], Torn}
    BY <1>12 DEF Write, Goto, Done, OnError
  <2> QED
    BY <2>1, <2>2, NotPayloads DEF Names, Made, Payloads
<1>13. ASSUME NEW c \in Calls, Rename(c) PROVE Names'
  <2>1. \A d \in Calls : /\ step[d] # "idle" => kind'[d] = kind[d] /\ step'[d] # "idle"
                         /\ step[d] # "making" /\ step[d] # "idle" => step'[d] # "making"
    BY <1>13 DEF Rename, Goto, Done, Made
  <2>2. /\ UNCHANGED <<wallet, keystore>>
        /\ \A d \in Calls : payload'[d] \in {payload[d], None} /\ content'[d] = content[d]
    BY <1>13 DEF Rename, Goto, Done
  <2> QED
    BY <2>1, <2>2, NotPayloads DEF Names, Made, Payloads
<1>14. ASSUME NEW c \in Calls, RemoveTmp(c) PROVE Names'
  <2>1. \A d \in Calls : /\ step[d] # "idle" => kind'[d] = kind[d] /\ step'[d] # "idle"
                         /\ step[d] # "making" /\ step[d] # "idle" => step'[d] # "making"
    BY <1>14 DEF RemoveTmp, Done, OnError, Made
  <2>2. /\ UNCHANGED <<wallet, keystore>>
        /\ \A d \in Calls : payload'[d] \in {payload[d], None} /\ content'[d] = content[d]
    BY <1>14 DEF RemoveTmp, Done, OnError
  <2> QED
    BY <2>1, <2>2, NotPayloads DEF Names, Made, Payloads
<1>15. CASE UNCHANGED vars
  BY <1>15 DEF vars, Names, Made
<1> QED
  BY <1>1, <1>2, <1>3, <1>4, <1>5, <1>6, <1>7, <1>8, <1>9, <1>10, <1>11, <1>12, <1>13, <1>14, <1>15 DEF Next

LEMMA OneOwnerStep == TypeOK /\ Ready /\ Names /\ OneOwner /\ [Next]_vars => OneOwner'
<1> SUFFICES ASSUME TypeOK, Ready, Names, OneOwner, [Next]_vars PROVE OneOwner'
  OBVIOUS
<1> USE WalletAssumption DEF TypeOK, serviceVars, saveVars, callVars, Going, Saving, Answers
<1>1. ASSUME NEW p \in Processes, Start(p) PROVE OneOwner'
  BY <1>1 DEF Start, Reads, OneOwner
<1>2. ASSUME NEW p \in Processes, Crash(p) PROVE OneOwner'
  BY <1>2 DEF Crash, Dying, OneOwner
<1>3. ASSUME NEW c \in Calls, NEW p \in Processes, NEW k \in {"create", "restore"}, BeginCreation(c, p, k) PROVE OneOwner'
  BY <1>3 DEF BeginCreation, Begin, Goto, OneOwner
<1>4. ASSUME NEW c \in Calls, NEW p \in Processes, Lock(c, p) PROVE OneOwner'
  BY <1>4 DEF Lock, Begin, Goto, OneOwner
<1>5. ASSUME NEW c \in Calls, NEW p \in Processes, Unlock(c, p) PROVE OneOwner'
  BY <1>5 DEF Unlock, Begin, Goto, Opens, OneOwner
<1>6. ASSUME NEW c \in Calls, NEW p \in Processes, Mnemonic(c, p) PROVE OneOwner'
  BY <1>6 DEF Mnemonic, Begin, Goto, OneOwner
<1>7. ASSUME NEW c \in Calls, FinishCreation(c) PROVE OneOwner'
  <2>1. step[c] = "making" /\ keystore' = [keystore EXCEPT ![at[c]] = c] /\ at[c] \in Processes
    BY <1>7 DEF FinishCreation, NewKeystore, Ready
  <2>2. \A q \in Processes : keystore[q] # c
    BY <2>1 DEF Names
  <2> QED
    BY <2>1, <2>2 DEF OneOwner
<1>8. ASSUME NEW c \in Calls, UnlockInner(c) PROVE OneOwner'
  BY <1>8 DEF UnlockInner, Goto, Opens, OneOwner
<1>9. ASSUME NEW c \in Calls, Decrypt(c) PROVE OneOwner'
  BY <1>9 DEF Decrypt, Goto, Opens, OneOwner
<1>10. ASSUME NEW c \in Calls, Bind(c) PROVE OneOwner'
  BY <1>10 DEF Bind, Goto, Done, OneOwner
<1>11. ASSUME NEW c \in Calls, OpenTmp(c) PROVE OneOwner'
  BY <1>11 DEF OpenTmp, Goto, TmpInode, OneOwner
<1>12. ASSUME NEW c \in Calls, Write(c) PROVE OneOwner'
  BY <1>12 DEF Write, Goto, Done, OnError, OneOwner
<1>13. ASSUME NEW c \in Calls, Rename(c) PROVE OneOwner'
  BY <1>13 DEF Rename, Goto, Done, OneOwner
<1>14. ASSUME NEW c \in Calls, RemoveTmp(c) PROVE OneOwner'
  BY <1>14 DEF RemoveTmp, Done, OnError, OneOwner
<1>15. CASE UNCHANGED vars
  BY <1>15 DEF vars, OneOwner
<1> QED
  BY <1>1, <1>2, <1>3, <1>4, <1>5, <1>6, <1>7, <1>8, <1>9, <1>10, <1>11, <1>12, <1>13, <1>14, <1>15 DEF Next

LEMMA PeaceStep == TypeOK /\ Ready /\ Names /\ OneOwner /\ Peace /\ [Next]_vars => Peace'
<1> SUFFICES ASSUME TypeOK, Ready, Names, OneOwner, Peace, [Next]_vars PROVE Peace'
  OBVIOUS
<1> USE WalletAssumption DEF TypeOK, serviceVars, saveVars, callVars, Going, Saving, Answers
<1>1. ASSUME NEW p \in Processes, Start(p) PROVE Peace'
  BY <1>1 DEF Start, Reads, Peace, Only, Made, Creation
<1>2. ASSUME NEW p \in Processes, Crash(p) PROVE Peace'
  BY <1>2 DEF Crash, Dying, Peace, Only, Made, Creation
<1>3. ASSUME NEW c \in Calls, NEW p \in Processes, NEW k \in {"create", "restore"}, BeginCreation(c, p, k) PROVE Peace'
  BY <1>3 DEF BeginCreation, Begin, Goto, Peace, Only, Made, Creation
<1>4. ASSUME NEW c \in Calls, NEW p \in Processes, Lock(c, p) PROVE Peace'
  BY <1>4 DEF Lock, Begin, Goto, Peace, Only, Made, Creation
<1>5. ASSUME NEW c \in Calls, NEW p \in Processes, Unlock(c, p) PROVE Peace'
  BY <1>5 DEF Unlock, Begin, Goto, Opens, Peace, Only, Made, Creation
<1>6. ASSUME NEW c \in Calls, NEW p \in Processes, Mnemonic(c, p) PROVE Peace'
  BY <1>6 DEF Mnemonic, Begin, Goto, Peace, Only, Made, Creation
<1>7. ASSUME NEW c \in Calls, FinishCreation(c) PROVE Peace'
  BY <1>7 DEF FinishCreation, Goto, NewKeystore, Peace, Only, Made, Creation
<1>8. ASSUME NEW c \in Calls, UnlockInner(c) PROVE Peace'
  BY <1>8 DEF UnlockInner, Goto, Opens, Peace, Only, Made, Creation
<1>9. ASSUME NEW c \in Calls, Decrypt(c) PROVE Peace'
  BY <1>9 DEF Decrypt, Goto, Opens, Peace, Only, Made, Creation
<1>10. ASSUME NEW c \in Calls, Bind(c) PROVE Peace'
  BY <1>10 DEF Bind, Goto, Done, Peace, Only, Made, Creation
<1>11. ASSUME NEW c \in Calls, OpenTmp(c) PROVE Peace'
  <2> SUFFICES ASSUME NEW d \in Calls, Only(d)' PROVE ~ overlap'
    BY DEF Peace
  <2>1. step[c] = "open" /\ step' = [step EXCEPT ![c] = "write"] /\ kind' = kind
        /\ overlap' = (overlap \/ \E e \in Calls : at[e] # at[c] /\ step[e] \in Saving)
    BY <1>11 DEF OpenTmp, Goto
  <2>2. Only(d)
    BY <2>1 DEF Only
  <2>3. ASSUME NEW e \in Calls, step[e] \in {"open"} \cup Saving
        PROVE  at[e] \in Processes /\ keystore[at[e]] = d
    <3>1. at[e] \in Processes /\ keystore[at[e]] # None
      BY <2>3 DEF Ready
    <3>2. Made(keystore[at[e]]) /\ keystore[at[e]] \in Calls
      BY <3>1 DEF Names
    <3> QED
      BY <2>2, <3>1, <3>2 DEF Only, Made
  <2>4. ASSUME NEW e \in Calls, step[e] \in Saving PROVE at[e] = at[c]
    BY <2>1, <2>3, <2>4, WalletAssumption DEF OneOwner
  <2> QED
    BY <2>1, <2>2, <2>4 DEF Peace
<1>12. ASSUME NEW c \in Calls, Write(c) PROVE Peace'
  BY <1>12 DEF Write, Goto, Done, OnError, Peace, Only, Made, Creation
<1>13. ASSUME NEW c \in Calls, Rename(c) PROVE Peace'
  BY <1>13 DEF Rename, Goto, Done, Peace, Only, Made, Creation
<1>14. ASSUME NEW c \in Calls, RemoveTmp(c) PROVE Peace'
  BY <1>14 DEF RemoveTmp, Done, OnError, Peace, Only, Made, Creation
<1>15. CASE UNCHANGED vars
  BY <1>15 DEF vars, Peace, Only, Made, Creation
<1> QED
  BY <1>1, <1>2, <1>3, <1>4, <1>5, <1>6, <1>7, <1>8, <1>9, <1>10, <1>11, <1>12, <1>13, <1>14, <1>15 DEF Next

LEMMA AcknowledgedStep == TypeOK /\ Ready /\ Acknowledged /\ [Next]_vars => Acknowledged'
<1> SUFFICES ASSUME TypeOK, Ready, Acknowledged, [Next]_vars PROVE Acknowledged'
  OBVIOUS
<1> USE WalletAssumption DEF TypeOK, serviceVars, saveVars, callVars, Going, Saving, Answers
<1>1. ASSUME NEW p \in Processes, Start(p) PROVE Acknowledged'
  BY <1>1 DEF Start, Reads, Acknowledged, Creation
<1>2. ASSUME NEW p \in Processes, Crash(p) PROVE Acknowledged'
  BY <1>2 DEF Crash, Dying, Acknowledged, Creation
<1>3. ASSUME NEW c \in Calls, NEW p \in Processes, NEW k \in {"create", "restore"}, BeginCreation(c, p, k) PROVE Acknowledged'
  BY <1>3 DEF BeginCreation, Begin, Goto, Acknowledged, Creation
<1>4. ASSUME NEW c \in Calls, NEW p \in Processes, Lock(c, p) PROVE Acknowledged'
  BY <1>4 DEF Lock, Begin, Goto, Acknowledged, Creation
<1>5. ASSUME NEW c \in Calls, NEW p \in Processes, Unlock(c, p) PROVE Acknowledged'
  BY <1>5 DEF Unlock, Begin, Goto, Opens, Acknowledged, Creation
<1>6. ASSUME NEW c \in Calls, NEW p \in Processes, Mnemonic(c, p) PROVE Acknowledged'
  BY <1>6 DEF Mnemonic, Begin, Goto, Acknowledged, Creation
<1>7. ASSUME NEW c \in Calls, FinishCreation(c) PROVE Acknowledged'
  BY <1>7 DEF FinishCreation, Goto, NewKeystore, Acknowledged, Creation
<1>8. ASSUME NEW c \in Calls, UnlockInner(c) PROVE Acknowledged'
  BY <1>8 DEF UnlockInner, Goto, Opens, Acknowledged, Creation
<1>9. ASSUME NEW c \in Calls, Decrypt(c) PROVE Acknowledged'
  BY <1>9 DEF Decrypt, Goto, Opens, Acknowledged, Creation
<1>10. ASSUME NEW c \in Calls, Bind(c) PROVE Acknowledged'
  BY <1>10 DEF Bind, Goto, Done, Acknowledged, Creation
<1>11. ASSUME NEW c \in Calls, OpenTmp(c) PROVE Acknowledged'
  BY <1>11 DEF OpenTmp, Goto, TmpInode, Acknowledged, Creation
<1>12. ASSUME NEW c \in Calls, Write(c) PROVE Acknowledged'
  BY <1>12 DEF Write, Goto, Done, OnError, Acknowledged, Creation
<1>13. ASSUME NEW c \in Calls, Rename(c) PROVE Acknowledged'
  BY <1>13 DEF Rename, Goto, Done, Acknowledged, Creation
<1>14. ASSUME NEW c \in Calls, RemoveTmp(c) PROVE Acknowledged'
  BY <1>14 DEF RemoveTmp, Done, OnError, Acknowledged, Creation
<1>15. CASE UNCHANGED vars
  BY <1>15 DEF vars, Acknowledged, Creation
<1> QED
  BY <1>1, <1>2, <1>3, <1>4, <1>5, <1>6, <1>7, <1>8, <1>9, <1>10, <1>11, <1>12, <1>13, <1>14, <1>15 DEF Next

LEMMA WholeFile == Inv => FileWhole
BY DEF Inv, Whole, FileWhole

LEMMA KeyHolds == Inv => KeyOfWallet
<1> SUFFICES ASSUME Inv, file # None, Reads(file)
             PROVE  content[file].key # None /\ (mixed \/ content[file].key = content[file].meta)
  BY DEF KeyOfWallet
<1>1. file \in Calls /\ content[file] \in Payloads
  BY DEF Inv, TypeOK, Reads
<1> QED
  BY <1>1 DEF Inv, Saved, Good

LEMMA StaysHolds == Inv => AloneItStays
<1> SUFFICES ASSUME Inv, NEW c \in Calls, step[c] = "ok", Creation(kind[c]), Only(c)
             PROVE  file # None /\ content[file] = [meta |-> c, key |-> c]
  BY DEF AloneItStays, Only
<1>1. file \in Calls /\ file # None /\ ~ overlap
  BY DEF Inv, TypeOK, Acknowledged, Peace
<1>2. content[file] \in Payloads
  BY <1>1 DEF Inv, Whole, Reads
<1>3. content[file].key # None /\ content[file].key \in Calls \cup {None} /\ content[file].meta \in Calls
  BY <1>1, <1>2 DEF Inv, Saved, Good, Payloads
<1>4. Made(content[file].meta) /\ Made(content[file].key)
  BY <1>1, <1>2, <1>3 DEF Inv, Names
<1>5. content[file].meta = c /\ content[file].key = c
  BY <1>3, <1>4 DEF Only, Made
<1> QED
  BY <1>1, <1>2, <1>5 DEF Payloads

(* The invariant is inductive.                                              *)
THEOREM Invariance == Spec => []Inv
<1>1. Init => Inv
  BY InitBase, InitRest DEF Inv
<1>2. Inv /\ [Next]_vars => Inv'
  BY TypeStep, ReadyStep, MakersStep, BesideStep, MatchingStep, SavedStep, FreshStep,
     OneSavesStep, WholeStep, NamesStep, OneOwnerStep, PeaceStep, AcknowledgedStep DEF Inv
<1> QED
  BY <1>1, <1>2, PTL DEF Spec

(* Every variable keeps its type.                                           *)
THEOREM Types == Spec => []TypeOK
<1>1. Inv => TypeOK
  BY DEF Inv
<1> QED
  BY <1>1, Invariance, PTL

(* The wallet file always parses, unless two processes saved at once.       *)
THEOREM WholeAlways == Spec => []FileWhole
BY WholeFile, Invariance, PTL

(* The wallet file has the keystore of its wallet, unless a creation ran    *)
(* beside another call of its process.                                      *)
THEOREM KeyAlways == Spec => []KeyOfWallet
BY KeyHolds, Invariance, PTL

(* An acknowledged wallet stays in the file while it is the only one made.  *)
THEOREM Stays == Spec => []AloneItStays
BY StaysHolds, Invariance, PTL
=============================================================================
