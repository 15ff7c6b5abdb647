---------------------------- MODULE WalletKeystore ----------------------------
(***************************************************************************)
(* The wallet on disk: PersistentService, DefaultWalletService and          *)
(* FileWalletStore of pkg/wallet, with one service in each process that     *)
(* opens the wallet directory.                                              *)
(*                                                                          *)
(* A creation (CreateWallet or RestoreWallet) first replaces the wallet and *)
(* the keystore in memory, under the mutex of the inner service, and then   *)
(* saves them, under the mutex of the outer one; the save refuses to        *)
(* replace a file.  Unlock and GetMnemonic save the wallet again, and do    *)
(* replace it.  A save writes wallet.json.tmp and renames it; the name is   *)
(* the same in every process.                                               *)
(*                                                                          *)
(* Each member of Calls is one call of the API.  A creation gives its own   *)
(* name to its wallet, its keystore and the inode it may have to make.      *)
(* A crash is one of the process: what was written stays written.           *)
(***************************************************************************)
EXTENDS Naturals

CONSTANTS Processes, Calls,
          Password,         \* the password each call brings
          Torn,             \* the content of a file two processes wrote to
          None

ASSUME WalletAssumption ==
    /\ None \notin Calls \cup Processes
    /\ Torn # None
    /\ Torn \notin [meta : Calls, key : Calls \cup {None}]
    /\ None \notin [meta : Calls, key : Calls \cup {None}]

Kinds == {"create", "restore", "unlock", "mnemonic", "lock"}
Saving == {"write", "rename", "remove"}
Going == {"making", "bind", "open", "look", "decrypt"} \cup Saving
Answers == {"ok", "exists", "noWallet", "wrong", "failed", "dead"}
Payloads == [meta : Calls, key : Calls \cup {None}]

VARIABLES
    up, wallet, keystore, unlocked,     \* processes, and DefaultWalletService in each
    making,                 \* its mutex, where it is held for more than a step
    saver,                  \* PersistentService.mu, likewise
    step, at, kind,         \* calls: next step or answer, process, operation
    payload, fd,            \* what a call saves, and the inode it writes to
    file, tmp,              \* the inodes of wallet.json and wallet.json.tmp
    content,                \* of each inode; None: empty
    mixed, overlap          \* history: a creation ran beside another call of its process; two
                            \* processes saved at once

serviceVars == <<up, wallet, keystore, unlocked, making>>
saveVars    == <<payload, fd, saver, file, tmp, content, overlap>>
callVars    == <<step, at, kind, mixed>>
vars == <<serviceVars, saveVars, callVars>>

Init ==
    /\ up = [p \in Processes |-> FALSE]
    /\ wallet = [p \in Processes |-> None]
    /\ keystore = [p \in Processes |-> None]
    /\ unlocked = [p \in Processes |-> FALSE]
    /\ making = [p \in Processes |-> None]
    /\ saver = [p \in Processes |-> None]
    /\ step = [c \in Calls |-> "idle"]
    /\ at = [c \in Calls |-> None]
    /\ kind = [c \in Calls |-> "lock"]
    /\ payload = [c \in Calls |-> None]
    /\ fd = [c \in Calls |-> None]
    /\ file = None
    /\ tmp = None
    /\ content = [i \in Calls |-> None]
    /\ mixed = FALSE
    /\ overlap = FALSE

Goto(c, s) == step' = [step EXCEPT ![c] = s]

Creation(k) == k \in {"create", "restore"}

-----------------------------------------------------------------------------
(* Processes. *)

(* The content of the inode parses. *)
Reads(i) == content[i] \in Payloads

(* NewPersistentService: the metadata of the file, and no keystore.  A file *)
(* that does not parse is an error.                                         *)
Start(p) ==
    /\ ~ up[p]
    /\ file # None => Reads(file)
    /\ up' = [up EXCEPT ![p] = TRUE]
    /\ wallet' = [wallet EXCEPT ![p] = IF file = None THEN None ELSE content[file].meta]
    /\ UNCHANGED <<keystore, unlocked, making, saveVars, callVars>>

Dying(p) == {c \in Calls : at[c] = p /\ step[c] \in Going}

(* The process exits or is killed; its calls die where they are. *)
Crash(p) ==
    /\ up[p]
    /\ up' = [up EXCEPT ![p] = FALSE]
    /\ wallet' = [wallet EXCEPT ![p] = None]
    /\ keystore' = [keystore EXCEPT ![p] = None]
    /\ unlocked' = [unlocked EXCEPT ![p] = FALSE]
    /\ making' = [making EXCEPT ![p] = None]
    /\ saver' = [saver EXCEPT ![p] = None]
    /\ step' = [c \in Calls |-> IF c \in Dying(p) THEN "dead" ELSE step[c]]
    /\ at' = [c \in Calls |-> IF c \in Dying(p) THEN None ELSE at[c]]
    /\ payload' = [c \in Calls |-> IF c \in Dying(p) THEN None ELSE payload[c]]
    /\ fd' = [c \in Calls |-> IF c \in Dying(p) THEN None ELSE fd[c]]
    /\ UNCHANGED <<kind, mixed, file, tmp, content, overlap>>

-----------------------------------------------------------------------------
(* Calls. *)

(* A call arrives at a process. *)
Begin(c, p, k) ==
    /\ step[c] = "idle"
    /\ up[p]
    /\ at' = [at EXCEPT ![c] = p]
    /\ kind' = [kind EXCEPT ![c] = k]
    /\ mixed' = (mixed \/ \E d \in Calls : /\ step[d] \in Going /\ at[d] = p
                                           /\ Creation(k) \/ Creation(kind[d]))

(* The inner CreateWallet and RestoreWallet: the wallet, and then the       *)
(* keystore, under a mutex that the saving calls do not take to read them.  *)
BeginCreation(c, p, k) ==
    /\ Creation(k)
    /\ Begin(c, p, k)
    /\ making[p] = None
    /\ making' = [making EXCEPT ![p] = c]
    /\ wallet' = [wallet EXCEPT ![p] = c]
    /\ Goto(c, "making")
    /\ UNCHANGED <<up, keystore, unlocked, saveVars>>

(* Mutant: RestoreWallet leaves the keystore alone. *)
KeepsKeystore(c) == IF kind[c] = "restore" THEN keystore[at[c]] ELSE c

NewKeystore(c) == c

(* Only CreateWallet leaves the service unlocked. *)
FinishCreation(c) ==
    LET p == at[c] IN
    /\ step[c] = "making"
    /\ keystore' = [keystore EXCEPT ![p] = NewKeystore(c)]
    /\ unlocked' = [unlocked EXCEPT ![p] = @ \/ kind[c] = "create"]
    /\ making' = [making EXCEPT ![p] = None]
    /\ Goto(c, "bind")
    /\ UNCHANGED <<up, wallet, at, kind, mixed, saveVars>>

Lock(c, p) ==
    /\ Begin(c, p, "lock")
    /\ making[p] = None
    /\ unlocked' = [unlocked EXCEPT ![p] = FALSE]
    /\ Goto(c, "ok")
    /\ UNCHANGED <<up, wallet, keystore, making, saveVars>>

(* DecryptMnemonic. *)
Opens(p, c) == keystore[p] # None /\ Password[keystore[p]] = Password[c]

(* Unlock takes the mutex for itself and for its save. *)
Unlock(c, p) ==
    /\ Begin(c, p, "unlock")
    /\ making[p] = None /\ saver[p] = None
    /\ IF Opens(p, c)
       THEN /\ unlocked' = [unlocked EXCEPT ![p] = TRUE]
            /\ saver' = [saver EXCEPT ![p] = c]
            /\ Goto(c, "bind")
       ELSE /\ Goto(c, IF keystore[p] = None THEN "noWallet" ELSE "wrong")
            /\ UNCHANGED <<unlocked, saver>>
    /\ UNCHANGED <<up, wallet, keystore, making, payload, fd, file, tmp, content, overlap>>

(* GetMnemonic looks whether the service is unlocked. *)
Mnemonic(c, p) ==
    /\ Begin(c, p, "mnemonic")
    /\ making[p] = None /\ saver[p] = None
    /\ Goto(c, IF unlocked[p] THEN "decrypt" ELSE "look")
    /\ UNCHANGED <<serviceVars, saveVars>>

(* It was not: GetMnemonic unlocks the inner service. *)
UnlockInner(c) ==
    LET p == at[c] IN
    /\ step[c] = "look"
    /\ making[p] = None
    /\ Goto(c, IF Opens(p, c) THEN "decrypt" ELSE "wrong")
    /\ unlocked' = [unlocked EXCEPT ![p] = @ \/ Opens(p, c)]
    /\ UNCHANGED <<up, wallet, keystore, making, at, kind, mixed, saveVars>>

(* The inner GetMnemonic. *)
Decrypt(c) ==
    LET p == at[c] IN
    /\ step[c] = "decrypt"
    /\ making[p] = None
    /\ Goto(c, IF unlocked[p] /\ Opens(p, c) THEN "bind" ELSE "wrong")
    /\ UNCHANGED <<serviceVars, at, kind, mixed, saveVars>>

-----------------------------------------------------------------------------
(* The save. *)

(* The call gives the mutex back and answers. *)
Done(c, answer) ==
    /\ saver' = [saver EXCEPT ![at[c]] = None]
    /\ step' = [step EXCEPT ![c] = answer]
    /\ at' = [at EXCEPT ![c] = None]
    /\ payload' = [payload EXCEPT ![c] = None]
    /\ fd' = [fd EXCEPT ![c] = None]

(* bindKeyStore, the metadata and, for a creation, the look whether there   *)
(* is a file.                                                               *)
Bind(c) ==
    LET p == at[c] IN
    /\ step[c] = "bind"
    /\ saver[p] \in {None, c}
    /\ IF Creation(kind[c]) /\ file # None
       THEN Done(c, "exists")
       ELSE /\ Goto(c, "open")
            /\ saver' = [saver EXCEPT ![p] = c]
            /\ payload' = [payload EXCEPT ![c] =
                              [meta |-> IF Creation(kind[c]) THEN c ELSE wallet[p],
                               key  |-> keystore[p]]]
            /\ UNCHANGED <<at, fd>>
    /\ UNCHANGED <<serviceVars, kind, mixed, file, tmp, content, overlap>>

(* Mutant: the file itself is written. *)
InPlace(c) == IF file # None THEN file ELSE IF tmp # None THEN tmp ELSE c

(* The inode of the temporary file: another process may have made it. *)
TmpInode(c) == IF tmp # None THEN tmp ELSE c

(* WriteFile opens and truncates. *)
OpenTmp(c) ==
    /\ step[c] = "open"
    /\ tmp' = TmpInode(c)
    /\ fd' = [fd EXCEPT ![c] = TmpInode(c)]
    /\ content' = [content EXCEPT ![TmpInode(c)] = None]
    /\ overlap' = (overlap \/ \E d \in Calls : at[d] # at[c] /\ step[d] \in Saving)
    /\ Goto(c, "write")
    /\ UNCHANGED <<serviceVars, at, kind, mixed, payload, saver, file>>

(* Mutant: a creation does not look at the error of Save either. *)
IgnoreError(c) == "ok"

(* Unlock and GetMnemonic ignore it. *)
OnError(c) == IF Creation(kind[c]) THEN "failed" ELSE "ok"

(* The write goes over what another process wrote since, and may be short.  *)
Write(c) ==
    /\ step[c] = "write"
    /\ \/ /\ \E new \in {payload[c]} \cup (IF content[fd[c]] = None THEN {} ELSE {Torn}) :
                content' = [content EXCEPT ![fd[c]] = new]
          /\ Goto(c, "rename")
          /\ UNCHANGED <<saver, at, payload, fd>>
       \/ /\ content' = [content EXCEPT ![fd[c]] = Torn]
          /\ Done(c, OnError(c))
    /\ UNCHANGED <<serviceVars, kind, mixed, file, tmp, overlap>>

(* Rename fails, if only because another process took the file away. *)
Rename(c) ==
    /\ step[c] = "rename"
    /\ \/ /\ tmp # None
          /\ file' = tmp
          /\ tmp' = None
          /\ Done(c, "ok")
       \/ /\ Goto(c, "remove")
          /\ UNCHANGED <<saver, at, payload, fd, file, tmp>>
    /\ UNCHANGED <<serviceVars, kind, mixed, content, overlap>>

RemoveTmp(c) ==
    /\ step[c] = "remove"
    /\ tmp' = None
    /\ Done(c, OnError(c))
    /\ UNCHANGED <<serviceVars, kind, mixed, file, content, overlap>>

-----------------------------------------------------------------------------
Next ==
    \/ \E p \in Processes : Start(p) \/ Crash(p)
    \/ \E c \in Calls, p \in Processes :
          \/ \E k \in {"create", "restore"} : BeginCreation(c, p, k)
          \/ Lock(c, p) \/ Unlock(c, p) \/ Mnemonic(c, p)
    \/ \E c \in Calls :
          \/ FinishCreation(c) \/ UnlockInner(c) \/ Decrypt(c)
          \/ Bind(c) \/ OpenTmp(c) \/ Write(c) \/ Rename(c) \/ RemoveTmp(c)

Spec == Init /\ [][Next]_vars

-----------------------------------------------------------------------------
(* Every variable keeps its type. *)
TypeOK ==
    /\ up \in [Processes -> BOOLEAN]
    /\ wallet \in [Processes -> Calls \cup {None}]
    /\ keystore \in [Processes -> Calls \cup {None}]
    /\ unlocked \in [Processes -> BOOLEAN]
    /\ making \in [Processes -> Calls \cup {None}]
    /\ saver \in [Processes -> Calls \cup {None}]
    /\ step \in [Calls -> {"idle"} \cup Going \cup Answers]
    /\ at \in [Calls -> Processes \cup {None}]
    /\ kind \in [Calls -> Kinds]
    /\ payload \in [Calls -> Payloads \cup {None}]
    /\ fd \in [Calls -> Calls \cup {None}]
    /\ file \in Calls \cup {None}
    /\ tmp \in Calls \cup {None}
    /\ content \in [Calls -> Payloads \cup {Torn, None}]
    /\ mixed \in BOOLEAN
    /\ overlap \in BOOLEAN

(* wallet.json always parses, whatever crashes and whatever write fails,    *)
(* unless two processes saved at once: their temporary file is the same     *)
(* (FileWalletStore.Save).                                                  *)
FileWhole ==
    file # None /\ ~ overlap => Reads(file)

(* A wallet file that parses has a keystore, and it is the one of that      *)
(* wallet, unless a creation ran beside another call of its process: the    *)
(* two are bound and saved apart from where they were made                  *)
(* (PersistentService.CreateWallet, Unlock, GetMnemonic).                   *)
KeyOfWallet ==
    file # None /\ Reads(file) =>
        /\ content[file].key # None
        /\ mixed \/ content[file].key = content[file].meta

(* A wallet whose creation was acknowledged is in the file, with its        *)
(* keystore, through restarts, later saves and failing ones, as long as     *)
(* nobody tries to create another: even a creation that is refused takes    *)
(* the place of the wallet in memory, and the next Unlock writes it.        *)
AloneItStays ==
    \A c \in Calls :
        (step[c] = "ok" /\ Creation(kind[c])
         /\ \A d \in Calls \ {c} : step[d] = "idle" \/ ~ Creation(kind[d]))
            => file # None /\ content[file] = [meta |-> c, key |-> c]

=============================================================================
