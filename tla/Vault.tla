------------------------------- MODULE Vault --------------------------------
(***************************************************************************)
(* The history passphrase of nodesignald.js and store.js.  Text is sealed   *)
(* to the vault's public key as it arrives, so the daemon need not be       *)
(* unlocked to receive; the private key is wrapped under a passphrase.      *)
(* Every call of the console that stretches a passphrase leaves the event   *)
(* loop for the time of a scrypt: between its start and its end anything    *)
(* else may happen.  Keys are numbers, and a sealed text is the number of   *)
(* the key it is sealed to (0: in the clear).                                         *)
(***************************************************************************)
EXTENDS Naturals, FiniteSets

CONSTANTS
  Msgs, Passphrases,
  Calls,            \* calls of the console that may be under way at once
  OneSet,           \* the operator sends one vault.set at a time
  MaxKeys,          \* bound: vaults created
  MaxCrashes,       \* bound: kills
  None

VARIABLES
  vault,            \* state.vault: its key pair and the passphrase that wraps it
  rec,              \* the texts in state.contacts
  key,              \* vault.key: the private key in memory
  disk,             \* state.json: the vault and the texts
  dirty,            \* a save is due
  call,             \* the calls under way
  wait,             \* a wrong passphrase was given: nextTry
  keys,             \* the key pairs made so far
  told,             \* the passphrase the console last heard is set
  crashes

vars == <<vault, rec, key, disk, dirty, call, wait, keys, told, crashes>>

Keys == 1..MaxKeys
Vaults == [pub : Keys, pass : Passphrases]

Clear == 0
NoCall == [op |-> "none", pass |-> None, new |-> None, vault |-> None, key |-> 0]

\* A call: what it was given, and what it read before it left the event loop.
CallType == [op    : {"none", "set", "unlock", "check", "rewrap"},
             pass  : Passphrases \cup {None}, new : Passphrases \cup {None},
             vault : Vaults \cup {None}, key : 0..MaxKeys]

TypeOK ==
  /\ vault \in Vaults \cup {None}
  /\ rec \in [Msgs -> 0..MaxKeys \cup {None}]
  /\ key \in 0..MaxKeys
  /\ disk \in [vault : Vaults \cup {None}, rec : [Msgs -> 0..MaxKeys \cup {None}]]
  /\ dirty \in BOOLEAN /\ wait \in BOOLEAN
  /\ call \in [Calls -> CallType]
  /\ keys \in 0..MaxKeys
  /\ told \in Passphrases \cup {None}
  /\ crashes \in 0..MaxCrashes

Init ==
  /\ vault = None /\ rec = [m \in Msgs |-> None] /\ key = 0
  /\ disk = [vault |-> None, rec |-> rec] /\ dirty = FALSE
  /\ call = [c \in Calls |-> NoCall] /\ wait = FALSE
  /\ keys = 0 /\ told = None /\ crashes = 0

On == vault # None

\* saveNow, of what this step leaves in memory.
SaveNow == disk' = [vault |-> vault', rec |-> rec'] /\ dirty' = FALSE
Save    == dirty' = TRUE /\ disk' = disk

Returns(c)    == call' = [call EXCEPT ![c] = NoCall]
Calling(c, r) == call[c].op = "none" /\ call' = [call EXCEPT ![c] = r]

-----------------------------------------------------------------------------
(* vaultSet.                                                               *)

SetStarts(c, p) ==
  /\ ~On
  /\ OneSet => \A d \in Calls : call[d].op # "set"
  /\ Calling(c, [NoCall EXCEPT !.op = "set", !.pass = p])
  /\ UNCHANGED <<vault, rec, key, disk, dirty, wait, keys, told, crashes>>

\* createVault has its key: what is stored in the clear is sealed to it.
Sealed(k) == [m \in Msgs |-> IF rec[m] = Clear THEN k ELSE rec[m]]
SetDone(c) ==
  /\ call[c].op = "set" /\ keys < MaxKeys
  /\ keys' = keys + 1
  /\ vault' = [pub |-> keys', pass |-> call[c].pass]
  /\ key' = keys'
  /\ rec' = Sealed(keys')
  /\ SaveNow
  /\ told' = call[c].pass
  /\ Returns(c)
  /\ UNCHANGED <<wait, crashes>>

-----------------------------------------------------------------------------
(* vaultUnlock, vaultLock, vaultChange.                                    *)

\* checkPassphrase reads state.vault, and shares one backoff.
UnlockStarts(c, p) ==
  /\ On /\ ~wait
  /\ Calling(c, [NoCall EXCEPT !.op = "unlock", !.pass = p, !.vault = vault])
  /\ UNCHANGED <<vault, rec, key, disk, dirty, wait, keys, told, crashes>>

UnlockDone(c) ==
  /\ call[c].op = "unlock"
  /\ IF call[c].pass = call[c].vault.pass
     THEN key' = call[c].vault.pub /\ wait' = wait
     ELSE wait' = TRUE /\ key' = key
  /\ Returns(c)
  /\ UNCHANGED <<vault, rec, disk, dirty, keys, told, crashes>>

Lock ==
  /\ key' = 0
  /\ UNCHANGED <<vault, rec, disk, dirty, call, wait, keys, told, crashes>>

ChangeStarts(c, p, q) ==
  /\ On /\ ~wait
  /\ Calling(c, [NoCall EXCEPT !.op = "check", !.pass = p, !.new = q, !.vault = vault])
  /\ UNCHANGED <<vault, rec, key, disk, dirty, wait, keys, told, crashes>>

\* The old passphrase is right: its key is wrapped again, for the vault as it
\* is now.
ChangeChecked(c) ==
  /\ call[c].op = "check"
  /\ IF call[c].pass = call[c].vault.pass
     THEN /\ IF call[c].vault.pub = vault.pub
             THEN call' = [call EXCEPT ![c].op = "rewrap", ![c].key = call[c].vault.pub]
             ELSE Returns(c)
          /\ wait' = wait
     ELSE wait' = TRUE /\ Returns(c)
  /\ UNCHANGED <<vault, rec, key, disk, dirty, keys, told, crashes>>

ChangeDone_Later(c) ==                                             \* mutant
  /\ call[c].op = "rewrap"
  /\ vault' = [pub |-> call[c].key, pass |-> call[c].new]
  /\ key' = call[c].key
  /\ UNCHANGED rec /\ Save
  /\ told' = call[c].new
  /\ Returns(c)
  /\ UNCHANGED <<wait, keys, crashes>>
ChangeDone(c) ==
  /\ call[c].op = "rewrap"
  /\ vault' = [pub |-> call[c].key, pass |-> call[c].new]
  /\ key' = call[c].key
  /\ UNCHANGED rec /\ SaveNow
  /\ told' = call[c].new
  /\ Returns(c)
  /\ UNCHANGED <<wait, keys, crashes>>

\* nextTry has passed.
WaitOver ==
  /\ wait /\ wait' = FALSE
  /\ UNCHANGED <<vault, rec, key, disk, dirty, call, keys, told, crashes>>

-----------------------------------------------------------------------------
(* Messages, saves and restarts.                                           *)

\* storeText, of a message that arrives or is sent.
StoreText_Unlocked(m) ==                                           \* mutant
  /\ rec[m] = None
  /\ rec' = [rec EXCEPT ![m] = IF On /\ key # 0 THEN vault.pub ELSE Clear]
  /\ Save
  /\ UNCHANGED <<vault, key, call, wait, keys, told, crashes>>
StoreText(m) ==
  /\ rec[m] = None
  /\ rec' = [rec EXCEPT ![m] = IF On THEN vault.pub ELSE Clear]
  /\ Save
  /\ UNCHANGED <<vault, key, call, wait, keys, told, crashes>>

SaveFires ==
  /\ dirty /\ disk' = [vault |-> vault, rec |-> rec] /\ dirty' = FALSE
  /\ UNCHANGED <<vault, rec, key, call, wait, keys, told, crashes>>

\* A shutdown saves what is due, a kill does not.  The daemon comes up locked.
Restart(d) ==
  /\ disk' = d /\ vault' = d.vault /\ rec' = d.rec /\ dirty' = FALSE
  /\ key' = 0 /\ call' = [c \in Calls |-> NoCall] /\ wait' = FALSE
  /\ UNCHANGED <<keys, told>>
Stop ==
  /\ \/ dirty /\ Restart([vault |-> vault, rec |-> rec])
     \/ ~dirty /\ Restart(disk)
  /\ UNCHANGED crashes
Crash == crashes < MaxCrashes /\ crashes' = crashes + 1 /\ Restart(disk)

Next ==
  \/ \E c \in Calls : \/ SetDone(c) \/ UnlockDone(c) \/ ChangeChecked(c) \/ ChangeDone(c)
                      \/ \E p \in Passphrases : SetStarts(c, p) \/ UnlockStarts(c, p)
                      \/ \E p, q \in Passphrases : ChangeStarts(c, p, q)
  \/ \E m \in Msgs : StoreText(m)
  \/ Lock \/ WaitOver \/ SaveFires \/ Stop \/ Crash

Spec == Init /\ [][Next]_vars

-----------------------------------------------------------------------------

\* "message text is sealed before it is written to state.json": once a
\* passphrase is set no text is in the clear, in memory's records or on disk,
\* whether the daemon is locked or not.
NeverInClear ==
  /\ On => \A m \in Msgs : rec[m] # Clear
  /\ disk.vault # None => \A m \in Msgs : disk.rec[m] # Clear

\* Every sealed text opens with the vault's key, and a key in memory is that
\* key, also after a restart: with the passphrase the history is readable.
HistoryOpens ==
  /\ \A m \in Msgs : rec[m] \in Keys => On /\ rec[m] = vault.pub
  /\ \A m \in Msgs : disk.rec[m] \in Keys => disk.vault # None /\ disk.rec[m] = disk.vault.pub
  /\ key # 0 => On /\ key = vault.pub

\* The passphrase the console was last told is set is the one that opens the
\* vault, in memory and after any restart.
ToldOpens == told # None => /\ On /\ vault.pass = told
                            /\ disk.vault = vault

\* The passphrase last told opens the vault, and the vault's key the history.
OpensWithTold == ToldOpens /\ HistoryOpens
=============================================================================
