------------------------------- MODULE FilePV -------------------------------
(***************************************************************************)
(* The file based private validator (privval/file_pv.go, signer.go).       *)
(*                                                                         *)
(* Several processes may open the same key and state files.  A process     *)
(* reads the key, takes the flock, loads the last sign state and then      *)
(* signs: it checks height, round and step, updates its memory, writes the *)
(* state file (temporary file, rename, directory sync) and only then hands *)
(* the signature to its caller.  Processes and the machine may crash       *)
(* between any two of these steps.                                         *)
(*                                                                         *)
(* What is signed is abstracted to its content: two messages have the same *)
(* content iff their sign bytes are equal (chain, timestamp, block, ...).  *)
(***************************************************************************)
EXTENDS Integers, FiniteSets

CONSTANTS
  Procs,       \* operating system processes that use the same two files
  Keys,        \* the key pairs that ed25519.GenerateKey may return
  Heights,     \* heights a caller may ask to sign at
  Rounds,      \* rounds a caller may ask to sign at
  Contents,    \* sign bytes, up to equality
  Uses,        \* ways of use, each a set of options; one is chosen at the start
  NoKey, NoProc, NoContent, NoFile   \* absent key, lock owner, hash and file

(* "load", "new", "generate": the constructors that are used.              *)
(* "reset": FilePV.Reset is called.                                        *)
(* "resign": a caller may present sign bytes that were signed before.      *)
(* "use_after_close": a caller signs through a FilePV it has closed.       *)
(* "machine_crash": power failures, which lose renames not yet synced.     *)
AllOptions == {"load", "new", "generate", "reset", "resign",
               "use_after_close", "machine_crash"}

ASSUME HRAssumption ==
  /\ Heights \subseteq Nat \ {0}
  /\ Rounds \subseteq Nat
ASSUME UsesAssumption == Uses \subseteq SUBSET AllOptions

StepProposal == 0
StepPrevote == 1
StepPrecommit == 2
SignSteps == {StepProposal, StepPrevote, StepPrecommit}

(* LastSignState: the fields the double-sign check reads. *)
LastSignState == [h : Heights \cup {0}, r : Rounds \cup {0}, s : SignSteps,
                  c : Contents \cup {NoContent}]

(* LastSignState{}: the Go zero value. *)
ZeroState == [h |-> 0, r |-> 0, s |-> 0, c |-> NoContent]

ASSUME NoneAssumption ==
  /\ NoKey \notin Keys /\ NoProc \notin Procs
  /\ NoContent \notin Contents /\ NoFile \notin LastSignState

VARIABLES
  use,       \* the way of use
  pc,        \* pc[p]: where process p is in a constructor or in saveState
  key,       \* key[p]: FilePV.privKey of p
  mem,       \* mem[p]: FilePV.lastSignState of p
  saving,    \* saving[p]: the operation that called saveState, and oldState
  lock,      \* the process whose descriptor holds the flock
  keyFile,   \* content of the key file
  file,      \* content of the state file as a reader sees it
  synced,    \* content of the state file that survives a power failure
  released   \* every signature handed to a caller

vars == <<use, pc, key, mem, saving, lock, keyFile, file, synced, released>>

Idle == [op |-> "none", old |-> ZeroState]

Signature == [key : Keys, h : Heights, r : Rounds, s : SignSteps, c : Contents]

TypeOK ==
  /\ use \in Uses
  /\ pc \in [Procs -> {"down", "savekey", "keyed", "locked", "gensavekey",
                       "rename", "sync", "ready"}]
  /\ key \in [Procs -> Keys \cup {NoKey}]
  /\ mem \in [Procs -> LastSignState]
  /\ saving \in [Procs -> [op : {"none", "sign", "init", "generate", "reset"},
                           old : LastSignState]]
  /\ lock \in Procs \cup {NoProc}
  /\ keyFile \in Keys \cup {NoKey}
  /\ file \in LastSignState \cup {NoFile}
  /\ synced \in LastSignState \cup {NoFile}
  /\ released \subseteq Signature

-----------------------------------------------------------------------------
(* Mutant: the step is only compared for equality. *)
CheckHRSNoStep(lss, h, r, s) ==
  CASE lss.h > h -> "ErrHeightRegression"
    [] lss.h = h /\ lss.r > r -> "ErrRoundRegression"
    [] lss.h = h /\ lss.r = r /\ lss.s = s -> "ErrDoubleSign"
    [] OTHER -> "ok"

(* LastSignState.CheckHRS *)
CheckHRS(lss, h, r, s) ==
  CASE lss.h > h -> "ErrHeightRegression"
    [] lss.h = h /\ lss.r > r -> "ErrRoundRegression"
    [] lss.h = h /\ lss.r = r /\ lss.s > s -> "ErrStepRegression"
    [] lss.h = h /\ lss.r = r /\ lss.s = s -> "ErrDoubleSign"
    [] OTHER -> "ok"

(* Mutant: the same position is taken for the same message. *)
isSameAlways(lss, c) == TRUE

(* isSameVote and isSameProposal: the sign bytes hash is compared.  A state *)
(* without a hash is the zero state, which CheckHRS never lets get here, or *)
(* comes from a file that a version without the hash wrote; such files, and *)
(* the comparison by block hash that is kept for them, are left out.        *)
isSame(lss, c) == lss.c = c

FreshKeys == Keys \ ({keyFile} \cup {key[q] : q \in Procs}
                       \cup {m.key : m \in released})

(* The process ends or its FilePV is dropped: the kernel frees the flock. *)
Exit(p) ==
  /\ pc' = [pc EXCEPT ![p] = "down"]
  /\ key' = [key EXCEPT ![p] = NoKey]
  /\ mem' = [mem EXCEPT ![p] = ZeroState]
  /\ saving' = [saving EXCEPT ![p] = Idle]
  /\ lock' = IF lock = p THEN NoProc ELSE lock

(* Enter saveState with st as the new lastSignState. *)
StartSave(p, op, st) ==
  /\ mem' = [mem EXCEPT ![p] = st]
  /\ saving' = [saving EXCEPT ![p] = [op |-> op, old |-> mem[p]]]
  /\ pc' = [pc EXCEPT ![p] = "rename"]

-----------------------------------------------------------------------------
(* Constructors. *)

(* loadKeyStrict: the key file must exist.  The lock is not held. *)
LoadKeyStrict(p) ==
  /\ "load" \in use
  /\ pc[p] = "down" /\ keyFile # NoKey
  /\ key' = [key EXCEPT ![p] = keyFile]
  /\ pc' = [pc EXCEPT ![p] = "keyed"]
  /\ saving' = [saving EXCEPT ![p] = Idle]
  /\ UNCHANGED <<use, mem, lock, keyFile, file, synced, released>>

(* loadKey: a missing key is generated; the lock is not held.  NewFilePV   *)
(* is remembered in saving.op, because loadState treats a missing state    *)
(* file differently from loadStateStrict.                                  *)
LoadKey(p) ==
  /\ "new" \in use
  /\ pc[p] = "down"
  /\ \/ /\ keyFile # NoKey
        /\ key' = [key EXCEPT ![p] = keyFile]
        /\ pc' = [pc EXCEPT ![p] = "keyed"]
     \/ /\ keyFile = NoKey
        /\ \E k \in FreshKeys : key' = [key EXCEPT ![p] = k]
        /\ pc' = [pc EXCEPT ![p] = "savekey"]
  /\ saving' = [saving EXCEPT ![p] = [op |-> "init", old |-> ZeroState]]
  /\ UNCHANGED <<use, mem, lock, keyFile, file, synced, released>>

(* saveKey, in NewFilePV: a rename that replaces whatever is there now. *)
SaveKey(p) ==
  /\ pc[p] = "savekey"
  /\ keyFile' = key[p]
  /\ pc' = [pc EXCEPT ![p] = "keyed"]
  /\ UNCHANGED <<use, key, mem, saving, lock, file, synced, released>>

(* acquireLock: LOCK_EX|LOCK_NB; the constructor fails when it is taken. *)
AcquireLock(p) ==
  /\ pc[p] = "keyed"
  /\ IF lock = NoProc
       THEN /\ lock' = p
            /\ pc' = [pc EXCEPT ![p] = "locked"]
            /\ UNCHANGED <<key, mem, saving>>
       ELSE Exit(p)
  /\ UNCHANGED <<use, keyFile, file, synced, released>>

(* loadStateStrict and loadState, after the lock is held. *)
LoadState(p) ==
  /\ pc[p] = "locked"
  /\ \/ /\ file # NoFile
        /\ mem' = [mem EXCEPT ![p] = file]
        /\ saving' = [saving EXCEPT ![p] = Idle]
        /\ pc' = [pc EXCEPT ![p] = "ready"]
        /\ UNCHANGED <<key, lock>>
     \/ /\ file = NoFile /\ saving[p].op = "init"
        /\ StartSave(p, "init", ZeroState)
        /\ UNCHANGED <<key, lock>>
     \/ /\ file = NoFile /\ saving[p].op # "init"
        /\ Exit(p)
  /\ UNCHANGED <<use, keyFile, file, synced, released>>

(* LoadFilePV and NewFilePV: the key, the lock, and only then the state. *)
Open(p) ==
  \/ LoadKeyStrict(p) \/ LoadKey(p) \/ SaveKey(p)
  \/ AcquireLock(p) \/ LoadState(p)

(* GenerateFilePV: a new key in memory, then the lock. *)
GenerateFilePV(p) ==
  /\ "generate" \in use
  /\ pc[p] = "down" /\ lock = NoProc
  /\ \E k \in FreshKeys : key' = [key EXCEPT ![p] = k]
  /\ lock' = p
  /\ pc' = [pc EXCEPT ![p] = "gensavekey"]
  /\ UNCHANGED <<use, mem, saving, keyFile, file, synced, released>>

(* saveKey, in GenerateFilePV; saveState follows. *)
GenerateSaveKey(p) ==
  /\ pc[p] = "gensavekey"
  /\ keyFile' = key[p]
  /\ StartSave(p, "generate", ZeroState)
  /\ UNCHANGED <<use, key, lock, file, synced, released>>

-----------------------------------------------------------------------------
(* Signing. *)

(* SignVote and SignProposal do not look at lockFile. *)
MaySign(p) ==
  /\ pc[p] = "ready"
  /\ lock = p \/ "use_after_close" \in use

(* Mutant: the signature is returned before the state is saved. *)
SignEarly(p, h, r, s, c) ==
  /\ MaySign(p)
  /\ CheckHRS(mem[p], h, r, s) = "ok"
  /\ StartSave(p, "sign", [h |-> h, r |-> r, s |-> s, c |-> c])
  /\ released' = released \cup
       {[key |-> key[p], h |-> h, r |-> r, s |-> s, c |-> c]}
  /\ UNCHANGED <<use, key, lock, keyFile, file, synced>>

(* SignVote (s = 1, 2) and SignProposal (s = 0) up to the call of          *)
(* saveState.  A request that CheckHRS refuses changes nothing.            *)
Sign(p, h, r, s, c) ==
  /\ MaySign(p)
  /\ CheckHRS(mem[p], h, r, s) = "ok"
  /\ StartSave(p, "sign", [h |-> h, r |-> r, s |-> s, c |-> c])
  /\ UNCHANGED <<use, key, lock, keyFile, file, synced, released>>

(* Mutant: every refusal with the same content is taken for a repetition. *)
SignAgainEarlier(p, h, r, s, c) ==
  /\ "resign" \in use
  /\ MaySign(p)
  /\ CheckHRS(mem[p], h, r, s) # "ok"
  /\ isSame(mem[p], c)
  /\ released' = released \cup
       {[key |-> key[p], h |-> h, r |-> r, s |-> s, c |-> c]}
  /\ UNCHANGED <<use, pc, key, mem, saving, lock, keyFile, file, synced>>

(* The idempotent branch: the cached signature is returned at once. *)
SignAgain(p, h, r, s, c) ==
  /\ "resign" \in use
  /\ MaySign(p)
  /\ CheckHRS(mem[p], h, r, s) = "ErrDoubleSign"
  /\ isSame(mem[p], c)
  /\ released' = released \cup
       {[key |-> key[p], h |-> h, r |-> r, s |-> s, c |-> c]}
  /\ UNCHANGED <<use, pc, key, mem, saving, lock, keyFile, file, synced>>

(* saveState: the temporary file is written, synced and renamed. *)
SaveRename(p) ==
  /\ pc[p] = "rename"
  /\ file' = mem[p]
  /\ pc' = [pc EXCEPT ![p] = "sync"]
  /\ UNCHANGED <<use, key, mem, saving, lock, keyFile, synced, released>>

(* saveState: the directory is synced.  saveState returns nil, and a       *)
(* signing caller gets its signature.                                      *)
SaveSync(p) ==
  /\ pc[p] = "sync"
  /\ synced' = file
  /\ pc' = [pc EXCEPT ![p] = "ready"]
  /\ saving' = [saving EXCEPT ![p] = Idle]
  /\ released' = IF saving[p].op = "sign"
                   THEN released \cup
                          {[key |-> key[p], h |-> mem[p].h, r |-> mem[p].r,
                            s |-> mem[p].s, c |-> mem[p].c]}
                   ELSE released
  /\ UNCHANGED <<use, key, mem, lock, keyFile, file>>

(* Mutant: signing rolls back and returns the error instead of panicking. *)
SaveFailReturns(p) ==
  /\ pc[p] \in {"rename", "sync"}
  /\ IF saving[p].op \in {"reset", "sign"}
       THEN /\ mem' = [mem EXCEPT ![p] = saving[p].old]
            /\ saving' = [saving EXCEPT ![p] = Idle]
            /\ pc' = [pc EXCEPT ![p] = "ready"]
            /\ UNCHANGED <<key, lock>>
       ELSE Exit(p)
  /\ UNCHANGED <<use, keyFile, file, synced, released>>

(* saveState fails, before or after the rename.  Signing panics, the       *)
(* constructors release the lock and return the error, and Reset rolls its *)
(* memory back and lives on.                                               *)
SaveFail(p) ==
  /\ pc[p] \in {"rename", "sync"}
  /\ IF saving[p].op = "reset"
       THEN /\ mem' = [mem EXCEPT ![p] = saving[p].old]
            /\ saving' = [saving EXCEPT ![p] = Idle]
            /\ pc' = [pc EXCEPT ![p] = "ready"]
            /\ UNCHANGED <<key, lock>>
       ELSE Exit(p)
  /\ UNCHANGED <<use, keyFile, file, synced, released>>

(* Reset zeroes the last sign state, in memory and then on disk. *)
Reset(p) ==
  /\ "reset" \in use
  /\ pc[p] = "ready" /\ lock = p
  /\ StartSave(p, "reset", ZeroState)
  /\ UNCHANGED <<use, key, lock, keyFile, file, synced, released>>

(* Close gives the flock back; the FilePV stays usable. *)
Close(p) ==
  /\ pc[p] = "ready" /\ lock = p
  /\ lock' = NoProc
  /\ UNCHANGED <<use, pc, key, mem, saving, keyFile, file, synced, released>>

-----------------------------------------------------------------------------
(* The environment. *)

(* A process is killed, panics or drops its FilePV at any point. *)
Crash(p) ==
  /\ pc[p] # "down"
  /\ Exit(p)
  /\ UNCHANGED <<use, keyFile, file, synced, released>>

(* The kernel writes the directory back on its own. *)
Writeback ==
  /\ "machine_crash" \in use
  /\ synced # file
  /\ synced' = file
  /\ UNCHANGED <<use, pc, key, mem, saving, lock, keyFile, file, released>>

(* Power failure: every process ends, a rename not yet synced may be lost. *)
MachineCrash ==
  /\ "machine_crash" \in use
  /\ pc' = [p \in Procs |-> "down"]
  /\ key' = [p \in Procs |-> NoKey]
  /\ mem' = [p \in Procs |-> ZeroState]
  /\ saving' = [p \in Procs |-> Idle]
  /\ lock' = NoProc
  /\ file' \in {file, synced}
  /\ synced' = file'
  /\ UNCHANGED <<use, keyFile, released>>

Init ==
  /\ use \in Uses
  /\ pc = [p \in Procs |-> "down"]
  /\ key = [p \in Procs |-> NoKey]
  /\ mem = [p \in Procs |-> ZeroState]
  /\ saving = [p \in Procs |-> Idle]
  /\ lock = NoProc
  /\ keyFile \in Keys \cup {NoKey}
  /\ keyFile # NoKey \/ "new" \in use \/ "generate" \in use
  /\ file = IF keyFile = NoKey THEN NoFile ELSE ZeroState
  /\ synced = file
  /\ released = {}

Next ==
  \/ \E p \in Procs :
       \/ Open(p)
       \/ GenerateFilePV(p) \/ GenerateSaveKey(p)
       \/ \E h \in Heights, r \in Rounds, s \in SignSteps, c \in Contents :
            Sign(p, h, r, s, c) \/ SignAgain(p, h, r, s, c)
       \/ SaveRename(p) \/ SaveSync(p) \/ SaveFail(p)
       \/ Reset(p) \/ Close(p) \/ Crash(p)
  \/ Writeback
  \/ MachineCrash

Spec == Init /\ [][Next]_vars

-----------------------------------------------------------------------------
(* Properties. *)

(* Position of a signature or of a sign state in signing order. *)
Before(a, b) ==
  \/ a.h < b.h
  \/ a.h = b.h /\ a.r < b.r
  \/ a.h = b.h /\ a.r = b.r /\ a.s < b.s

SameHRS(a, b) == a.h = b.h /\ a.r = b.r /\ a.s = b.s

(* A sign state protects a signature: it is later, or it is that very      *)
(* message.                                                                *)
Covers(st, m) ==
  /\ st # NoFile
  /\ Before(m, st) \/ (SameHRS(m, st) /\ m.c = st.c)

(* What callers and operators must respect: GenerateFilePV and Reset are   *)
(* not used on files that were used before, a closed FilePV is not used,   *)
(* and where the power may fail no message is presented for signing twice. *)
Discipline ==
  /\ "generate" \notin use
  /\ "reset" \notin use
  /\ "use_after_close" \notin use
  /\ "resign" \notin use \/ "machine_crash" \notin use

NoneSignedTwice ==
  \A m, n \in released : m.key = n.key /\ SameHRS(m, n) => m.c = n.c

(* No key ever signs two different messages at one height, round and step, *)
(* over any crashes, restarts and competing processes (SignVote,           *)
(* SignProposal, privval/doc.go "prevents equivocation").                  *)
NoDoubleSign == Discipline => NoneSignedTwice

(* The state file always protects every signature that was handed out,     *)
(* also right after a power failure: saveState precedes the assignment of  *)
(* vote.Signature.                                                         *)
ReleasedAreCovered == Discipline => \A m \in released : Covers(file, m)

(* Signatures leave in signing order: a new one is never earlier than one  *)
(* that was handed out before, whichever process signs (CheckHRS on a      *)
(* state loaded under the lock).                                           *)
ReleasedInOrder ==
  [][Discipline => \A m \in released' \ released : \A n \in released : ~Before(m, n)]_vars

(* The state file goes back to an earlier height, round or step only when  *)
(* Reset or GenerateFilePV replaces it: no interleaving of openers, saves, *)
(* failed saves and process crashes makes a signer overwrite a later       *)
(* state.  Power failures and use after Close are excluded.                *)
FileRegressesOnlyByReset ==
  [][use \cap {"machine_crash", "use_after_close"} = {}
       /\ file # NoFile /\ file' # NoFile /\ Before(file', file)
         => \E p \in Procs : saving[p].op \in {"reset", "generate"}]_vars

(* The memory of the process that owns the lock agrees with the state file *)
(* whenever no save is in progress: what Reset's rollback is there for.    *)
MemoryMatchesFile ==
  Discipline => \A p \in Procs : pc[p] = "ready" /\ lock = p => mem[p] = file
=============================================================================
