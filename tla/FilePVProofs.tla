---------------------------- MODULE FilePVProofs ----------------------------
(***************************************************************************)
(* Proofs about the private validator.  The double-sign theorem holds for  *)
(* any number of processes, keys, heights, rounds and messages under       *)
(* Discipline: what callers and operators must respect.                    *)
(***************************************************************************)
EXTENDS FilePV, TLAPS

(* Whoever is between acquireLock and the end of saveState owns the lock. *)
LockInv ==
  \A p \in Procs : pc[p] \in {"locked", "rename", "sync"} => lock = p

(* What an owner of the lock knows about the state file. *)
OwnerInv ==
  \A p \in Procs :
    /\ pc[p] = "ready" /\ lock = p => mem[p] = file
    /\ pc[p] = "sync" => mem[p] = file
    /\ pc[p] \in {"rename", "sync"} =>
         \/ saving[p].op = "init"
         \/ saving[p].op = "sign" /\ mem[p].h # 0 /\ mem[p].c \in Contents
                                  /\ mem[p].r \in Rounds /\ key[p] \in Keys
    /\ pc[p] = "rename" =>
         \/ saving[p].op = "init" /\ file = NoFile
         \/ saving[p].op = "sign" /\ file # NoFile /\ Before(file, mem[p])
    /\ pc[p] \notin {"down", "rename", "sync"} => saving[p].op \in {"none", "init"}
    /\ pc[p] # "down" => key[p] \in Keys
    /\ pc[p] # "gensavekey"

(* Every signature that left is protected by the file and, where the power *)
(* may fail, by what is durable of it.                                     *)
CoverInv ==
  /\ \A m \in released : Covers(file, m)
  /\ "machine_crash" \in use => \A m \in released : Covers(synced, m)

IInv == /\ TypeOK
        /\ LockInv
        /\ OwnerInv
        /\ CoverInv
        /\ NoneSignedTwice

(* Signing order is a strict order on positions. *)
LEMMA BeforeTrans ==
  ASSUME NEW a, NEW b, NEW c,
         a.h \in Nat, a.r \in Nat, a.s \in Nat,
         b.h \in Nat, b.r \in Nat, b.s \in Nat,
         c.h \in Nat, c.r \in Nat, c.s \in Nat,
         Before(a, b) \/ SameHRS(a, b), Before(b, c)
  PROVE  Before(a, c)
BY DEF Before, SameHRS

(* CheckHRS admits exactly the messages after the last signed one. *)
LEMMA CheckHRSIsBefore ==
  ASSUME NEW st \in LastSignState,
         NEW h \in Heights, NEW r \in Rounds, NEW s \in SignSteps, NEW c
  PROVE  CheckHRS(st, h, r, s) = "ok"
           <=> Before(st, [h |-> h, r |-> r, s |-> s, c |-> c])
BY HRAssumption DEF CheckHRS, Before, LastSignState, SignSteps, StepProposal,
     StepPrevote, StepPrecommit

LEMMA Numbers ==
  /\ \A h \in Heights \cup {0} : h \in Nat
  /\ \A r \in Rounds \cup {0} : r \in Nat
  /\ \A s \in SignSteps : s \in Nat
BY HRAssumption DEF SignSteps, StepProposal, StepPrevote, StepPrecommit

LEMMA StateNumbers ==
  ASSUME NEW st \in LastSignState
  PROVE  st.h \in Nat /\ st.r \in Nat /\ st.s \in Nat
<1>1. st.h \in Heights \cup {0} /\ st.r \in Rounds \cup {0} /\ st.s \in SignSteps
  BY DEF LastSignState
<1> QED BY <1>1, Numbers

LEMMA SignatureNumbers ==
  ASSUME NEW m \in Signature
  PROVE  m.h \in Nat /\ m.r \in Nat /\ m.s \in Nat
<1>1. m.h \in Heights /\ m.r \in Rounds /\ m.s \in SignSteps
  BY DEF Signature
<1> QED BY <1>1, Numbers

(* A later sign state protects whatever an earlier one protected. *)
LEMMA CoversMono ==
  ASSUME NEW st \in LastSignState, NEW st2 \in LastSignState,
         NEW m \in Signature, Covers(st, m), Before(st, st2)
  PROVE  Covers(st2, m)
<1>1. st2 # NoFile
  BY NoneAssumption
<1>2. /\ st.h \in Nat /\ st.r \in Nat /\ st.s \in Nat
      /\ st2.h \in Nat /\ st2.r \in Nat /\ st2.s \in Nat
      /\ m.h \in Nat /\ m.r \in Nat /\ m.s \in Nat
  BY StateNumbers, SignatureNumbers
<1>3. Before(m, st2)
  BY <1>2 DEF Covers, Before, SameHRS
<1> QED BY <1>1, <1>3 DEF Covers

(* At the position of a sign state, what it protects is its own message. *)
LEMMA CoverUnique ==
  ASSUME NEW st \in LastSignState, NEW m \in Signature,
         Covers(st, m), SameHRS(m, st)
  PROVE  m.c = st.c
BY StateNumbers, SignatureNumbers DEF Covers, Before, SameHRS

(* Adding a message that a sign state holds to signatures it protects      *)
(* creates no double sign.                                                 *)
LEMMA AddCovered ==
  ASSUME IInv, file \in LastSignState,
         NEW new \in Signature, SameHRS(new, file), new.c = file.c,
         NEW rel, rel \subseteq released \cup {new}
  PROVE  \A m, n \in rel : m.key = n.key /\ SameHRS(m, n) => m.c = n.c
<1> SUFFICES ASSUME NEW m \in rel, NEW n \in rel, m.key = n.key, SameHRS(m, n)
             PROVE  m.c = n.c
  OBVIOUS
<1>1. \A x \in released : SameHRS(x, file) => x.c = file.c
  BY CoverUnique DEF IInv, TypeOK, CoverInv
<1>2. CASE m = new /\ n = new
  BY <1>2
<1>3. CASE m = new /\ n \in released
  BY <1>1, <1>3 DEF SameHRS
<1>4. CASE n = new /\ m \in released
  BY <1>1, <1>4 DEF SameHRS
<1>5. CASE m \in released /\ n \in released
  BY <1>5 DEF IInv, NoneSignedTwice
<1> QED BY <1>2, <1>3, <1>4, <1>5

LEMMA ZeroStateType == ZeroState \in LastSignState
BY DEF ZeroState, LastSignState, SignSteps, StepProposal

(* The inductive invariant holds initially. *)
LEMMA InitIInv == Init => IInv
BY ZeroStateType, NoneAssumption
   DEF Init, IInv, TypeOK, LockInv, OwnerInv, CoverInv, NoneSignedTwice, Idle

(* A process that ends leaves the files and the other processes alone. *)
LEMMA ExitIInv ==
  ASSUME IInv, NEW p \in Procs, Exit(p), UNCHANGED <<use, keyFile, file, synced, released>>
  PROVE  IInv'
<1> USE ZeroStateType, NoneAssumption
<1>1. TypeOK'
  BY DEF IInv, TypeOK, Exit, Idle
<1>2. LockInv'
  BY DEF IInv, TypeOK, LockInv, Exit
<1>3. OwnerInv'
  <2>1. ASSUME NEW q \in Procs, q # p
        PROVE  /\ pc'[q] = pc[q] /\ mem'[q] = mem[q] /\ saving'[q] = saving[q]
               /\ key'[q] = key[q] /\ (lock' = q => lock = q)
    BY <2>1 DEF IInv, TypeOK, Exit
  <2>2. pc'[p] = "down"
    BY DEF IInv, TypeOK, Exit
  <2> QED BY <2>1, <2>2 DEF IInv, OwnerInv
<1>4. CoverInv' /\ NoneSignedTwice'
  BY DEF IInv, CoverInv, NoneSignedTwice
<1> QED BY <1>1, <1>2, <1>3, <1>4 DEF IInv

(* Every step preserves the inductive invariant. *)
LEMMA NextIInv == Discipline /\ IInv /\ [Next]_vars => IInv'
<1> SUFFICES ASSUME Discipline, IInv, [Next]_vars PROVE IInv'
  OBVIOUS
<1> USE ZeroStateType, NoneAssumption
<1>1. ASSUME NEW p \in Procs, LoadKeyStrict(p) PROVE IInv'
  BY <1>1 DEF LoadKeyStrict, IInv, TypeOK, LockInv, OwnerInv, CoverInv, NoneSignedTwice, Idle
<1>2. ASSUME NEW p \in Procs, LoadKey(p) PROVE IInv'
  BY <1>2 DEF LoadKey, FreshKeys, IInv, TypeOK, LockInv, OwnerInv, CoverInv, NoneSignedTwice
<1>3. ASSUME NEW p \in Procs, SaveKey(p) PROVE IInv'
  BY <1>3 DEF SaveKey, IInv, TypeOK, LockInv, OwnerInv, CoverInv, NoneSignedTwice
<1>4. ASSUME NEW p \in Procs, AcquireLock(p) PROVE IInv'
  <2>1. CASE lock = NoProc
    <3>1. TypeOK'
      BY <1>4, <2>1 DEF AcquireLock, IInv, TypeOK
    <3>2. LockInv' /\ OwnerInv'
      BY <1>4, <2>1 DEF AcquireLock, IInv, TypeOK, LockInv, OwnerInv
    <3> QED BY <1>4, <2>1, <3>1, <3>2 DEF AcquireLock, IInv, CoverInv, NoneSignedTwice
  <2>2. CASE lock # NoProc
    BY <1>4, <2>2, ExitIInv DEF AcquireLock
  <2> QED BY <2>1, <2>2
<1>5. ASSUME NEW p \in Procs, LoadState(p) PROVE IInv'
  <2>1. CASE file = NoFile /\ saving[p].op # "init"
    BY <1>5, <2>1, ExitIInv DEF LoadState
  <2>2. CASE file # NoFile \/ saving[p].op = "init"
    <3>1. TypeOK'
      <4>1. CASE file # NoFile
        <5>1. file \in LastSignState /\ Idle.op = "none" /\ Idle.old \in LastSignState
          BY <4>1, ZeroStateType DEF IInv, TypeOK, Idle
        <5>2. mem' = [mem EXCEPT ![p] = file] /\ saving' = [saving EXCEPT ![p] = Idle]
              /\ pc' = [pc EXCEPT ![p] = "ready"]
              /\ UNCHANGED <<use, key, lock, keyFile, file, synced, released>>
          BY <1>5, <4>1, Zenon DEF LoadState
        <5>3. mem' \in [Procs -> LastSignState]
          BY <5>1, <5>2 DEF IInv, TypeOK
        <5>4. saving' \in [Procs -> [op : {"none", "sign", "init", "generate", "reset"},
                                     old : LastSignState]]
          BY <5>1, <5>2, ZeroStateType DEF IInv, TypeOK, Idle
        <5>5. pc' \in [Procs -> {"down", "savekey", "keyed", "locked", "gensavekey",
                                 "rename", "sync", "ready"}]
          BY <5>2 DEF IInv, TypeOK
        <5> QED BY <5>2, <5>3, <5>4, <5>5, Zenon DEF IInv, TypeOK
      <4>2. CASE file = NoFile /\ saving[p].op = "init"
        <5>1. StartSave(p, "init", ZeroState)
              /\ UNCHANGED <<use, key, lock, keyFile, file, synced, released>>
          BY <1>5, <4>2, Zenon DEF LoadState
        <5>2. mem' \in [Procs -> LastSignState]
          BY <5>1, ZeroStateType DEF IInv, TypeOK, StartSave
        <5>3. saving' \in [Procs -> [op : {"none", "sign", "init", "generate", "reset"},
                                     old : LastSignState]]
          BY <5>1 DEF IInv, TypeOK, StartSave
        <5>4. pc' \in [Procs -> {"down", "savekey", "keyed", "locked", "gensavekey",
                                 "rename", "sync", "ready"}]
          BY <5>1 DEF IInv, TypeOK, StartSave
        <5> QED BY <5>1, <5>2, <5>3, <5>4, Zenon DEF IInv, TypeOK
      <4> QED BY <2>2, <4>1, <4>2
    <3>2. LockInv' /\ OwnerInv'
      BY <1>5, <2>2 DEF LoadState, StartSave, IInv, TypeOK, LockInv, OwnerInv, Idle
    <3>3. CoverInv' /\ NoneSignedTwice'
      BY <1>5, <2>2 DEF LoadState, StartSave, IInv, CoverInv, NoneSignedTwice
    <3> QED BY <3>1, <3>2, <3>3 DEF IInv
  <2> QED BY <2>1, <2>2
<1>6. ASSUME NEW p \in Procs, SaveRename(p) PROVE IInv'
  <2>0. lock = p
    BY <1>6 DEF SaveRename, IInv, LockInv
  <2>1. TypeOK' /\ LockInv'
    BY <1>6 DEF SaveRename, IInv, TypeOK, LockInv
  <2>2. OwnerInv'
    BY <1>6, <2>0 DEF SaveRename, IInv, TypeOK, LockInv, OwnerInv
  <2>3. ASSUME NEW m \in released PROVE Covers(mem[p], m)
    <3>1. Covers(file, m) /\ file # NoFile /\ file \in LastSignState
      BY <2>3 DEF IInv, TypeOK, CoverInv, Covers
    <3>2. Before(file, mem[p])
      BY <1>6, <3>1 DEF SaveRename, IInv, OwnerInv
    <3>3. mem[p] \in LastSignState /\ m \in Signature
      BY <2>3 DEF IInv, TypeOK
    <3> QED BY <3>1, <3>2, <3>3, CoversMono
  <2>4. CoverInv' /\ NoneSignedTwice'
    BY <1>6, <2>3 DEF SaveRename, IInv, CoverInv, NoneSignedTwice
  <2> QED BY <2>1, <2>2, <2>4 DEF IInv
<1>7. ASSUME NEW p \in Procs, SaveSync(p) PROVE IInv'
  <2> DEFINE new == [key |-> key[p], h |-> mem[p].h, r |-> mem[p].r,
                     s |-> mem[p].s, c |-> mem[p].c]
  <2>0. lock = p /\ mem[p] = file /\ mem[p] \in LastSignState
    BY <1>7 DEF SaveSync, IInv, LockInv, OwnerInv, TypeOK
  <2>1. saving[p].op = "sign" => new \in Signature /\ Covers(file, new)
    <3>1. SUFFICES ASSUME saving[p].op = "sign" PROVE new \in Signature /\ Covers(file, new)
      OBVIOUS
    <3>2. mem[p].h # 0 /\ mem[p].c \in Contents /\ mem[p].r \in Rounds /\ key[p] \in Keys
      BY <1>7, <3>1 DEF SaveSync, IInv, OwnerInv
    <3>3. mem[p].h \in Heights /\ mem[p].s \in SignSteps
      BY <2>0, <3>2 DEF LastSignState
    <3> QED BY <2>0, <3>2, <3>3 DEF Signature, Covers, SameHRS
  <2>2. released' \subseteq released \cup {new}
    BY <1>7 DEF SaveSync
  <2>3. \A m \in released' : m \in Signature /\ Covers(file, m)
    BY <1>7, <2>1 DEF SaveSync, IInv, TypeOK, CoverInv
  <2>4. TypeOK'
    BY <1>7, <2>3 DEF SaveSync, IInv, TypeOK, Idle
  <2>5. LockInv' /\ OwnerInv'
    BY <1>7, <2>0 DEF SaveSync, IInv, TypeOK, LockInv, OwnerInv, Idle
  <2>6. CoverInv'
    BY <1>7, <2>3 DEF SaveSync, CoverInv
  <2>7. NoneSignedTwice'
    <3>1. CASE saving[p].op = "sign"
      <4>1. SameHRS(new, file) /\ new.c = file.c
        BY <2>0 DEF SameHRS
      <4> HIDE DEF new
      <4> QED BY <2>0, <2>1, <2>2, <3>1, <4>1, AddCovered DEF NoneSignedTwice
    <3>2. CASE saving[p].op # "sign"
      BY <1>7, <3>2 DEF SaveSync, IInv, NoneSignedTwice
    <3> QED BY <3>1, <3>2
  <2> QED BY <2>4, <2>5, <2>6, <2>7 DEF IInv
<1>8. ASSUME NEW p \in Procs, SaveFail(p) PROVE IInv'
  <2>1. saving[p].op # "reset"
    BY <1>8 DEF SaveFail, IInv, OwnerInv
  <2> QED BY <1>8, <2>1, ExitIInv DEF SaveFail
<1>9. ASSUME NEW p \in Procs, Close(p) PROVE IInv'
  BY <1>9 DEF Close, IInv, TypeOK, LockInv, OwnerInv, CoverInv, NoneSignedTwice
<1>10. ASSUME NEW p \in Procs, Crash(p) PROVE IInv'
  BY <1>10, ExitIInv DEF Crash
<1>11. ASSUME NEW p \in Procs, NEW h \in Heights, NEW r \in Rounds,
              NEW s \in SignSteps, NEW c \in Contents, Sign(p, h, r, s, c)
       PROVE IInv'
  <2> DEFINE st == [h |-> h, r |-> r, s |-> s, c |-> c]
  <2>0. lock = p /\ mem[p] = file /\ mem[p] \in LastSignState /\ file # NoFile
    BY <1>11 DEF Sign, MaySign, Discipline, IInv, OwnerInv, TypeOK
  <2>1. st \in LastSignState /\ st.h # 0 /\ st.c \in Contents /\ st.r \in Rounds
    BY HRAssumption DEF LastSignState
  <2>2. Before(file, st)
    BY <1>11, <2>0, CheckHRSIsBefore DEF Sign
  <2>3. TypeOK' /\ LockInv'
    BY <1>11, <2>0, <2>1 DEF Sign, StartSave, IInv, TypeOK, LockInv
  <2>4. OwnerInv'
    <3> HIDE DEF st
    <3>1. StartSave(p, "sign", st) /\ UNCHANGED <<key, lock, keyFile, file>> /\ pc[p] = "ready"
      BY <1>11 DEF Sign, MaySign, st
    <3> QED BY <2>0, <2>1, <2>2, <3>1 DEF StartSave, IInv, TypeOK, OwnerInv
  <2>5. CoverInv' /\ NoneSignedTwice'
    BY <1>11 DEF Sign, IInv, CoverInv, NoneSignedTwice
  <2> QED BY <2>3, <2>4, <2>5 DEF IInv
<1>12. ASSUME NEW p \in Procs, NEW h \in Heights, NEW r \in Rounds,
              NEW s \in SignSteps, NEW c \in Contents, SignAgain(p, h, r, s, c)
       PROVE IInv'
  <2> DEFINE new == [key |-> key[p], h |-> h, r |-> r, s |-> s, c |-> c]
  <2>0. lock = p /\ mem[p] = file /\ mem[p] \in LastSignState /\ key[p] \in Keys
    BY <1>12 DEF SignAgain, MaySign, Discipline, IInv, OwnerInv, TypeOK
  <2>1. file.h = h /\ file.r = r /\ file.s = s /\ file.c = c
    BY <1>12, <2>0 DEF SignAgain, CheckHRS, isSame
  <2>2. new \in Signature /\ SameHRS(new, file) /\ new.c = file.c
    BY <2>0, <2>1 DEF Signature, SameHRS
  <2>3. released' = released \cup {new}
    BY <1>12 DEF SignAgain
  <2> HIDE DEF new
  <2>4. Covers(file, new)
    BY <2>0, <2>2 DEF Covers
  <2>5. TypeOK' /\ LockInv' /\ OwnerInv'
    BY <1>12, <2>2, <2>3 DEF SignAgain, IInv, TypeOK, LockInv, OwnerInv
  <2>6. CoverInv'
    BY <1>12, <2>3, <2>4 DEF SignAgain, Discipline, IInv, CoverInv
  <2>7. NoneSignedTwice'
    BY <2>0, <2>2, <2>3, AddCovered DEF NoneSignedTwice
  <2> QED BY <2>5, <2>6, <2>7 DEF IInv
<1>13. ASSUME NEW p \in Procs, GenerateFilePV(p) \/ GenerateSaveKey(p) \/ Reset(p)
       PROVE IInv'
  BY <1>13 DEF GenerateFilePV, GenerateSaveKey, Reset, Discipline, IInv, OwnerInv
<1>14. CASE Writeback
  BY <1>14 DEF Writeback, IInv, TypeOK, LockInv, OwnerInv, CoverInv, NoneSignedTwice
<1>15. CASE MachineCrash
  BY <1>15 DEF MachineCrash, IInv, TypeOK, LockInv, OwnerInv, CoverInv, NoneSignedTwice, Idle
<1>16. CASE UNCHANGED vars
  BY <1>16 DEF vars, IInv, TypeOK, LockInv, OwnerInv, CoverInv, NoneSignedTwice
<1> QED
  BY <1>1, <1>2, <1>3, <1>4, <1>5, <1>6, <1>7, <1>8, <1>9, <1>10, <1>11, <1>12,
     <1>13, <1>14, <1>15, <1>16 DEF Next, Open

(* The way of use never changes. *)
LEMMA UseStays == [Next]_vars => use' = use
<1> SUFFICES ASSUME [Next]_vars PROVE use' = use
  OBVIOUS
<1>1. ASSUME NEW p \in Procs, LoadKeyStrict(p) \/ LoadKey(p) \/ SaveKey(p) PROVE use' = use
  BY <1>1, Zenon DEF LoadKeyStrict, LoadKey, SaveKey
<1>2. ASSUME NEW p \in Procs, AcquireLock(p) \/ LoadState(p) PROVE use' = use
  BY <1>2, Zenon DEF AcquireLock, LoadState
<1>3. ASSUME NEW p \in Procs, GenerateFilePV(p) \/ GenerateSaveKey(p) PROVE use' = use
  BY <1>3, Zenon DEF GenerateFilePV, GenerateSaveKey
<1>4. ASSUME NEW p \in Procs, NEW h \in Heights, NEW r \in Rounds, NEW s \in SignSteps,
             NEW c \in Contents, Sign(p, h, r, s, c) \/ SignAgain(p, h, r, s, c)
      PROVE use' = use
  BY <1>4, Zenon DEF Sign, SignAgain
<1>5. ASSUME NEW p \in Procs, SaveRename(p) \/ SaveSync(p) \/ SaveFail(p) PROVE use' = use
  BY <1>5, Zenon DEF SaveRename, SaveSync, SaveFail
<1>6. ASSUME NEW p \in Procs, Reset(p) \/ Close(p) \/ Crash(p) PROVE use' = use
  BY <1>6, Zenon DEF Reset, Close, Crash
<1>7. CASE Writeback \/ MachineCrash
  BY <1>7, Zenon DEF Writeback, MachineCrash
<1>8. CASE UNCHANGED vars
  BY <1>8 DEF vars
<1> QED BY <1>1, <1>2, <1>3, <1>4, <1>5, <1>6, <1>7, <1>8, Zenon DEF Next, Open

(* Whoever respects Discipline keeps the invariant. *)
LEMMA Invariance == Spec => [](Discipline => IInv)
<1> DEFINE Inv == Discipline => IInv
<1>1. Init => Inv
  BY InitIInv
<1>2. Inv /\ [Next]_vars => Inv'
  <2> SUFFICES ASSUME Inv, [Next]_vars, Discipline' PROVE IInv'
    OBVIOUS
  <2>1. Discipline
    BY UseStays DEF Discipline
  <2> QED BY <2>1, NextIInv
<1> QED BY <1>1, <1>2, PTL DEF Spec

(* Types are kept under Discipline, for all constants. *)
THEOREM TypeCorrect == Spec => [](Discipline => TypeOK)
<1>1. (Discipline => IInv) => (Discipline => TypeOK)
  BY DEF IInv
<1> QED BY <1>1, Invariance, PTL

(* The double-sign theorem: whatever number of processes opens the files,  *)
(* and wherever they or the machine crash inside SignVote, SignProposal or *)
(* saveState, one key never signs two messages at one height, round and    *)
(* step.                                                                   *)
THEOREM NoDoubleSignTheorem == Spec => []NoDoubleSign
<1>1. (Discipline => IInv) => NoDoubleSign
  BY DEF IInv, NoDoubleSign
<1> QED BY <1>1, Invariance, PTL

(* Persist before release: the state file protects every signature that    *)
(* was returned, in every reachable state.                                 *)
THEOREM ReleasedAreCoveredTheorem == Spec => []ReleasedAreCovered
<1>1. (Discipline => IInv) => ReleasedAreCovered
  BY DEF IInv, CoverInv, ReleasedAreCovered
<1> QED BY <1>1, Invariance, PTL

(* The lock owner's memory equals the state file outside saveState. *)
THEOREM MemoryMatchesFileTheorem == Spec => []MemoryMatchesFile
<1>1. (Discipline => IInv) => MemoryMatchesFile
  BY DEF IInv, OwnerInv, MemoryMatchesFile
<1> QED BY <1>1, Invariance, PTL

(* A signature at the position of the state file is not earlier than any   *)
(* that the file protects.                                                 *)
LEMMA AtFileIsLast ==
  ASSUME IInv, file \in LastSignState, NEW m, SameHRS(m, file)
  PROVE  \A n \in released : ~Before(m, n)
<1> SUFFICES ASSUME NEW n \in released PROVE ~Before(m, n)
  OBVIOUS
<1>1. n \in Signature /\ Covers(file, n)
  BY DEF IInv, TypeOK, CoverInv
<1>2. /\ file.h \in Nat /\ file.r \in Nat /\ file.s \in Nat
      /\ n.h \in Nat /\ n.r \in Nat /\ n.s \in Nat
  BY <1>1, StateNumbers, SignatureNumbers
<1>3. m.h = file.h /\ m.r = file.r /\ m.s = file.s
  BY DEF SameHRS
<1> QED BY <1>1, <1>2, <1>3 DEF Covers, Before, SameHRS

(* Only the end of saveState and the idempotent branch release signatures. *)
LEMMA WhoReleases ==
  ASSUME [Next]_vars
  PROVE  \/ released' = released
         \/ \E p \in Procs : SaveSync(p)
         \/ \E p \in Procs, h \in Heights, r \in Rounds, s \in SignSteps, c \in Contents :
              SignAgain(p, h, r, s, c)
<1>1. ASSUME NEW p \in Procs, LoadKeyStrict(p) \/ LoadKey(p) \/ SaveKey(p)
      PROVE  released' = released
  BY <1>1, Zenon DEF LoadKeyStrict, LoadKey, SaveKey
<1>2. ASSUME NEW p \in Procs, AcquireLock(p) \/ LoadState(p) PROVE released' = released
  BY <1>2, Zenon DEF AcquireLock, LoadState
<1>3. ASSUME NEW p \in Procs, GenerateFilePV(p) \/ GenerateSaveKey(p)
      PROVE  released' = released
  BY <1>3, Zenon DEF GenerateFilePV, GenerateSaveKey
<1>4. ASSUME NEW p \in Procs, NEW h \in Heights, NEW r \in Rounds, NEW s \in SignSteps,
             NEW c \in Contents, Sign(p, h, r, s, c)
      PROVE  released' = released
  BY <1>4, Zenon DEF Sign
<1>5. ASSUME NEW p \in Procs, SaveRename(p) \/ SaveFail(p) PROVE released' = released
  BY <1>5, Zenon DEF SaveRename, SaveFail
<1>6. ASSUME NEW p \in Procs, Reset(p) \/ Close(p) \/ Crash(p) PROVE released' = released
  BY <1>6, Zenon DEF Reset, Close, Crash
<1>7. CASE Writeback \/ MachineCrash
  BY <1>7, Zenon DEF Writeback, MachineCrash
<1>8. CASE UNCHANGED vars
  BY <1>8 DEF vars
<1> QED BY <1>1, <1>2, <1>3, <1>4, <1>5, <1>6, <1>7, <1>8, Zenon DEF Next, Open

(* Signatures leave in signing order, whichever process signs and wherever *)
(* one crashes: what SignVote and SignProposal return is at the position   *)
(* of the state file, which protects all that was returned before.         *)
THEOREM ReleasedInOrderTheorem == Spec => ReleasedInOrder
<1> DEFINE InOrder == \A m \in released' \ released : \A n \in released : ~Before(m, n)
<1>1. (Discipline => IInv) /\ [Next]_vars => [Discipline => InOrder]_vars
  <2> SUFFICES ASSUME IInv, Discipline, [Next]_vars PROVE InOrder
    OBVIOUS
  <2>1. CASE released' = released
    BY <2>1
  <2>2. ASSUME NEW p \in Procs, SaveSync(p) PROVE InOrder
    <3> SUFFICES ASSUME NEW m \in released' \ released
                 PROVE  \A n \in released : ~Before(m, n)
      OBVIOUS
    <3>1. mem[p] = file /\ mem[p] \in LastSignState
      BY <2>2 DEF SaveSync, IInv, OwnerInv, TypeOK
    <3>2. m = [key |-> key[p], h |-> mem[p].h, r |-> mem[p].r, s |-> mem[p].s,
               c |-> mem[p].c]
      BY <2>2 DEF SaveSync
    <3>3. SameHRS(m, file)
      BY <3>1, <3>2 DEF SameHRS
    <3> QED BY <3>1, <3>3, AtFileIsLast
  <2>3. ASSUME NEW p \in Procs, NEW h \in Heights, NEW r \in Rounds,
               NEW s \in SignSteps, NEW c \in Contents, SignAgain(p, h, r, s, c)
        PROVE  InOrder
    <3> SUFFICES ASSUME NEW m \in released' \ released
                 PROVE  \A n \in released : ~Before(m, n)
      OBVIOUS
    <3>1. mem[p] = file /\ mem[p] \in LastSignState
      BY <2>3 DEF SignAgain, MaySign, Discipline, IInv, OwnerInv, TypeOK
    <3>2. m = [key |-> key[p], h |-> h, r |-> r, s |-> s, c |-> c]
      BY <2>3 DEF SignAgain
    <3>3. file.h = h /\ file.r = r /\ file.s = s
      BY <2>3, <3>1 DEF SignAgain, CheckHRS
    <3>4. SameHRS(m, file)
      BY <3>2, <3>3 DEF SameHRS
    <3> QED BY <3>1, <3>4, AtFileIsLast
  <2> QED BY <2>1, <2>2, <2>3, WhoReleases
<1> QED BY <1>1, Invariance, PTL DEF Spec, ReleasedInOrder

=============================================================================
