--------------------------- MODULE LockFileProofs ---------------------------
(***************************************************************************)
(* Theorems about LockFile, for every set of processes, inodes and calls.  *)
(*                                                                         *)
(* The inductive invariant says what each step of a process owes to the    *)
(* ones before (Owed), that flock() keeps its word per inode (Exclusive),  *)
(* that the name stands for the inode of whoever holds the lock            *)
(* (OnDisk), and what a call in progress has seen (Seen).                  *)
(***************************************************************************)
EXTENDS LockFile, TLAPS

Owed ==
  \A p \in Processes :
    /\ pc[p] \in {"idle", "open"} => fd[p] = 0 /\ flock[p] = "none"
    /\ pc[p] \notin {"idle", "open"} => fd[p] # 0
    /\ pc[p] = "flock" => flock[p] = "none"
    /\ pc[p] \in {"check", "held", "promote"} => flock[p] = Mode(req[p])
    /\ pc[p] = "unlink" => flock[p] = "exclusive"

OnDisk ==
  \A p \in Processes :
    /\ pc[p] \in {"held", "promote", "unlink"} => fd[p] = file
    /\ pc[p] = "release" /\ flock[p] # "none" => fd[p] # file

Exclusive ==
  \A p, q \in Processes :
    p # q /\ fd[p] = fd[q] /\ flock[p] = "exclusive" => flock[q] = "none"

Seen ==
  \A p \in Processes : pc[p] \in {"open", "flock", "check"} =>
    /\ \A q \in Processes \ {p} : hold[q] # "none" => met[p]
    /\ pc[p] # "open" /\ fd[p] # file => met[p]

Inv == TypeOK /\ Owed /\ OnDisk /\ Exclusive /\ Seen

(* Initially nobody has the file. *)
LEMMA InitInv == Init => Inv
BY DEF Init, Inv, TypeOK, Owed, OnDisk, Exclusive, Seen, hold, Modes, PCs, NoRequest, AllRequests

(* Types are kept by every step. *)
LEMMA TypeStep == TypeOK /\ [Next]_vars => TypeOK'
<1> SUFFICES ASSUME TypeOK, [Next]_vars PROVE TypeOK'
  OBVIOUS
<1> USE LockAssumption DEF TypeOK, Modes, PCs
<1>0. ASSUME UNCHANGED vars PROVE TypeOK'
  BY <1>0 DEF vars
<1>1. ASSUME NEW p \in Processes, Meet, pc' \in [Processes -> PCs] PROVE met' \in [Processes -> BOOLEAN]
  BY <1>1 DEF Meet
<1>2. ASSUME NEW p \in Processes, Call(p) PROVE TypeOK'
  BY <1>1, <1>2 DEF Call, AllRequests
<1>3. ASSUME NEW p \in Processes, Open(p) PROVE TypeOK'
  BY <1>1, <1>3 DEF Open
<1>4. NoRequest \in AllRequests
  BY DEF NoRequest, AllRequests
<1>5. \A r \in AllRequests : Mode(r) \in Modes
  BY DEF Mode
<1>6. ASSUME NEW p \in Processes, Flock(p) PROVE TypeOK'
  BY <1>1, <1>4, <1>5, <1>6 DEF Flock, Close, End
<1>7. ASSUME NEW p \in Processes, Check(p) PROVE TypeOK'
  BY <1>1, <1>4, <1>7 DEF Check, Close, End
<1>8. ASSUME NEW p \in Processes, Unlock(p) \/ Promote(p) \/ Unlink(p) PROVE TypeOK'
  BY <1>1, <1>8 DEF Unlock, Promote, Unlink
<1>9. ASSUME NEW p \in Processes, Release(p) PROVE TypeOK'
  BY <1>1, <1>4, <1>9 DEF Release, End
<1>10. ASSUME NEW p \in Processes, Gone(p) PROVE TypeOK'
  BY <1>1, <1>4, <1>10 DEF Gone, End
<1> QED
  BY <1>0, <1>2, <1>3, <1>6, <1>7, <1>8, <1>9, <1>10 DEF Next, Step, Drop, Die

(* What the steps of a process owe to each other. *)
LEMMA OwedStep == Inv /\ [Next]_vars => Owed'
<1> SUFFICES ASSUME Inv, [Next]_vars PROVE Owed'
  OBVIOUS
<1> USE LockAssumption DEF Inv, TypeOK, Owed, Modes, PCs
<1>0. ASSUME UNCHANGED vars PROVE Owed'
  BY <1>0 DEF vars
<1>1. ASSUME NEW p \in Processes, Call(p) PROVE Owed'
  BY <1>1 DEF Call
<1>2. ASSUME NEW p \in Processes, Open(p) PROVE Owed'
  BY <1>2 DEF Open
<1>3. ASSUME NEW p \in Processes, Flock(p) PROVE Owed'
  BY <1>3 DEF Flock, Close, End
<1>4. ASSUME NEW p \in Processes, Check(p) PROVE Owed'
  BY <1>4 DEF Check, Close, End
<1>5. ASSUME NEW p \in Processes, Unlock(p) \/ Promote(p) \/ Unlink(p) PROVE Owed'
  BY <1>5 DEF Unlock, Promote, Unlink
<1>6. ASSUME NEW p \in Processes, Release(p) PROVE Owed'
  BY <1>6 DEF Release, End
<1>7. ASSUME NEW p \in Processes, Gone(p) PROVE Owed'
  BY <1>7 DEF Gone, End
<1> QED
  BY <1>0, <1>1, <1>2, <1>3, <1>4, <1>5, <1>6, <1>7 DEF Next, Step, Drop, Die

(* flock() never grants what conflicts, and an inode number that is used   *)
(* again is nobody's.                                                      *)
LEMMA ExclusiveStep == Inv /\ [Next]_vars => Exclusive'
<1> SUFFICES ASSUME Inv, [Next]_vars PROVE Exclusive'
  OBVIOUS
<1> USE LockAssumption DEF Inv, TypeOK, Owed, Exclusive, Modes, PCs
<1>0. ASSUME UNCHANGED vars PROVE Exclusive'
  BY <1>0 DEF vars
<1>1. ASSUME NEW p \in Processes, Call(p) \/ Unlock(p) \/ Unlink(p) PROVE Exclusive'
  BY <1>1 DEF Call, Unlock, Unlink
<1>2. ASSUME NEW p \in Processes, Open(p) PROVE Exclusive'
  BY <1>2 DEF Open
<1>3. ASSUME NEW p \in Processes, Flock(p) PROVE Exclusive'
  BY <1>3 DEF Flock, Close, End, Grants, Mode
<1>4. ASSUME NEW p \in Processes, Check(p) PROVE Exclusive'
  BY <1>4 DEF Check, Close, End
<1>5. ASSUME NEW p \in Processes, Promote(p) PROVE Exclusive'
  BY <1>5 DEF Promote, Grants
<1>6. ASSUME NEW p \in Processes, Release(p) PROVE Exclusive'
  BY <1>6 DEF Release, End
<1>7. ASSUME NEW p \in Processes, Gone(p) PROVE Exclusive'
  BY <1>7 DEF Gone, End
<1> QED
  BY <1>0, <1>1, <1>2, <1>3, <1>4, <1>5, <1>6, <1>7 DEF Next, Step, Drop, Die

(* The name stands for the inode of every holder: only the one exclusive   *)
(* holder unlinks it.                                                      *)
LEMMA OnDiskStep == Inv /\ [Next]_vars => OnDisk'
<1> SUFFICES ASSUME Inv, [Next]_vars PROVE OnDisk'
  OBVIOUS
<1> USE LockAssumption DEF Inv, TypeOK, Owed, OnDisk, Modes, PCs
<1>0. ASSUME UNCHANGED vars PROVE OnDisk'
  BY <1>0 DEF vars
<1>1. ASSUME NEW p \in Processes, Call(p) \/ Unlock(p) PROVE OnDisk'
  BY <1>1 DEF Call, Unlock
<1>2. ASSUME NEW p \in Processes, Open(p) PROVE OnDisk'
  BY <1>2 DEF Open
<1>3. ASSUME NEW p \in Processes, Flock(p) PROVE OnDisk'
  BY <1>3 DEF Flock, Close, End
<1>4. ASSUME NEW p \in Processes, Check(p) PROVE OnDisk'
  BY <1>4 DEF Check, Close, End
<1>5. ASSUME NEW p \in Processes, Promote(p) PROVE OnDisk'
  BY <1>5 DEF Promote
<1>6. ASSUME NEW p \in Processes, Unlink(p) PROVE OnDisk'
  <2>1. \A q \in Processes \ {p} : pc[q] \notin {"held", "promote", "unlink"}
    BY <1>6 DEF Unlink, Exclusive, Mode
  <2>2. \A q \in Processes : pc'[q] = "release" => fd[q] # 0
    BY <1>6 DEF Unlink
  <2> QED
    BY <1>6, <2>1, <2>2 DEF Unlink
<1>7. ASSUME NEW p \in Processes, Release(p) PROVE OnDisk'
  BY <1>7 DEF Release, End
<1>8. ASSUME NEW p \in Processes, Gone(p) PROVE OnDisk'
  BY <1>8 DEF Gone, End
<1> QED
  BY <1>0, <1>1, <1>2, <1>3, <1>4, <1>5, <1>6, <1>7, <1>8 DEF Next, Step, Drop, Die

(* A call in progress notes every holder there is at its steps, so a file  *)
(* that went away under it was held by somebody.                           *)
LEMMA SeenStep == Inv /\ [Next]_vars => Seen'
<1> SUFFICES ASSUME Inv, [Next]_vars PROVE Seen'
  OBVIOUS
<1> USE LockAssumption DEF Inv, TypeOK, Owed, OnDisk, Seen, Modes, PCs
<1>0. CASE UNCHANGED vars
  BY <1>0 DEF vars, hold
<1>1. CASE Next
  <2>1. Meet
    BY <1>1 DEF Next, Step, Call, Open, Flock, Check, Unlock, Promote, Unlink, Release, Drop, Die, Gone
  <2>2. ASSUME NEW p \in Processes, pc'[p] \in {"flock", "check"}, fd'[p] # file' PROVE met'[p]
    <3> SUFFICES met[p]
      BY <2>1, <2>2 DEF Meet
    <3>1. ASSUME NEW q \in Processes, Call(q) \/ Unlock(q) \/ Promote(q) PROVE met[p]
      BY <2>2, <3>1 DEF Call, Unlock, Promote
    <3>2. ASSUME NEW q \in Processes, Open(q) PROVE met[p]
      BY <2>2, <3>2 DEF Open
    <3>3. ASSUME NEW q \in Processes, Flock(q) PROVE met[p]
      BY <2>2, <3>3 DEF Flock, Close, End
    <3>4. ASSUME NEW q \in Processes, Check(q) PROVE met[p]
      BY <2>2, <3>4 DEF Check, Close, End
    <3>5. ASSUME NEW q \in Processes, Unlink(q) PROVE met[p]
      <4>1. hold[q] # "none" /\ p # q /\ pc[p] \in {"flock", "check"}
        BY <2>2, <3>5 DEF Unlink, hold, Mode
      <4> QED
        BY <4>1
    <3>6. ASSUME NEW q \in Processes, Release(q) \/ Gone(q) PROVE met[p]
      BY <2>2, <3>6 DEF Release, Gone, End
    <3> QED
      BY <1>1, <3>1, <3>2, <3>3, <3>4, <3>5, <3>6 DEF Next, Step, Drop, Die
  <2>3. ASSUME NEW p \in Processes, pc'[p] \in {"open", "flock", "check"},
               NEW q \in Processes \ {p}, hold'[q] # "none"
        PROVE  met'[p]
    BY <2>1, <2>3 DEF Meet
  <2> QED
    BY <2>2, <2>3
<1> QED
  BY <1>0, <1>1

(* The inductive invariant. *)
THEOREM Invariance == Spec => []Inv
<1>1. Inv /\ [Next]_vars => Inv'
  BY TypeStep, OwedStep, OnDiskStep, ExclusiveStep, SeenStep DEF Inv
<1> QED
  BY InitInv, <1>1, PTL DEF Spec

(* Types are kept. *)
THEOREM TypeCorrect == Spec => []TypeOK
<1>1. Inv => TypeOK
  BY DEF Inv
<1> QED
  BY Invariance, <1>1, PTL

(* lockfile() gives no two processes locks that conflict, whatever they    *)
(* and unlockfile() do to the file in between.                             *)
THEOREM Exclusion == Spec => []MutualExclusion
<1>1. Inv => MutualExclusion
  BY DEF Inv, Owed, OnDisk, Exclusive, MutualExclusion, Mode
<1> QED
  BY Invariance, <1>1, PTL

(* Nobody removes the file from under a holder. *)
THEOREM FileKept == Spec => HolderKeepsFile
<1>1. Inv /\ Inv' /\ [Next]_vars
        => [\A p \in Processes :
              pc[p] = "held" /\ pc'[p] = "held" => file = fd[p] /\ file' = fd[p]]_vars
  <2> SUFFICES ASSUME Inv, Inv', [Next]_vars,
                      NEW p \in Processes, pc[p] = "held", pc'[p] = "held"
               PROVE  file = fd[p] /\ file' = fd[p]
    OBVIOUS
  <2>1. fd[p] = file /\ fd'[p] = file'
    BY DEF Inv, OnDisk
  <2>2. fd'[p] = fd[p]
    <3>0. CASE UNCHANGED vars
      BY <3>0 DEF vars
    <3> USE DEF Inv, TypeOK
    <3>1. ASSUME NEW q \in Processes, Call(q) \/ Unlock(q) \/ Promote(q) \/ Unlink(q) PROVE fd'[p] = fd[p]
      BY <3>1 DEF Call, Unlock, Promote, Unlink
    <3>2. ASSUME NEW q \in Processes, Open(q) \/ Flock(q) \/ Check(q) PROVE fd'[p] = fd[p]
      BY <3>2 DEF Open, Flock, Check, Close, End
    <3>3. ASSUME NEW q \in Processes, Release(q) \/ Gone(q) PROVE fd'[p] = fd[p]
      BY <3>3 DEF Release, Gone, End
    <3> QED
      BY <3>0, <3>1, <3>2, <3>3 DEF Next, Step, Drop, Die
  <2> QED
    BY <2>1, <2>2
<1> QED
  BY Invariance, <1>1, PTL DEF Spec, HolderKeepsFile

(* A call gives up only if it met a holder. *)
THEOREM Refused == Spec => RefusedOnlyIfHeld
<1>1. Inv /\ [Next]_vars
        => [\A p \in Processes : (Flock(p) \/ Check(p)) /\ pc'[p] = "idle" => met[p]]_vars
  <2> SUFFICES ASSUME Inv, NEW p \in Processes, Flock(p) \/ Check(p), pc'[p] = "idle" PROVE met[p]
    OBVIOUS
  <2> USE DEF Inv, TypeOK, Owed, OnDisk, Seen, Modes, PCs
  <2>1. CASE Check(p)
    BY <2>1 DEF Check
  <2>2. CASE Flock(p)
    <3>1. pc[p] = "flock" /\ ~Grants(p, Mode(req[p]))
      BY <2>2 DEF Flock
    <3>2. PICK q \in Processes \ {p} : fd[q] = fd[p] /\ flock[q] # "none"
      BY <3>1 DEF Grants
    <3>3. CASE fd[p] # file
      BY <3>1, <3>3
    <3>4. CASE fd[p] = file
      <4>1. pc[q] \in {"check", "held", "promote", "unlink"}
        BY <3>2, <3>4
      <4>2. hold[q] # "none"
        BY <3>2, <3>4, <4>1 DEF hold, Mode
      <4> QED
        BY <3>1, <4>2
    <3> QED
      BY <3>3, <3>4
  <2> QED
    BY <2>1, <2>2
<1> QED
  BY Invariance, <1>1, PTL DEF Spec, RefusedOnlyIfHeld

(* A function that differs from another at one argument only *)
LEMMA ExceptOne ==
  ASSUME NEW S, NEW f, NEW g, f = [q \in S |-> f[q]], g = [q \in S |-> g[q]],
         NEW p \in S, \A q \in S \ {p} : g[q] = f[q]
  PROVE  g = [f EXCEPT ![p] = g[p]]
OBVIOUS

(* Initially the abstract lock is free. *)
LEMMA HoldInit == Init => Abstract!Init
BY DEF Init, Abstract!Init, hold

(* A step acquires or releases the abstract lock of one process, or        *)
(* stutters.                                                               *)
LEMMA HoldStep == Inv /\ Inv' /\ [Next]_vars => [Abstract!Next]_hold
<1> SUFFICES ASSUME Inv, Inv', [Next]_vars PROVE [Abstract!Next]_hold
  OBVIOUS
<1> USE LockAssumption DEF Inv, TypeOK, Owed, OnDisk, Modes, PCs
<1>f. hold = [q \in Processes |-> hold[q]] /\ hold' = [q \in Processes |-> hold'[q]]
  BY DEF hold
<1>a. ASSUME NEW p \in Processes, hold[p] # "none",
             \A q \in Processes \ {p} : hold'[q] = hold[q], hold'[p] = "none"
      PROVE  [Abstract!Next]_hold
  <2>1. hold' = [hold EXCEPT ![p] = "none"]
    BY <1>a, <1>f, ExceptOne
  <2>2. Abstract!Release(p)
    BY <1>a, <2>1 DEF Abstract!Release
  <2> QED
    BY <2>2 DEF Abstract!Next
<1>b. ASSUME \A q \in Processes : hold'[q] = hold[q]
      PROVE  [Abstract!Next]_hold
  BY <1>b, <1>f
<1>c. ASSUME NEW p \in Processes, \A q \in Processes \ {p} : hold'[q] = hold[q],
             hold'[p] \in {hold[p], "none"}
      PROVE  [Abstract!Next]_hold
  BY <1>a, <1>b, <1>c
<1>0. CASE UNCHANGED vars
  BY <1>0, <1>b DEF vars, hold
<1>1. ASSUME NEW p \in Processes, Call(p) PROVE [Abstract!Next]_hold
  BY <1>1, <1>b DEF Call, hold
<1>2. ASSUME NEW p \in Processes, Open(p) PROVE [Abstract!Next]_hold
  <2>1. \A q \in Processes : hold'[q] = hold[q]
    BY <1>2 DEF Open, hold
  <2> QED
    BY <2>1, <1>b
<1>3. ASSUME NEW p \in Processes, Flock(p) PROVE [Abstract!Next]_hold
  <2>1. \A q \in Processes \ {p} : hold'[q] = hold[q]
    BY <1>3 DEF Flock, Close, End, hold
  <2>2. CASE hold'[p] = "none"
    BY <2>1, <2>2, <1>c
  <2>3. CASE hold'[p] # "none"
    <3>1. /\ pc[p] = "flock" /\ pc'[p] = "check" /\ fd[p] = file
          /\ Grants(p, Mode(req[p])) /\ req' = req
          /\ hold[p] = "none" /\ hold'[p] = Mode(req[p])
      BY <1>3, <2>3 DEF Flock, Close, End, hold
    <3>2. Abstract!Compatible(p, Mode(req[p]))
      BY <3>1 DEF Abstract!Compatible, Grants, hold, Mode
    <3>3. hold' = [hold EXCEPT ![p] = Mode(req[p])]
      BY <1>f, <2>1, <3>1, ExceptOne
    <3>4. Abstract!Acquire(p, Mode(req[p])) /\ Mode(req[p]) \in {"shared", "exclusive"}
      BY <3>1, <3>2, <3>3 DEF Abstract!Acquire, Mode
    <3> QED
      BY <3>4 DEF Abstract!Next
  <2> QED
    BY <2>2, <2>3
<1>4. ASSUME NEW p \in Processes, Check(p) PROVE [Abstract!Next]_hold
  <2>1. \A q \in Processes \ {p} : hold'[q] = hold[q]
    BY <1>4 DEF Check, Close, End, hold
  <2>2. hold'[p] \in {hold[p], "none"}
    BY <1>4 DEF Check, Close, End, hold
  <2> QED
    BY <2>1, <2>2, <1>c
<1>5. ASSUME NEW p \in Processes, Unlock(p) \/ Promote(p) PROVE [Abstract!Next]_hold
  <2>1. \A q \in Processes \ {p} : hold'[q] = hold[q]
    BY <1>5 DEF Unlock, Promote, hold
  <2>2. hold'[p] \in {hold[p], "none"}
    BY <1>5 DEF Unlock, Promote, hold, Mode
  <2> QED
    BY <2>1, <2>2, <1>c
<1>6. ASSUME NEW p \in Processes, Unlink(p) PROVE [Abstract!Next]_hold
  <2>1. \A q \in Processes \ {p} : fd[q] = file => flock[q] = "none"
    BY <1>6 DEF Unlink, Exclusive
  <2>2. \A q \in Processes \ {p} : hold[q] = "none" /\ hold'[q] = "none"
    BY <1>6, <2>1 DEF Unlink, hold
  <2>3. hold'[p] = "none"
    BY <1>6 DEF Unlink, hold
  <2> QED
    BY <2>2, <2>3, <1>c
<1>7. ASSUME NEW p \in Processes, Release(p) \/ Gone(p) PROVE [Abstract!Next]_hold
  <2>1. \A q \in Processes \ {p} : hold'[q] = hold[q]
    BY <1>7 DEF Release, Gone, End, hold
  <2>2. hold'[p] = "none"
    BY <1>7 DEF Release, Gone, End, hold
  <2> QED
    BY <2>1, <2>2, <1>c
<1> QED
  BY <1>0, <1>1, <1>2, <1>3, <1>4, <1>5, <1>6, <1>7 DEF Next, Step, Drop, Die

(* The lock file implements the abstract lock: flock() on the file of that *)
(* name acquires it, unlink() or giving up the flock releases it, and all  *)
(* other steps leave it alone.                                             *)
THEOREM Refinement == Spec => ImplementsFileLock
<1> QED
  BY Invariance, HoldInit, HoldStep, PTL DEF Spec, ImplementsFileLock, Abstract!Spec

=============================================================================
