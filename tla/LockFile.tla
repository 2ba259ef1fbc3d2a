----------------------------- MODULE LockFile -----------------------------
(***************************************************************************)
(* lockfile() and unlockfile() of bb.utils: a lock on a file that is       *)
(* removed when it is released.                                            *)
(*                                                                         *)
(* A process opens the file, creating it if need be, takes a flock on the  *)
(* inode it opened, and then compares that inode with the one the name     *)
(* stands for now: another process may have removed the file since the     *)
(* open().  unlockfile() removes the name while it holds the flock.        *)
(*                                                                         *)
(* Inode numbers are used again once neither the name nor a descriptor     *)
(* stands for them.                                                        *)
(***************************************************************************)
EXTENDS Integers, FiniteSets

CONSTANTS
  Processes,     \* processes that use the lock
  Inodes,        \* inode numbers of the file system
  Requests       \* arguments of the calls to lockfile()

(* [shared], and what [retry] and [block] amount to: whether flock() waits *)
(* (not LOCK_NB), and whether the loop goes round after a failure.         *)
AllRequests == [shared : BOOLEAN, retry : BOOLEAN, block : BOOLEAN]

ASSUME LockAssumption ==
  /\ Requests \subseteq AllRequests
  /\ 0 \notin Inodes

VARIABLES
  file,          \* inode the name of the lock file stands for, 0 for none
  fd,            \* [Processes -> inode of the open descriptor, or 0]
  flock,         \* [Processes -> flock held through it]
  req,           \* [Processes -> arguments of the call in progress]
  pc,            \* [Processes -> where the process is]
  met            \* [Processes -> a holder was there during the call]

vars == <<file, fd, flock, req, pc, met>>

Modes == {"none", "shared", "exclusive"}
PCs == {"idle", "open", "flock", "check", "held", "promote", "unlink", "release"}

Mode(r) == IF r.shared THEN "shared" ELSE "exclusive"

(* The arguments are gone when a call is over. *)
NoRequest == [shared |-> FALSE, retry |-> FALSE, block |-> FALSE]

(* op | LOCK_NB *)
NonBlocking(r) == ~r.retry /\ ~r.block

(* flock() grants [mode] to p on the inode it has open.                    *)
Grants(p, mode) ==
  \A q \in Processes \ {p} :
    \/ fd[q] # fd[p]
    \/ flock[q] = "none"
    \/ flock[q] = "shared" /\ mode = "shared"

(* The lock as its users see it: a flock on the inode of that name, from    *)
(* the flock() that gets it until the name is gone or the lock given up.   *)
hold ==
  [p \in Processes |->
     IF /\ flock[p] # "none"
        /\ \/ pc[p] = "check" /\ fd[p] = file
           \/ pc[p] \in {"held", "promote", "unlink"}
     THEN Mode(req[p]) ELSE "none"]

Init ==
  /\ file = 0
  /\ fd = [p \in Processes |-> 0]
  /\ flock = [p \in Processes |-> "none"]
  /\ req = [p \in Processes |-> NoRequest]
  /\ pc = [p \in Processes |-> "idle"]
  /\ met = [p \in Processes |-> FALSE]

(* Calls in progress note that another process holds the lock.             *)
Meet ==
  met' = [p \in Processes |->
            /\ pc'[p] \in {"open", "flock", "check"}
            /\ met[p] \/ \E q \in Processes \ {p} : hold'[q] # "none"]

(***************************************************************************)
(* lockfile()                                                              *)
(***************************************************************************)

Call(p) ==
  /\ pc[p] = "idle"
  /\ \E r \in Requests : req' = [req EXCEPT ![p] = r]
  /\ pc' = [pc EXCEPT ![p] = "open"]
  /\ UNCHANGED <<file, fd, flock>>
  /\ Meet

(* open(name, 'a+') *)
Open(p) ==
  /\ pc[p] = "open"
  /\ \/ file # 0 /\ file' = file
     \/ /\ file = 0
        /\ file' \in {i \in Inodes : \A q \in Processes : fd[q] # i}
  /\ fd' = [fd EXCEPT ![p] = file']
  /\ pc' = [pc EXCEPT ![p] = "flock"]
  /\ UNCHANGED <<flock, req>>
  /\ Meet

End(p) ==
  /\ pc' = [pc EXCEPT ![p] = "idle"]
  /\ req' = [req EXCEPT ![p] = NoRequest]

(* lf.close(), then the next round of the loop or return None *)
Close(p) ==
  /\ fd' = [fd EXCEPT ![p] = 0]
  /\ flock' = [flock EXCEPT ![p] = "none"]
  /\ IF req[p].retry
     THEN pc' = [pc EXCEPT ![p] = "open"] /\ UNCHANGED req
     ELSE End(p)

(* flock() fails at once, or waits until it is granted. *)
Flock(p) ==
  /\ pc[p] = "flock"
  /\ \/ /\ Grants(p, Mode(req[p]))
        /\ flock' = [flock EXCEPT ![p] = Mode(req[p])]
        /\ pc' = [pc EXCEPT ![p] = "check"]
        /\ UNCHANGED <<fd, req>>
     \/ /\ ~Grants(p, Mode(req[p]))
        /\ NonBlocking(req[p])
        /\ Close(p)
  /\ UNCHANGED file
  /\ Meet

Check_Exists(p) ==
  /\ pc[p] = "check"
  /\ \/ /\ file # 0
        /\ pc' = [pc EXCEPT ![p] = "held"]
        /\ UNCHANGED <<fd, flock, req>>
     \/ /\ file = 0
        /\ Close(p)
  /\ UNCHANGED file
  /\ Meet

(* os.path.exists(), os.stat() and the comparison of the inode numbers *)
Check(p) ==
  /\ pc[p] = "check"
  /\ \/ /\ file = fd[p]
        /\ pc' = [pc EXCEPT ![p] = "held"]
        /\ UNCHANGED <<fd, flock, req>>
     \/ /\ file # fd[p]
        /\ Close(p)
  /\ UNCHANGED file
  /\ Meet

(***************************************************************************)
(* unlockfile(), and the other ways to lose the lock                       *)
(***************************************************************************)

Unlock(p) ==
  /\ pc[p] = "held"
  /\ pc' = [pc EXCEPT ![p] = "promote"]
  /\ UNCHANGED <<file, fd, flock, req>>
  /\ Meet

Promote_Ignored(p) ==
  /\ pc[p] = "promote"
  /\ flock' = [flock EXCEPT ![p] = IF Grants(p, "exclusive") THEN "exclusive" ELSE "none"]
  /\ pc' = [pc EXCEPT ![p] = "unlink"]
  /\ UNCHANGED <<file, fd, req>>
  /\ Meet

Promote_Unlocks(p) ==
  /\ pc[p] = "promote"
  /\ flock' = [flock EXCEPT ![p] = "none"]
  /\ pc' = [pc EXCEPT ![p] = IF Grants(p, "exclusive") THEN "unlink" ELSE "release"]
  /\ UNCHANGED <<file, fd, req>>
  /\ Meet

Promote_Waits(p) ==
  /\ pc[p] = "promote"
  /\ Grants(p, "exclusive")
  /\ flock' = [flock EXCEPT ![p] = "exclusive"]
  /\ pc' = [pc EXCEPT ![p] = "unlink"]
  /\ UNCHANGED <<file, fd, req>>
  /\ Meet

(* flock(LOCK_EX | LOCK_NB).  The kernel gives up a shared lock before it   *)
(* tries the new one, and may serve a process that waits first.            *)
Waited(p) ==
  /\ flock[p] = "shared"
  /\ \E q \in Processes \ {p} : pc[q] = "flock" /\ fd[q] = fd[p]

Promote(p) ==
  /\ pc[p] = "promote"
  /\ \/ /\ Grants(p, "exclusive")
        /\ flock' = [flock EXCEPT ![p] = "exclusive"]
        /\ pc' = [pc EXCEPT ![p] = "unlink"]
     \/ /\ ~Grants(p, "exclusive") \/ Waited(p)
        /\ flock' = [flock EXCEPT ![p] = "none"]
        /\ pc' = [pc EXCEPT ![p] = "release"]
  /\ UNCHANGED <<file, fd, req>>
  /\ Meet

(* os.unlink(lf.name): whatever file has that name *)
Unlink(p) ==
  /\ pc[p] = "unlink"
  /\ file' = 0
  /\ pc' = [pc EXCEPT ![p] = "release"]
  /\ UNCHANGED <<fd, flock, req>>
  /\ Meet

(* flock(LOCK_UN), lf.close() *)
Release(p) ==
  /\ pc[p] = "release"
  /\ fd' = [fd EXCEPT ![p] = 0]
  /\ flock' = [flock EXCEPT ![p] = "none"]
  /\ End(p)
  /\ UNCHANGED file
  /\ Meet

(* The process closes the file without unlockfile(), as the server and     *)
(* main.py do with a lock they hold, or dies: the file stays.              *)
Gone(p) ==
  /\ fd' = [fd EXCEPT ![p] = 0]
  /\ flock' = [flock EXCEPT ![p] = "none"]
  /\ End(p)
  /\ UNCHANGED file
  /\ Meet

Drop(p) == pc[p] = "held" /\ Gone(p)
Die(p) == pc[p] \notin {"idle", "held"} /\ Gone(p)

Step(p) ==
  \/ Open(p) \/ Flock(p) \/ Check(p)
  \/ Unlock(p) \/ Promote(p) \/ Unlink(p) \/ Release(p)

Next == \E p \in Processes : Call(p) \/ Step(p) \/ Drop(p) \/ Die(p)

Spec == Init /\ [][Next]_vars

(* The callers release what they took, and a process that can run runs.    *)
FairSpec == Spec /\ \A p \in Processes : WF_vars(Step(p))

(***************************************************************************)
(* Properties                                                              *)
(***************************************************************************)

TypeOK ==
  /\ file \in Inodes \cup {0}
  /\ fd \in [Processes -> Inodes \cup {0}]
  /\ flock \in [Processes -> Modes]
  /\ req \in [Processes -> AllRequests]
  /\ pc \in [Processes -> PCs]
  /\ met \in [Processes -> BOOLEAN]

(* lockfile() returned to two processes only if both asked for a shared    *)
(* lock, although the file was removed and made again between their calls. *)
MutualExclusion ==
  \A p, q \in Processes :
    p # q /\ pc[p] = "held" /\ pc[q] = "held" => req[p].shared /\ req[q].shared

(* os.unlink() removes a name, and whoever holds the lock then would hold  *)
(* a file nobody else can find.  Only the last holder gets to unlink().    *)
HolderKeepsFile ==
  [][\A p \in Processes :
       pc[p] = "held" /\ pc'[p] = "held" => file = fd[p] /\ file' = fd[p]]_vars

(* A call that does not wait comes back without the lock only if another   *)
(* process held it at some moment of the call.                             *)
RefusedOnlyIfHeld ==
  [][\A p \in Processes : (Flock(p) \/ Check(p)) /\ pc'[p] = "idle" => met[p]]_vars

(* The detailed lock implements the abstract one. *)
Abstract == INSTANCE FileLock
ImplementsFileLock == Abstract!Spec

(* While a call that keeps trying is in progress, some process gets the    *)
(* lock: the callers do not hold each other up for ever by removing the    *)
(* file from under each other, or by waiting for each other's shared lock. *)
(* Processes that for ever die between flock() and the return could.       *)
Waiting == \E p \in Processes : pc[p] \in {"open", "flock", "check"} /\ req[p].retry

SomeoneGetsIt ==
  <>[][\A p \in Processes : ~Die(p)]_vars
    => (Waiting ~> ~Waiting \/ \E p \in Processes : pc[p] = "held")

=============================================================================
