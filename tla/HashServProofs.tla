-------------------------- MODULE HashServProofs --------------------------
(***************************************************************************)
(* Theorems about HashServ, for all builds, hashes and tables upstream.    *)
(*                                                                         *)
(* The inductive invariant: what the server's connection sees of the       *)
(* unihashes is on disk (Durable); an answer to a report, read or not, is  *)
(* what is on disk (AnswersKept); a build and its connection speak of the  *)
(* same request (Linked); a build asks only for what it was not told       *)
(* (Asked), and goes by what it was told (Told).  Without an upstream      *)
(* server, also: a unihash set by a report is that of the oldest row of    *)
(* its output hash (Alone).                                                *)
(***************************************************************************)
EXTENDS HashServ, WellFoundedInduction, TLAPS

Durable == uni = disk.uni

AnswersKept ==
  \A k \in Conns :
    conn[k].at = "answered" /\ conn[k].req.op \in {"report", "report-equiv"}
      => conn[k].ans = disk.uni[conn[k].req.t] /\ conn[k].ans # None

Linked ==
  \A b \in Builds : call[b].on # None =>
    /\ conn[call[b].on].req = call[b].req
    /\ \A c \in Builds : call[c].on = call[b].on => c = b

Asked ==
  \A b \in Builds :
    /\ call[b] # NoCall => call[b].req \in Requests
    /\ call[b].req.op = "get-stream" => call[b].req.t \notin told[b]

Told == \A b \in Builds : \A t \in told[b] : cache[b][t] = disk.uni[t] /\ cache[b][t] # None

(* A connection that is not free carries a request. *)
Busy == \A k \in Conns : conn[k].at # "free" => conn[k].req \in Requests

Inv == TypeOK /\ Busy /\ Durable /\ AnswersKept /\ Linked /\ Asked /\ Told

(***************************************************************************)
(* The tables                                                              *)
(***************************************************************************)

(* The oldest of some rows is one of them, and none is older. *)
LEMMA OldestIn ==
  ASSUME NEW rows \in SUBSET Nat, rows # {}
  PROVE  Oldest(rows) \in rows /\ \A j \in rows : Oldest(rows) <= j
<1>1. PICK x \in rows : \A y \in rows : <<y, x>> \notin OpToRel(<, Nat)
  BY NatLessThanWellFounded, WFMin
<1>2. ASSUME NEW y \in rows PROVE x <= y
  <2>1. <<y, x>> \in Nat \X Nat /\ <<y, x>>[1] = y /\ <<y, x>>[2] = x
    OBVIOUS
  <2>2. ~ (y < x)
    BY <1>1, <2>1 DEF OpToRel
  <2> QED
    BY <2>2
<1> QED
  BY <1>2 DEF Oldest

(* What a report takes over from another task hash is a unihash. *)
LEMMA EquivalentType ==
  ASSUME TypeOK, NEW t, NEW o, Matches(t, o) # {} PROVE Equivalent(t, o) \in Unihashes
<1>1. Matches(t, o) \in SUBSET Nat
  BY DEF Matches, TypeOK
<1>2. Oldest(Matches(t, o)) \in Matches(t, o)
  BY <1>1, OldestIn
<1> DEFINE i == Oldest(Matches(t, o))
<1>3. i \in DOMAIN out /\ uni[out[i][1]] # None
  BY <1>2 DEF Matches
<1>4. out[i] \in Taskhashes \X Outhashes
  BY <1>3 DEF TypeOK
<1> QED
  BY <1>3, <1>4 DEF Equivalent, TypeOK, MaybeUnihash

(* A unihash that is there stays. *)
LEMMA InsertKeeps ==
  ASSUME TypeOK, NEW t \in Taskhashes, NEW u \in Unihashes, InsertUnihash(t, u)
  PROVE  /\ uni' \in [Taskhashes -> MaybeUnihash]
         /\ \A s \in Taskhashes : uni[s] # None => uni'[s] = uni[s]
         /\ uni'[t] \in Unihashes
BY HashAssumption DEF InsertUnihash, TypeOK, MaybeUnihash

(* Rows of output hashes are only added. *)
LEMMA InsertRow ==
  ASSUME TypeOK, NEW t \in Taskhashes, NEW o \in Outhashes, InsertOuthash(t, o)
  PROVE  out' \in Seq(Taskhashes \X Outhashes)
BY DEF InsertOuthash, TypeOK

(***************************************************************************)
(* Types                                                                   *)
(***************************************************************************)

(* What a request carries *)
LEMMA RequestParts ==
  ASSUME NEW r \in Requests
  PROVE  /\ r.t \in Taskhashes
         /\ r.op \in {"get-stream", "report", "report-equiv"}
         /\ r.op = "report" => r.o \in Outhashes
         /\ r.op # "get-stream" => r.u \in Unihashes
         /\ r # NoRequest
BY DEF Requests, GetRequests, ReportRequests, EquivRequests, NoRequest

(* An answer, or the loss of it, leaves a connection well formed. *)
LEMMA ConnType ==
  ASSUME TypeOK, NEW k \in Conns, NEW at \in {"answered", "closed"}, NEW ans \in MaybeUnihash,
         Settle(k, at, ans)
  PROVE  conn' \in [Conns -> ConnStates]
BY DEF Settle, TypeOK, Free, MaybeUnihash, ConnStates

(* What a report stores is well formed. *)
LEMMA StoreType ==
  ASSUME TypeOK, NEW k \in Conns, conn[k].req \in Requests, conn[k].req.op = "report",
         NEW u \in Unihashes, Store(k, u), out' \in Seq(Taskhashes \X Outhashes)
  PROVE  /\ uni' \in [Taskhashes -> MaybeUnihash]
         /\ disk' \in [uni : [Taskhashes -> MaybeUnihash], out : Seq(Taskhashes \X Outhashes)]
         /\ conn' \in [Conns -> ConnStates]
         /\ origin' \in [Taskhashes -> Outhashes \cup {None}]
<1> DEFINE r == conn[k].req
<1>1. r.t \in Taskhashes /\ r.o \in Outhashes
  BY RequestParts
<1>2. uni' \in [Taskhashes -> MaybeUnihash] /\ uni'[r.t] \in Unihashes
  BY <1>1, InsertKeeps DEF Store
<1>3. disk' = [uni |-> uni', out |-> out']
  BY DEF Store, Commit
<1>4. Settle(k, "answered", uni'[r.t])
  BY DEF Store, Reply
<1>5. origin' \in [Taskhashes -> Outhashes \cup {None}]
  BY <1>1 DEF Store, TypeOK
<1> QED
  BY <1>2, <1>3, <1>4, <1>5, ConnType DEF MaybeUnihash

(* Types are kept by every step. *)
LEMMA TypeStep == Inv /\ [Next]_vars => TypeOK'
<1> SUFFICES ASSUME Inv, [Next]_vars PROVE TypeOK'
  OBVIOUS
<1> USE DEF Inv
<1>0. CASE UNCHANGED vars
  BY <1>0 DEF vars, TypeOK
<1>1. ASSUME NEW k \in Conns, Report(k) PROVE TypeOK'
  <2> DEFINE r == conn[k].req
  <2>1. r \in Requests /\ r.op = "report" /\ r.t \in Taskhashes /\ r.o \in Outhashes /\ r.u \in Unihashes
    BY <1>1, RequestParts DEF Report, Busy
  <2>2. out' \in Seq(Taskhashes \X Outhashes)
    BY <1>1, <2>1, InsertRow DEF Report
  <2>3. CASE Matches(r.t, r.o) # {} /\ Store(k, Equivalent(r.t, r.o))
    BY <1>1, <2>1, <2>2, <2>3, EquivalentType, StoreType DEF Report, TypeOK, client
  <2>4. CASE Store(k, r.u)
    BY <1>1, <2>1, <2>2, <2>4, StoreType DEF Report, TypeOK, client
  <2>5. CASE Await(k) /\ UNCHANGED <<uni, disk, origin>>
    BY <1>1, <2>2, <2>5 DEF Report, Await, TypeOK, ConnStates, client
  <2> QED
    BY <1>1, <2>3, <2>4, <2>5 DEF Report
<1>2. ASSUME NEW k \in Conns, ReportEquiv(k) PROVE TypeOK'
  <2> DEFINE r == conn[k].req
  <2>1. r \in Requests /\ r.t \in Taskhashes /\ r.u \in Unihashes
    BY <1>2, RequestParts DEF ReportEquiv, Busy
  <2>2. uni' \in [Taskhashes -> MaybeUnihash] /\ uni'[r.t] \in MaybeUnihash
    BY <1>2, <2>1, InsertKeeps DEF ReportEquiv, MaybeUnihash
  <2>3. conn' \in [Conns -> ConnStates]
    BY <1>2, <2>2, ConnType DEF ReportEquiv, Reply
  <2>4. disk' = [uni |-> uni', out |-> out]
    BY <1>2 DEF ReportEquiv, Commit
  <2> QED
    BY <1>2, <2>2, <2>3, <2>4 DEF ReportEquiv, TypeOK, client
<1>3. ASSUME NEW k \in Conns, GetStream(k) PROVE TypeOK'
  <2>1. uni[conn[k].req.t] \in MaybeUnihash
    BY <1>3, RequestParts DEF GetStream, Busy, TypeOK
  <2>2. CASE Await(k)
    BY <1>3, <2>2 DEF GetStream, Await, TypeOK, ConnStates, client, server
  <2>3. CASE Reply(k, uni[conn[k].req.t])
    BY <1>3, <2>1, <2>3, ConnType DEF GetStream, Reply, TypeOK, client, server
  <2> QED
    BY <1>3, <2>2, <2>3 DEF GetStream
<1>4. ASSUME NEW k \in Conns, ReportResumes(k) PROVE TypeOK'
  <2> DEFINE r == conn[k].req
  <2>1. r \in Requests /\ r.op = "report" /\ r.u \in Unihashes /\ r.o \in Outhashes
    BY <1>4, RequestParts DEF ReportResumes, Busy
  <2>2. PICK u \in UpstreamOuthash(r.o) : Store(k, IF u = None THEN r.u ELSE u)
    BY <1>4 DEF ReportResumes
  <2>3. (IF u = None THEN r.u ELSE u) \in Unihashes
    BY <2>1, HashAssumption DEF UpstreamOuthash, TypeOK
  <2>4. out' \in Seq(Taskhashes \X Outhashes)
    BY <1>4 DEF ReportResumes, TypeOK
  <2> QED
    BY <1>4, <2>1, <2>2, <2>3, <2>4, StoreType DEF ReportResumes, TypeOK, client
<1>5. ASSUME NEW k \in Conns, GetStreamResumes(k) PROVE TypeOK'
  <2> DEFINE r == conn[k].req
  <2>1. r.t \in Taskhashes
    BY <1>5, RequestParts DEF GetStreamResumes, Busy
  <2>2. PICK u \in UpstreamUnihash(r.t) :
          backfill' = (IF u = None THEN backfill ELSE backfill \cup {r.t}) /\ Reply(k, u)
    BY <1>5 DEF GetStreamResumes
  <2>3. u \in MaybeUnihash
    BY <2>1, HashAssumption DEF UpstreamUnihash, TypeOK, MaybeUnihash
  <2> QED
    BY <1>5, <2>1, <2>2, <2>3, ConnType DEF GetStreamResumes, Reply, TypeOK, client
<1>6. ASSUME NEW k \in Conns, HandlerFails(k) PROVE TypeOK'
  BY <1>6, ConnType DEF HandlerFails, TypeOK, client, server, MaybeUnihash
<1>7. ASSUME NEW t \in Taskhashes, Backfill(t) PROVE TypeOK'
  <2>1. PICK u \in UpstreamUnihash(t) :
          IF u = None THEN UNCHANGED <<uni, out, disk>> ELSE UNCHANGED out /\ InsertUnihash(t, u) /\ Commit
    BY <1>7 DEF Backfill
  <2>2. CASE u = None
    BY <1>7, <2>1, <2>2 DEF Backfill, TypeOK, client
  <2>3. CASE u # None
    <3>1. u \in Unihashes
      BY <2>3, HashAssumption DEF UpstreamUnihash, TypeOK
    <3>2. uni' \in [Taskhashes -> MaybeUnihash]
      BY <2>1, <2>3, <3>1, InsertKeeps
    <3> QED
      BY <1>7, <2>1, <2>3, <3>2 DEF Backfill, Commit, TypeOK, client
  <2> QED
    BY <2>2, <2>3
<1>8. CASE BackfillFails
  BY <1>8 DEF BackfillFails, TypeOK, client
<1>9. CASE Crash
  <2>1. \A k \in Conns : [conn[k] EXCEPT !.at = "closed"] \in ConnStates
    BY DEF TypeOK, ConnStates
  <2>2. Free \in ConnStates
    BY DEF Free, ConnStates, MaybeUnihash
  <2>3. conn' \in [Conns -> ConnStates]
    BY <1>9, <2>1, <2>2 DEF Crash, TypeOK
  <2> QED
    BY <1>9, <2>3 DEF Crash, TypeOK, client
<1>10. ASSUME NEW b \in Builds, Call(b) PROVE TypeOK'
  <2>1. PICK r \in Calls(b) : call' = [call EXCEPT ![b] = [req |-> r, on |-> None, tries |-> 0]]
    BY <1>10 DEF Call
  <2>2. r \in Requests
    BY DEF Calls, Requests, GetRequests, ReportRequests, EquivRequests
  <2> QED
    BY <1>10, <2>1, <2>2 DEF Call, TypeOK, CallStates, server
<1>11. ASSUME NEW b \in Builds, Send(b) PROVE TypeOK'
  <2>2. \A k \in Conns : [call[b] EXCEPT !.on = k] \in CallStates
    BY DEF TypeOK, CallStates
  <2>3. \A k \in Conns : [req |-> call[b].req, at |-> "sent", ans |-> None] \in ConnStates
    BY DEF TypeOK, CallStates, ConnStates, MaybeUnihash
  <2> QED
    BY <1>11, <2>2, <2>3 DEF Send, TypeOK, server
<1>12. ASSUME NEW b \in Builds, AttemptFails(b) PROVE TypeOK'
  <2>1. conn' \in [Conns -> ConnStates]
    BY <1>12 DEF AttemptFails, TypeOK, Free, MaybeUnihash, ConnStates
  <2>2. call' \in [Builds -> CallStates]
    <3>1. [req |-> call[b].req, on |-> None, tries |-> call[b].tries + 1] \in CallStates
      BY DEF TypeOK, CallStates
    <3> QED
      BY <1>12, <3>1 DEF AttemptFails, TypeOK
  <2> QED
    BY <1>12, <2>1, <2>2 DEF AttemptFails, TypeOK, server
<1>13. ASSUME NEW b \in Builds, GiveUp(b) PROVE TypeOK'
  <2> DEFINE r == call[b].req
  <2>1. call[b] # NoCall
    BY <1>13, HashAssumption DEF GiveUp, NoCall
  <2>2. r \in Requests /\ r.t \in MaybeUnihash
    BY <2>1, RequestParts, HashAssumption DEF Asked, MaybeUnihash
  <2>3. cache' \in [Builds -> [Taskhashes -> MaybeUnihash]]
    <3>1. [cache[b] EXCEPT ![r.t] = r.t] \in [Taskhashes -> MaybeUnihash]
      BY <2>2 DEF TypeOK
    <3> QED
      BY <1>13, <3>1 DEF GiveUp, TypeOK
  <2>4. call' \in [Builds -> CallStates]
    BY <1>13 DEF GiveUp, TypeOK, NoCall, CallStates
  <2> QED
    BY <1>13, <2>3, <2>4 DEF GiveUp, TypeOK, server
<1>14. ASSUME NEW b \in Builds, Receive(b) PROVE TypeOK'
  <2> DEFINE r == call[b].req
             k == call[b].on
  <2>1. r \in Requests /\ r.t \in Taskhashes /\ k \in Conns /\ conn[k].ans \in MaybeUnihash
    <3>1. call[b].on # None /\ k \in Conns
      BY <1>14 DEF Receive, TypeOK, CallStates
    <3>2. call[b] # NoCall
      BY <3>1 DEF NoCall
    <3> QED
      BY <3>1, <3>2, RequestParts DEF Asked, TypeOK, ConnStates
  <2>2. Believed(r, conn[k].ans, cache[b][r.t]) \in MaybeUnihash
    BY <2>1, RequestParts, HashAssumption DEF Believed, MaybeUnihash, TypeOK
  <2> QED
    <3>1. cache' \in [Builds -> [Taskhashes -> MaybeUnihash]]
      <4>1. [cache[b] EXCEPT ![r.t] = Believed(r, conn[k].ans, cache[b][r.t])] \in [Taskhashes -> MaybeUnihash]
        BY <2>1, <2>2 DEF TypeOK
      <4> QED
        BY <1>14, <4>1 DEF Receive, TypeOK
    <3>2. told' \in [Builds -> SUBSET Taskhashes]
      BY <1>14, <2>1 DEF Receive, TypeOK
    <3>3. call' \in [Builds -> CallStates]
      BY <1>14 DEF Receive, TypeOK, NoCall, CallStates
    <3>4. conn' \in [Conns -> ConnStates]
      BY <1>14 DEF Receive, TypeOK, Free, MaybeUnihash, ConnStates
    <3> QED
      BY <1>14, <3>1, <3>2, <3>3, <3>4 DEF Receive, TypeOK, server
<1> QED
  BY <1>0, <1>1, <1>2, <1>3, <1>4, <1>5, <1>6, <1>7, <1>8, <1>9, <1>10, <1>11, <1>12, <1>13, <1>14
     DEF Next, Handle, Progress

(***************************************************************************)
(* The tables only grow                                                    *)
(***************************************************************************)

Kept == \A t \in Taskhashes : disk.uni[t] # None => disk'.uni[t] = disk.uni[t]

(* Committing the insertion of a unihash keeps what is on disk. *)
LEMMA InsertCommit ==
  ASSUME TypeOK, Durable, NEW t \in Taskhashes, NEW u \in Unihashes, InsertUnihash(t, u), Commit
  PROVE  Durable' /\ Kept /\ disk'.uni[t] = uni'[t] /\ uni'[t] # None
<1>1. disk'.uni = uni' /\ disk.uni = uni
  BY DEF Commit, Durable
<1>2. uni'[t] # None
  BY InsertKeeps, HashAssumption
<1> QED
  BY <1>1, <1>2, InsertKeeps DEF Durable, Kept

(* The request of a handler, and the unihash a report comes to. *)
LEMMA StoreEffect ==
  ASSUME Inv, NEW k \in Conns, conn[k].at # "free", conn[k].req.op = "report",
         NEW u \in Unihashes, Store(k, u)
  PROVE  /\ Durable' /\ Kept
         /\ Settle(k, "answered", disk'.uni[conn[k].req.t])
         /\ disk'.uni[conn[k].req.t] # None
<1>1. conn[k].req.t \in Taskhashes
  BY RequestParts DEF Inv, Busy
<1> QED
  BY <1>1, InsertCommit DEF Inv, Store, Reply

(* A handler leaves the tables alone and answers no report, or it answers  *)
(* with what is on disk.                                                   *)
LEMMA HandlerEffect ==
  ASSUME Inv, NEW k \in Conns, Handle(k)
  PROVE  /\ Durable' /\ Kept
         /\ conn[k].at # "free"
         /\ \/ Await(k)
            \/ \E at \in {"answered", "closed"}, ans \in MaybeUnihash :
                 /\ Settle(k, at, ans)
                 /\ at = "answered" /\ conn[k].req.op \in {"report", "report-equiv"}
                      => ans = disk'.uni[conn[k].req.t] /\ ans # None
<1> DEFINE r == conn[k].req
<1>t. (Kept /\ Durable') \/ ~ UNCHANGED <<uni, disk>>
  BY DEF Kept, Inv, Durable
<1>s. ASSUME Durable', Kept, conn[k].at # "free", disk'.uni[r.t] # None,
             Settle(k, "answered", disk'.uni[r.t]), disk'.uni[r.t] \in MaybeUnihash
      PROVE  /\ Durable' /\ Kept /\ conn[k].at # "free"
             /\ \E at \in {"answered", "closed"}, ans \in MaybeUnihash :
                  /\ Settle(k, at, ans)
                  /\ at = "answered" /\ conn[k].req.op \in {"report", "report-equiv"}
                       => ans = disk'.uni[conn[k].req.t] /\ ans # None
  BY <1>s
<1>r. TypeOK' /\ (conn[k].at # "free" => r \in Requests /\ r.t \in Taskhashes)
  BY TypeStep, RequestParts DEF Next, Inv, Busy
<1>d. r.t \in Taskhashes => disk'.uni[r.t] \in MaybeUnihash
  BY <1>r DEF TypeOK
<1>1. CASE Report(k)
  <2>0. conn[k].at # "free" /\ r.op = "report"
    BY <1>1 DEF Report
  <2>1. r.u \in Unihashes /\ r.t \in Taskhashes
    BY <2>0, RequestParts DEF Inv, Busy
  <2>2. CASE Matches(r.t, r.o) # {} /\ Store(k, Equivalent(r.t, r.o))
    BY <2>0, <2>1, <2>2, EquivalentType, StoreEffect, <1>s, <1>d DEF Inv
  <2>3. CASE Store(k, r.u)
    BY <2>0, <2>1, <2>3, StoreEffect, <1>s, <1>d
  <2>4. CASE Await(k) /\ UNCHANGED <<uni, disk, origin>>
    BY <2>0, <2>4, <1>t
  <2> QED
    BY <1>1, <2>2, <2>3, <2>4 DEF Report
<1>2. CASE ReportEquiv(k)
  <2>0. conn[k].at # "free"
    BY <1>2 DEF ReportEquiv
  <2>1. r.u \in Unihashes /\ r.t \in Taskhashes
    BY <1>2, <2>0, RequestParts DEF Inv, Busy, ReportEquiv
  <2>2. Durable' /\ Kept /\ disk'.uni[r.t] = uni'[r.t] /\ uni'[r.t] # None
    BY <1>2, <2>1, InsertCommit DEF ReportEquiv, Inv
  <2>3. Settle(k, "answered", uni'[r.t])
    BY <1>2 DEF ReportEquiv, Reply
  <2> QED
    BY <2>0, <2>1, <2>2, <2>3, <1>s, <1>d
<1>3. CASE GetStream(k)
  <2>1. conn[k].at # "free" /\ r.op = "get-stream" /\ UNCHANGED <<uni, disk>>
    BY <1>3 DEF GetStream, server
  <2>2. uni[r.t] \in MaybeUnihash
    BY <2>1, <1>r DEF Inv, TypeOK
  <2>3. CASE Await(k)
    BY <2>1, <2>3, <1>t
  <2>4. CASE Settle(k, "answered", uni[r.t])
    BY <2>1, <2>2, <2>4, <1>t
  <2> QED
    BY <1>3, <2>3, <2>4 DEF GetStream, Reply
<1>4. CASE ReportResumes(k)
  <2>0. conn[k].at # "free" /\ r.op = "report"
    BY <1>4 DEF ReportResumes
  <2>1. r.u \in Unihashes /\ r.t \in Taskhashes /\ r.o \in Outhashes
    BY <2>0, RequestParts DEF Inv, Busy
  <2>2. PICK u \in UpstreamOuthash(r.o) : Store(k, IF u = None THEN r.u ELSE u)
    BY <1>4 DEF ReportResumes
  <2>3. (IF u = None THEN r.u ELSE u) \in Unihashes
    BY <2>1, HashAssumption DEF UpstreamOuthash, TypeOK, Inv
  <2> QED
    BY <2>0, <2>1, <2>2, <2>3, StoreEffect, <1>s, <1>d
<1>5. CASE GetStreamResumes(k)
  <2>1. conn[k].at # "free" /\ r.op = "get-stream" /\ UNCHANGED <<uni, disk>> /\ r.t \in Taskhashes
    BY <1>5, <1>r DEF GetStreamResumes
  <2>2. PICK u \in UpstreamUnihash(r.t) : Settle(k, "answered", u)
    BY <1>5 DEF GetStreamResumes, Reply
  <2>3. u \in MaybeUnihash
    BY <2>1, HashAssumption DEF UpstreamUnihash, TypeOK, MaybeUnihash, Inv
  <2> QED
    BY <2>1, <2>2, <2>3, <1>t
<1>6. CASE HandlerFails(k)
  <2>1. conn[k].at # "free" /\ UNCHANGED <<uni, disk>> /\ Settle(k, "closed", None) /\ None \in MaybeUnihash
    BY <1>6 DEF HandlerFails, server, MaybeUnihash
  <2> QED
    BY <2>1, <1>t
<1> QED
  BY <1>1, <1>2, <1>3, <1>4, <1>5, <1>6 DEF Handle

(* What is on disk stays, and the connection sees it. *)
LEMMA KeptStep == Inv /\ [Next]_vars => Durable' /\ Kept
<1> SUFFICES ASSUME Inv, [Next]_vars PROVE Durable' /\ Kept
  OBVIOUS
<1>t. UNCHANGED <<uni, disk>> => Durable' /\ Kept
  BY DEF Inv, Durable, Kept
<1>1. ASSUME NEW t \in Taskhashes, Backfill(t) PROVE Durable' /\ Kept
  <2>1. PICK u \in UpstreamUnihash(t) :
          IF u = None THEN UNCHANGED <<uni, out, disk>> ELSE UNCHANGED out /\ InsertUnihash(t, u) /\ Commit
    BY <1>1 DEF Backfill
  <2>2. u # None => u \in Unihashes
    BY HashAssumption DEF UpstreamUnihash, TypeOK, Inv
  <2> QED
    BY <2>1, <2>2, <1>t, InsertCommit DEF Inv
<1>2. ASSUME NEW b \in Builds, Call(b) \/ Progress(b) PROVE UNCHANGED <<uni, disk>>
  BY <1>2 DEF Call, Progress, Send, AttemptFails, GiveUp, Receive, server
<1>3. BackfillFails \/ UNCHANGED vars => UNCHANGED <<uni, disk>>
  BY DEF BackfillFails, vars
<1>4. Crash => Durable' /\ Kept
  BY DEF Crash, Durable, Kept
<1> QED
  BY <1>t, <1>1, <1>2, <1>3, <1>4, HandlerEffect DEF Next

(***************************************************************************)
(* What connections and builds know of each other                          *)
(***************************************************************************)

(* A step changes connections only as handlers, clients and crashes may.   *)
ConnMoves(k) ==
  \/ conn'[k] = conn[k]
  \/ conn'[k] = Free
  \/ conn[k].req \in Requests /\ conn'[k].req = conn[k].req /\ conn'[k].at \in {"upstream", "closed"}
  \/ /\ conn[k].at # "free" /\ conn'[k].req = conn[k].req /\ conn'[k].at = "answered"
     /\ conn[k].req.op \in {"report", "report-equiv"}
          => conn'[k].ans = disk'.uni[conn[k].req.t] /\ conn'[k].ans # None
  \/ conn'[k].at = "sent" /\ conn'[k].req \in Requests

(* A step takes a connection through its life in order. *)
LEMMA ConnStep ==
  ASSUME Inv, [Next]_vars, NEW k \in Conns PROVE ConnMoves(k)
<1> USE DEF Inv, TypeOK, ConnMoves
<1>1. ASSUME NEW j \in Conns, Handle(j) PROVE ConnMoves(k)
  <2>1. CASE Await(j)
    <3>1. conn[j].at # "free"
      BY <1>1, HandlerEffect
    <3>2. conn' = [conn EXCEPT ![j] = [conn[j] EXCEPT !.at = "upstream"]]
      BY <2>1 DEF Await
    <3>3. [conn[j] EXCEPT !.at = "upstream"].req = conn[j].req /\ [conn[j] EXCEPT !.at = "upstream"].at = "upstream"
      BY DEF ConnStates
    <3> QED
      BY <3>1, <3>2, <3>3 DEF Busy
  <2>2. ASSUME NEW at \in {"answered", "closed"}, NEW ans \in MaybeUnihash,
               Settle(j, at, ans),
               at = "answered" /\ conn[j].req.op \in {"report", "report-equiv"}
                 => ans = disk'.uni[conn[j].req.t] /\ ans # None
        PROVE  ConnMoves(k)
    BY <1>1, <2>2, HandlerEffect DEF Settle, Busy
  <2> QED
    BY <1>1, <2>1, <2>2, HandlerEffect
<1>2. CASE Crash
  <2>1. ASSUME Attended(k) PROVE conn[k].req \in Requests
    <3>1. PICK b \in Builds : call[b].on = k
      BY <2>1 DEF Attended
    <3>2. call[b].on # None /\ call[b] # NoCall
      BY <3>1, HashAssumption DEF NoCall
    <3> QED
      BY <3>1, <3>2 DEF Linked, Asked
  <2>2. [conn[k] EXCEPT !.at = "closed"].req = conn[k].req /\ [conn[k] EXCEPT !.at = "closed"].at = "closed"
    BY DEF ConnStates
  <2> QED
    BY <1>2, <2>1, <2>2 DEF Crash
<1>3. ASSUME NEW b \in Builds, Send(b) PROVE ConnMoves(k)
  <2>1. call[b].req \in Requests
    BY <1>3 DEF Send, Asked
  <2> QED
    BY <1>3, <2>1 DEF Send
<1>4. ASSUME NEW b \in Builds, AttemptFails(b) \/ Receive(b) PROVE ConnMoves(k)
  BY <1>4 DEF AttemptFails, Receive
<1>5. ASSUME NEW b \in Builds, Call(b) \/ GiveUp(b) PROVE ConnMoves(k)
  BY <1>5 DEF Call, GiveUp
<1>6. CASE UNCHANGED vars \/ BackfillFails \/ \E t \in Taskhashes : Backfill(t)
  BY <1>6 DEF vars, BackfillFails, Backfill
<1> QED
  BY <1>1, <1>2, <1>3, <1>4, <1>5, <1>6 DEF Next, Progress

(* A connection in use has a request. *)
LEMMA BusyStep == Inv /\ [Next]_vars => Busy'
BY ConnStep DEF Busy, ConnMoves, Free, Inv

(* The answer to a report stays the unihash on disk. *)
LEMMA AnswersStep == Inv /\ [Next]_vars => AnswersKept'
<1> SUFFICES ASSUME Inv, [Next]_vars, NEW k \in Conns,
                    conn'[k].at = "answered", conn'[k].req.op \in {"report", "report-equiv"}
             PROVE  conn'[k].ans = disk'.uni[conn'[k].req.t] /\ conn'[k].ans # None
  BY DEF AnswersKept
<1>1. CASE conn'[k] = conn[k]
  <2>1. conn[k].ans = disk.uni[conn[k].req.t] /\ conn[k].ans # None
    BY <1>1 DEF Inv, AnswersKept
  <2>2. conn[k].req.t \in Taskhashes
    BY <1>1, RequestParts DEF Inv, Busy
  <2> QED
    BY <1>1, <2>1, <2>2, KeptStep DEF Kept
<1> QED
  BY <1>1, ConnStep DEF ConnMoves, Free

(* Two builds do not share a connection, and a free one is nobody's.       *)
LEMMA LinkedStep == Inv /\ [Next]_vars => Linked'
<1> SUFFICES ASSUME Inv, [Next]_vars PROVE Linked'
  OBVIOUS
<1> USE DEF Inv, TypeOK, Linked
<1>k. \A b \in Builds : call[b].on # None => call[b].on \in Conns
  BY DEF CallStates
<1>1. ASSUME NEW j \in Conns, Handle(j) PROVE Linked'
  <2>1. call' = call
    BY <1>1 DEF Handle, Report, ReportEquiv, GetStream, ReportResumes, GetStreamResumes, HandlerFails, client
  <2>2. Await(j) \/ \E at \in {"answered", "closed"}, ans \in MaybeUnihash : Settle(j, at, ans)
    BY <1>1, HandlerEffect
  <2>3. ASSUME NEW b \in Builds, call[b].on # None PROVE conn'[call[b].on].req = conn[call[b].on].req
    <3> DEFINE k == call[b].on
    <3>1. k \in Conns /\ conn[k] \in ConnStates /\ Attended(k)
      BY <1>k, <2>3 DEF Attended
    <3>2. CASE Await(j)
      <4>1. conn'[k] \in {conn[k], [conn[k] EXCEPT !.at = "upstream"]}
        BY <3>1, <3>2 DEF Await
      <4> QED
        BY <3>1, <4>1 DEF ConnStates
    <3>3. ASSUME NEW at, NEW ans, Settle(j, at, ans) PROVE conn'[k].req = conn[k].req
      BY <3>1, <3>3 DEF Settle
    <3> QED
      BY <2>2, <3>2, <3>3
  <2> QED
    BY <2>1, <2>3
<1>2. CASE Crash
  <2>1. ASSUME NEW b \in Builds, call[b].on # None PROVE conn'[call[b].on].req = conn[call[b].on].req
    BY <1>k, <1>2, <2>1 DEF Crash, Attended, ConnStates
  <2> QED
    BY <1>2, <2>1 DEF Crash, client
<1>3. ASSUME NEW b \in Builds, Send(b) PROVE Linked'
  <2>1. PICK k \in Conns :
          /\ conn[k] = Free
          /\ conn' = [conn EXCEPT ![k] = [req |-> call[b].req, at |-> "sent", ans |-> None]]
          /\ call' = [call EXCEPT ![b] = [@ EXCEPT !.on = k]]
    BY <1>3 DEF Send
  <2>2. ASSUME NEW c \in Builds PROVE call[c].on # k
    <3> SUFFICES ASSUME call[c].on = k PROVE FALSE
      OBVIOUS
    <3>1. k # None
      BY HashAssumption
    <3>2. call[c].req = NoRequest
      BY <2>1, <3>1 DEF Free
    <3>3. call[c] # NoCall
      BY <3>1 DEF NoCall
    <3> QED
      BY <3>2, <3>3, RequestParts DEF Asked
  <2>3. call'[b].on = k /\ call'[b].req = call[b].req /\ \A c \in Builds \ {b} : call'[c] = call[c]
    <3>1. call' = [call EXCEPT ![b] = [call[b] EXCEPT !.on = k]]
      BY <2>1
    <3>2. [call[b] EXCEPT !.on = k].on = k /\ [call[b] EXCEPT !.on = k].req = call[b].req
      BY DEF CallStates
    <3> QED
      BY <3>1, <3>2
  <2>4. conn'[k].req = call[b].req /\ \A j \in Conns \ {k} : conn'[j] = conn[j]
    BY <2>1
  <2>5. ASSUME NEW c \in Builds \ {b}, call'[c].on # None
        PROVE  call'[c] = call[c] /\ call[c].on # k /\ conn'[call[c].on] = conn[call[c].on]
    BY <1>k, <2>2, <2>3, <2>4, <2>5
  <2>6. k # None
    BY HashAssumption
  <2>7. ASSUME NEW c \in Builds, call'[c].on # None
        PROVE  /\ conn'[call'[c].on].req = call'[c].req
               /\ \A d \in Builds : call'[d].on = call'[c].on => d = c
    <3>1. CASE c = b
      BY <2>3, <2>4, <2>5, <2>6, <3>1
    <3>2. CASE c # b
      <4>1. call'[c] = call[c] /\ call[c].on # k /\ call[c].on # None /\ conn'[call[c].on] = conn[call[c].on]
        BY <2>5, <2>7, <3>2
      <4>2. conn[call[c].on].req = call[c].req
        BY <4>1
      <4>3. ASSUME NEW d \in Builds, call'[d].on = call[c].on PROVE d = c
        <5>1. d # b /\ call'[d] = call[d]
          BY <2>3, <4>1, <4>3
        <5> QED
          BY <4>1, <4>3, <5>1
      <4> QED
        BY <4>1, <4>2, <4>3
    <3> QED
      BY <3>1, <3>2
  <2> QED
    BY <2>7
<1>4. ASSUME NEW b \in Builds, AttemptFails(b) \/ Receive(b) PROVE Linked'
  <2>1. call[b].on # None /\ call'[b].on = None /\ \A c \in Builds \ {b} : call'[c] = call[c]
    BY <1>4 DEF AttemptFails, Receive, NoCall
  <2>2. \A j \in Conns \ {call[b].on} : conn'[j] = conn[j]
    BY <1>4 DEF AttemptFails, Receive
  <2>3. ASSUME NEW c \in Builds, call'[c].on # None
        PROVE  conn'[call'[c].on] = conn[call[c].on] /\ call'[c] = call[c] /\ c # b
    BY <1>k, <2>1, <2>2, <2>3
  <2> QED
    BY <2>1, <2>3
<1>5. ASSUME NEW b \in Builds, Call(b) \/ GiveUp(b) PROVE Linked'
  <2>1. call'[b].on = None /\ conn' = conn /\ \A c \in Builds \ {b} : call'[c] = call[c]
    BY <1>5 DEF Call, GiveUp, NoCall
  <2>2. ASSUME NEW c \in Builds, call'[c].on # None PROVE call'[c] = call[c] /\ c # b
    BY <2>1, <2>2
  <2> QED
    BY <2>1, <2>2
<1>6. CASE UNCHANGED vars \/ BackfillFails \/ \E t \in Taskhashes : Backfill(t)
  BY <1>6 DEF vars, BackfillFails, Backfill, client
<1> QED
  BY <1>1, <1>2, <1>3, <1>4, <1>5, <1>6 DEF Next, Progress

(* A build asks for the unihash of a task only before its report of the    *)
(* task is answered: from then on it has one in its cache.                 *)
LEMMA AskedStep == Inv /\ [Next]_vars => Asked'
<1> SUFFICES ASSUME Inv, [Next]_vars PROVE Asked'
  OBVIOUS
<1> USE DEF Inv, TypeOK, Asked
<1>1. CASE UNCHANGED <<call, told>>
  BY <1>1
<1>2. ASSUME NEW b \in Builds, Call(b) PROVE Asked'
  <2>1. PICK r \in Calls(b) : call' = [call EXCEPT ![b] = [req |-> r, on |-> None, tries |-> 0]]
    BY <1>2 DEF Call
  <2>2. r \in Requests /\ (r.op = "get-stream" => r.t \in Taskhashes /\ cache[b][r.t] = None)
    BY DEF Calls, Requests, GetRequests, ReportRequests, EquivRequests
  <2>3. r.op = "get-stream" => r.t \notin told[b]
    BY <2>2 DEF Told
  <2> QED
    BY <1>2, <2>1, <2>2, <2>3 DEF Call
<1>3. ASSUME NEW b \in Builds, Send(b) \/ AttemptFails(b) PROVE Asked'
  <2>1. /\ call[b] # NoCall
        /\ call'[b].req = call[b].req /\ told' = told
        /\ \A c \in Builds \ {b} : call'[c] = call[c]
    BY <1>3 DEF Send, AttemptFails, CallStates, NoCall
  <2> QED
    BY <2>1
<1>4. ASSUME NEW b \in Builds, GiveUp(b) \/ Receive(b) PROVE Asked'
  <2>1. /\ call'[b] = NoCall /\ call'[b].req.op = "none"
        /\ \A c \in Builds \ {b} : call'[c] = call[c] /\ told'[c] = told[c]
    BY <1>4 DEF GiveUp, Receive, NoCall, NoRequest
  <2> QED
    BY <2>1
<1>5. ASSUME NEW j \in Conns, Handle(j) PROVE UNCHANGED <<call, told>>
  BY <1>5 DEF Handle, Report, ReportEquiv, GetStream, ReportResumes, GetStreamResumes, HandlerFails, client
<1>6. UNCHANGED vars \/ Crash \/ BackfillFails \/ (\E t \in Taskhashes : Backfill(t)) => UNCHANGED <<call, told>>
  BY DEF vars, Crash, BackfillFails, Backfill, client
<1> QED
  BY <1>1, <1>2, <1>3, <1>4, <1>5, <1>6 DEF Next, Progress

(* A build that was told goes by the unihash on disk. *)
LEMMA ToldStep == Inv /\ [Next]_vars => Told'
<1> SUFFICES ASSUME Inv, [Next]_vars PROVE Told'
  OBVIOUS
<1> USE DEF Inv, TypeOK, Told
<1>k. \A t \in Taskhashes : disk.uni[t] # None => disk'.uni[t] = disk.uni[t]
  BY KeptStep DEF Kept
<1>1. CASE UNCHANGED <<cache, told>>
  BY <1>1, <1>k
<1>2. ASSUME NEW b \in Builds, GiveUp(b) PROVE Told'
  <2> DEFINE r == call[b].req
  <2>1. r.op = "get-stream" => r.t \notin told[b]
    BY DEF Asked
  <2>2. \A t \in told[b] : cache'[b][t] = cache[b][t]
    BY <1>2, <2>1 DEF GiveUp
  <2>3. told' = told /\ \A c \in Builds \ {b} : cache'[c] = cache[c]
    BY <1>2 DEF GiveUp
  <2> QED
    BY <1>k, <2>2, <2>3
<1>3. ASSUME NEW b \in Builds, Receive(b) PROVE Told'
  <2> DEFINE r == call[b].req
             k == call[b].on
             u == Believed(r, conn[k].ans, cache[b][r.t])
  <2>1. k \in Conns /\ k # None /\ conn[k].at = "answered" /\ r \in Requests /\ conn[k].req = r
    BY <1>3 DEF Receive, CallStates, NoCall, Asked, Linked
  <2>2. r.t \in Taskhashes /\ r.op \in {"get-stream", "report", "report-equiv"}
    BY <2>1, RequestParts
  <2>3. r.op = "report" => u = disk.uni[r.t] /\ u # None
    BY <2>1 DEF AnswersKept, Believed
  <2>4. r.op = "report-equiv" /\ r.t \in told[b] => u = disk.uni[r.t] /\ u # None
    BY <2>1 DEF AnswersKept, Believed
  <2>5. r.op = "get-stream" => r.t \notin told[b]
    BY DEF Asked
  <2>6. /\ cache'[b][r.t] = u /\ \A t \in Taskhashes \ {r.t} : cache'[b][t] = cache[b][t]
        /\ \A c \in Builds \ {b} : cache'[c] = cache[c] /\ told'[c] = told[c]
        /\ told'[b] = IF r.op = "report" THEN told[b] \cup {r.t} ELSE told[b]
    BY <1>3, <2>2 DEF Receive
  <2>7. disk' = disk
    BY <1>3 DEF Receive, server
  <2>8. ASSUME NEW t \in told'[b] PROVE cache'[b][t] = disk.uni[t] /\ cache'[b][t] # None
    BY <2>2, <2>3, <2>4, <2>5, <2>6, <2>8
  <2> QED
    BY <2>6, <2>7, <2>8
<1>4. ASSUME NEW j \in Conns, Handle(j) PROVE UNCHANGED <<cache, told>>
  BY <1>4 DEF Handle, Report, ReportEquiv, GetStream, ReportResumes, GetStreamResumes, HandlerFails, client
<1>5. ASSUME NEW b \in Builds, Call(b) \/ Send(b) \/ AttemptFails(b) PROVE UNCHANGED <<cache, told>>
  BY <1>5 DEF Call, Send, AttemptFails
<1>6. UNCHANGED vars \/ Crash \/ BackfillFails \/ (\E t \in Taskhashes : Backfill(t)) => UNCHANGED <<cache, told>>
  BY DEF vars, Crash, BackfillFails, Backfill, client
<1> QED
  BY <1>1, <1>2, <1>3, <1>4, <1>5, <1>6 DEF Next, Progress

(***************************************************************************)
(* Theorems                                                                *)
(***************************************************************************)

(* Initially nothing is stored or asked. *)
LEMMA InitInv == Init => Inv
<1> SUFFICES ASSUME Init PROVE Inv
  OBVIOUS
<1>1. TypeOK
  BY HashAssumption DEF Init, TypeOK, MaybeUnihash, Free, NoCall, NoRequest, ConnStates, CallStates
<1>2. Busy /\ Durable /\ AnswersKept /\ Linked /\ Asked /\ Told
  BY DEF Init, Busy, Durable, AnswersKept, Linked, Asked, Told, Free, NoCall, NoRequest
<1> QED
  BY <1>1, <1>2 DEF Inv

(* The inductive invariant. *)
THEOREM Invariance == Spec => []Inv
<1>1. Inv /\ [Next]_vars => Inv'
  BY TypeStep, BusyStep, KeptStep, AnswersStep, LinkedStep, AskedStep, ToldStep DEF Inv
<1> QED
  BY InitInv, <1>1, PTL DEF Spec

(* Types are kept. *)
THEOREM TypeCorrect == Spec => []TypeOK
<1>1. Inv => TypeOK
  BY DEF Inv
<1> QED
  BY Invariance, <1>1, PTL

(* A committed unihash never changes, however many clients report, repeat  *)
(* and lose their requests, and whenever the server crashes.               *)
THEOREM Stable == Spec => UnihashStable
<1>1. Inv /\ [Next]_vars
        => [\A t \in Taskhashes : disk.uni[t] # None => disk'.uni[t] = disk.uni[t]]_vars
  BY KeptStep DEF Kept
<1> QED
  BY Invariance, <1>1, PTL DEF Spec, UnihashStable

(* A build that was told the outcome of its report goes by what the server *)
(* hands out.                                                              *)
THEOREM Agreement == Spec => []CacheAgrees
<1>1. Inv => CacheAgrees
  BY DEF Inv, Told, CacheAgrees
<1> QED
  BY Invariance, <1>1, PTL
(***************************************************************************)
(* Reports of the same output hash, when there is no upstream server       *)
(***************************************************************************)

FirstRow(rows, o, i) == i \in DOMAIN rows /\ rows[i][2] = o /\ \A j \in DOMAIN rows : rows[j][2] = o => i <= j

Owned == \A i \in DOMAIN out : uni[out[i][1]] # None

(* What report set a unihash took it from the oldest row of its output     *)
(* hash.                                                                   *)
Chosen ==
  \A t \in Taskhashes : origin[t] # None =>
    /\ uni[t] # None
    /\ \E i \in DOMAIN out : FirstRow(out, origin[t], i) /\ uni[t] = uni[out[i][1]]

(* Without an upstream server a row is stored together with a unihash for  *)
(* its task hash, no handler waits between the two, and a crash loses      *)
(* neither.                                                                *)
Alone ==
  ~upstream.there =>
    /\ backfill = {}
    /\ \A k \in Conns : conn[k].at # "upstream"
    /\ disk.out = out
    /\ Owned
    /\ Chosen

(* The oldest row of an output hash stays the oldest. *)
LEMMA FirstStays ==
  ASSUME TypeOK, NEW t, NEW o, InsertOuthash(t, o), NEW p, NEW i, FirstRow(out, p, i)
  PROVE  FirstRow(out', p, i) /\ out'[i] = out[i]
BY DEF InsertOuthash, TypeOK, FirstRow

(* Rows are added, never changed. *)
LEMMA RowsStay ==
  ASSUME TypeOK, NEW t, NEW o, InsertOuthash(t, o), NEW i \in DOMAIN out'
  PROVE  (i \in DOMAIN out /\ out'[i] = out[i]) \/ out'[i] = <<t, o>>
BY DEF InsertOuthash, TypeOK

(* Choices made before are not touched by new unihashes and new rows. *)
LEMMA ChoiceStays ==
  ASSUME TypeOK, Owned, Chosen,
         \A s \in Taskhashes : uni[s] # None => uni'[s] = uni[s],
         NEW t \in Taskhashes, origin[t] # None,
         \A i \in DOMAIN out : FirstRow(out, origin[t], i) => FirstRow(out', origin[t], i) /\ out'[i] = out[i]
  PROVE  /\ uni'[t] # None
         /\ \E i \in DOMAIN out' : FirstRow(out', origin[t], i) /\ uni'[t] = uni'[out'[i][1]]
<1>1. PICK i \in DOMAIN out : FirstRow(out, origin[t], i) /\ uni[t] = uni[out[i][1]]
  BY DEF Chosen
<1>2. out[i][1] \in Taskhashes /\ uni[out[i][1]] # None
  BY DEF TypeOK, Owned
<1>3. FirstRow(out', origin[t], i) /\ out'[i] = out[i] /\ i \in DOMAIN out'
  BY <1>1 DEF FirstRow
<1>4. uni'[t] = uni[t] /\ uni[t] # None /\ uni'[out[i][1]] = uni[out[i][1]]
  BY <1>2 DEF Chosen
<1> QED
  BY <1>1, <1>3, <1>4

(* A report that sets the unihash of its task hash takes it from the       *)
(* oldest row of its output hash, or adds that row.                        *)
LEMMA StoreChoice ==
  ASSUME Inv, Alone, ~upstream.there, NEW k \in Conns, conn[k].at # "free", conn[k].req.op = "report",
         InsertOuthash(conn[k].req.t, conn[k].req.o), NEW u \in Unihashes, Store(k, u),
         \/ Matches(conn[k].req.t, conn[k].req.o) = {}
         \/ /\ Matches(conn[k].req.t, conn[k].req.o) # {}
            /\ u = Equivalent(conn[k].req.t, conn[k].req.o)
  PROVE  Owned' /\ Chosen'
<1> DEFINE t == conn[k].req.t
           o == conn[k].req.o
<1> USE DEF Inv
<1>1. t \in Taskhashes /\ o \in Outhashes /\ o # None
  BY RequestParts, HashAssumption DEF Busy
<1>2. InsertUnihash(t, u) /\ origin' = [origin EXCEPT ![t] = IF uni[t] = None THEN o ELSE @]
  BY DEF Store
<1>3. /\ uni' \in [Taskhashes -> MaybeUnihash]
      /\ \A s \in Taskhashes : uni[s] # None => uni'[s] = uni[s]
      /\ uni'[t] # None
  BY <1>1, <1>2, InsertKeeps, HashAssumption
<1>4. Owned'
  <2> SUFFICES ASSUME NEW i \in DOMAIN out' PROVE uni'[out'[i][1]] # None
    BY DEF Owned
  <2>1. CASE i \in DOMAIN out /\ out'[i] = out[i]
    BY <2>1, <1>3 DEF Alone, Owned, TypeOK
  <2>2. CASE out'[i] = <<t, o>>
    BY <2>2, <1>3
  <2> QED
    BY <2>1, <2>2, RowsStay
<1>5. ASSUME NEW s \in Taskhashes, origin'[s] = origin[s], origin[s] # None
      PROVE  /\ uni'[s] # None
             /\ \E i \in DOMAIN out' : FirstRow(out', origin'[s], i) /\ uni'[s] = uni'[out'[i][1]]
  <2>1. \A i \in DOMAIN out : FirstRow(out, origin[s], i) => FirstRow(out', origin[s], i) /\ out'[i] = out[i]
    BY FirstStays
  <2> QED
    BY <1>3, <1>5, <2>1, ChoiceStays DEF Alone
<1>6. CASE uni[t] # None
  <2>1. origin' = origin
    BY <1>2, <1>6 DEF TypeOK
  <2> QED
    BY <1>4, <1>5, <2>1 DEF Chosen
<1>7. CASE uni[t] = None
  <2>1. \A s \in Taskhashes \ {t} : origin'[s] = origin[s]
    BY <1>2 DEF TypeOK
  <2>2. origin'[t] = o /\ uni'[t] = u
    BY <1>1, <1>2, <1>7 DEF TypeOK, InsertUnihash
  <2>3. \A i \in DOMAIN out : out[i][1] # t
    BY <1>7 DEF Alone, Owned
  <2>4. out' = Append(out, <<t, o>>)
    BY <2>3 DEF InsertOuthash
  <2>5. \A i \in DOMAIN out : out[i][2] = o => i \in Matches(t, o)
    BY <2>3 DEF Alone, Owned, Matches
  <2>6. \E i \in DOMAIN out' : FirstRow(out', o, i) /\ uni'[t] = uni'[out'[i][1]]
    <3>1. CASE Matches(t, o) = {}
      <4>1. FirstRow(out', o, Len(out) + 1) /\ out'[Len(out) + 1] = <<t, o>>
        BY <2>4, <2>5, <3>1 DEF FirstRow, TypeOK
      <4> QED
        BY <4>1 DEF FirstRow
    <3>2. CASE Matches(t, o) # {}
      <4> DEFINE i == Oldest(Matches(t, o))
      <4>1. Matches(t, o) \in SUBSET Nat
        BY DEF Matches, TypeOK
      <4>2. i \in Matches(t, o) /\ \A j \in Matches(t, o) : i <= j
        BY <3>2, <4>1, OldestIn
      <4>3. FirstRow(out, o, i) /\ out[i][1] \in Taskhashes /\ uni[out[i][1]] # None
        <5>1. i \in DOMAIN out /\ out[i][2] = o /\ uni[out[i][1]] # None
          BY <4>2 DEF Matches
        <5>2. FirstRow(out, o, i)
          BY <4>2, <5>1, <2>5 DEF FirstRow
        <5> QED
          BY <5>1, <5>2 DEF TypeOK
      <4>4. FirstRow(out', o, i) /\ out'[i] = out[i]
        BY <4>3, FirstStays
      <4>5. u = uni[out[i][1]]
        BY <3>2 DEF Equivalent
      <4> QED
        BY <4>3, <4>4, <4>5, <2>2, <1>3 DEF FirstRow
    <3> QED
      BY <3>1, <3>2
  <2>7. ASSUME NEW s \in Taskhashes, origin'[s] # None
        PROVE  /\ uni'[s] # None
               /\ \E i \in DOMAIN out' : FirstRow(out', origin'[s], i) /\ uni'[s] = uni'[out'[i][1]]
    <3>1. CASE s = t
      BY <3>1, <1>3, <2>2, <2>6
    <3>2. CASE s # t
      BY <3>2, <2>1, <2>7, <1>5
    <3> QED
      BY <3>1, <3>2
  <2> QED
    BY <1>4, <2>7 DEF Chosen
<1> QED
  BY <1>6, <1>7

(* An answer, or the loss of it, leaves nobody waiting for the upstream    *)
(* server.                                                                 *)
LEMMA SettledAlone ==
  ASSUME TypeOK, \A k \in Conns : conn[k].at # "upstream",
         NEW j \in Conns, NEW at \in {"answered", "closed"}, NEW ans, Settle(j, at, ans)
  PROVE  \A k \in Conns : conn'[k].at # "upstream"
BY DEF Settle, TypeOK, Free

(* Without an upstream server, every step keeps the choices. *)
LEMMA AloneStep == Inv /\ Alone /\ [Next]_vars => Alone'
<1> SUFFICES ASSUME Inv, Alone, [Next]_vars, ~upstream'.there PROVE Alone'
  BY DEF Alone
<1> USE DEF Inv
<1>0. upstream' = upstream
  BY DEF Next, Handle, Progress, Report, ReportEquiv, GetStream, ReportResumes, GetStreamResumes, HandlerFails,
         Backfill, BackfillFails, Crash, Call, Send, AttemptFails, GiveUp, Receive, server, vars
<1>a. /\ ~upstream.there /\ backfill = {} /\ (\A k \in Conns : conn[k].at # "upstream")
      /\ disk.out = out /\ Owned /\ Chosen
  BY <1>0 DEF Alone
<1>f. ASSUME UNCHANGED <<uni, out, disk, origin, backfill>>, \A k \in Conns : conn'[k].at # "upstream" PROVE Alone'
  BY <1>a, <1>f DEF Alone, Owned, Chosen
<1>1. ASSUME NEW k \in Conns, Report(k) PROVE Alone'
  <2> DEFINE r == conn[k].req
  <2>1. /\ conn[k].at # "free" /\ r.op = "report" /\ InsertOuthash(r.t, r.o) /\ backfill' = backfill
        /\ r.u \in Unihashes
    BY <1>1, RequestParts DEF Report, Busy
  <2>2. PICK u \in Unihashes :
          /\ Store(k, u)
          /\ Matches(r.t, r.o) = {} \/ (Matches(r.t, r.o) # {} /\ u = Equivalent(r.t, r.o))
    BY <1>1, <1>a, <2>1, EquivalentType DEF Report
  <2>3. Owned' /\ Chosen'
    BY <1>a, <2>1, <2>2, StoreChoice
  <2>4. disk'.out = out'
    BY <2>2 DEF Store, Commit
  <2>5. \A j \in Conns : conn'[j].at # "upstream"
    BY <1>a, <2>2, SettledAlone DEF Store, Reply
  <2> QED
    BY <1>a, <2>1, <2>3, <2>4, <2>5 DEF Alone
<1>2. ASSUME NEW k \in Conns, ReportEquiv(k) PROVE Alone'
  <2> DEFINE r == conn[k].req
  <2>1. r.t \in Taskhashes /\ r.u \in Unihashes
    BY <1>2, RequestParts DEF ReportEquiv, Busy
  <2>2. /\ InsertUnihash(r.t, r.u) /\ out' = out /\ disk'.out = out' /\ origin' = origin /\ backfill' = backfill
        /\ Settle(k, "answered", uni'[r.t])
    BY <1>2 DEF ReportEquiv, Commit, Reply
  <2>3. \A s \in Taskhashes : uni[s] # None => uni'[s] = uni[s]
    BY <2>1, <2>2, InsertKeeps
  <2>4. Owned'
    BY <1>a, <2>2, <2>3 DEF Owned, TypeOK
  <2>5. Chosen'
    BY <1>a, <2>2, <2>3, ChoiceStays DEF Chosen
  <2>6. \A j \in Conns : conn'[j].at # "upstream"
    BY <1>a, <2>2, SettledAlone
  <2> QED
    BY <1>a, <2>2, <2>4, <2>5, <2>6 DEF Alone
<1>3. ASSUME NEW k \in Conns, GetStream(k) PROVE Alone'
  BY <1>3, <1>a, <1>f, SettledAlone DEF GetStream, Reply, server
<1>4. ASSUME NEW k \in Conns, ReportResumes(k) \/ GetStreamResumes(k) \/ HandlerFails(k) PROVE FALSE
  BY <1>4, <1>a DEF ReportResumes, GetStreamResumes, HandlerFails
<1>5. ASSUME NEW t, Backfill(t) \/ BackfillFails PROVE FALSE
  BY <1>5, <1>a DEF Backfill, BackfillFails
<1>6. CASE Crash
  <2>1. uni' = uni /\ out' = out /\ UNCHANGED <<disk, origin>> /\ backfill' = backfill
    BY <1>6, <1>a DEF Crash, Durable
  <2>2. \A k \in Conns : conn'[k].at # "upstream"
    <3>1. \A k \in Conns : [conn[k] EXCEPT !.at = "closed"].at = "closed"
      BY DEF TypeOK, ConnStates
    <3> QED
      BY <1>6, <1>a, <3>1 DEF Crash, Free
  <2> QED
    BY <2>1, <2>2, <1>f
<1>7. ASSUME NEW b \in Builds, Call(b) \/ Progress(b) PROVE Alone'
  <2>1. UNCHANGED <<uni, out, disk, origin, backfill>>
    BY <1>7 DEF Call, Progress, Send, AttemptFails, GiveUp, Receive, server
  <2>2. \A k \in Conns : conn'[k].at # "upstream"
    BY <1>7, <1>a DEF Call, Progress, Send, AttemptFails, GiveUp, Receive, TypeOK, Free
  <2> QED
    BY <2>1, <2>2, <1>f
<1>8. CASE UNCHANGED vars
  BY <1>8, <1>a, <1>f DEF vars
<1> QED
  BY <1>1, <1>2, <1>3, <1>4, <1>5, <1>6, <1>7, <1>8 DEF Next, Handle

(* Two rows that are the oldest of the same output hash are the same row. *)
LEMMA AloneAgrees == TypeOK /\ Alone => SameOutput
<1> SUFFICES ASSUME TypeOK, Alone, ~upstream.there,
                    NEW s \in Taskhashes, NEW t \in Taskhashes, origin[s] = origin[t], origin[t] # None
             PROVE  uni[s] = uni[t]
  BY DEF SameOutput
<1>1. PICK i \in DOMAIN out : FirstRow(out, origin[s], i) /\ uni[s] = uni[out[i][1]]
  BY DEF Alone, Chosen
<1>2. PICK j \in DOMAIN out : FirstRow(out, origin[t], j) /\ uni[t] = uni[out[j][1]]
  BY DEF Alone, Chosen
<1>3. i = j
  BY <1>1, <1>2 DEF FirstRow, TypeOK
<1> QED
  BY <1>1, <1>2, <1>3

(* Without an upstream server, task hashes whose unihashes were set by     *)
(* reports of the same output hash share a unihash, in whatever order      *)
(* builds report, repeat and equate them and whenever the server crashes.  *)
THEOREM OneOutput == Spec => []SameOutput
<1>1. Init => Alone
  BY DEF Init, Alone, Owned, Chosen, Free
<1>2. Inv /\ Alone => SameOutput
  BY AloneAgrees DEF Inv
<1> QED
  BY Invariance, <1>1, <1>2, AloneStep, PTL DEF Spec

=============================================================================
