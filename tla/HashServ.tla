----------------------------- MODULE HashServ -----------------------------
(***************************************************************************)
(* The hash equivalence server and the builds that use it.                 *)
(*                                                                         *)
(* The server keeps two tables: the unihash of a task hash, and which task *)
(* hashes gave which output hash, oldest first.  A build asks for the      *)
(* unihash of a task, reports the output hash of a task it has built, and  *)
(* says that a task hash is equivalent to one it knows; what it is told    *)
(* names stamps and shared state, so it must never change.                 *)
(*                                                                         *)
(* The server is one thread: a handler runs until it awaits an answer of   *)
(* the upstream server.  All handlers share one database connection, so a  *)
(* commit makes durable what any of them wrote.  The connection to a build *)
(* may be lost, or given up after a timeout, while its handler goes on.    *)
(***************************************************************************)
EXTENDS Naturals, Sequences

CONSTANTS
  Builds,        \* clients of the server
  Conns,         \* connections: numbers, the lowest free one is taken
  Taskhashes,
  Outhashes,
  Unihashes,     \* what a unihash may be, here or at the upstream server
  None,
  InitCaches,    \* unihashes a build may remember from an earlier one
  Upstreams,     \* what the upstream server may hold, if there is one
  Retries,       \* attempts after the first of one call
  MaxCalls,      \* bound on the calls of all builds
  MaxCrashes     \* bound on the crashes of the server

ASSUME HashAssumption ==
  /\ Taskhashes \subseteq Unihashes
  /\ None \notin Unihashes \cup Outhashes \cup Conns
  /\ InitCaches \subseteq [Taskhashes -> Unihashes \cup {None}]
  /\ Upstreams \subseteq [there : BOOLEAN, uni : [Taskhashes -> Unihashes \cup {None}],
                                        out : [Outhashes -> Unihashes \cup {None}]]
  /\ Conns \subseteq Nat
  /\ Retries \in Nat
  /\ MaxCalls \in Nat
  /\ MaxCrashes \in Nat

VARIABLES
  uni,           \* table of unihashes, as the server's connection sees it
  out,           \* table of output hashes: rows <<taskhash, outhash>>, oldest first
  disk,          \* both tables as committed
  conn,          \* [Conns -> request and progress of its handler]
  backfill,      \* task hashes whose unihash is to be copied from upstream
  worker,        \* the task that copies them runs
  upstream,      \* whether there is an upstream server, and its tables
  call,          \* [Builds -> call in progress, its connection and attempts]
  cache,         \* [Builds -> unihashes it goes by]
  told,          \* [Builds -> task hashes whose report was answered]
  origin,        \* [Taskhashes -> output hash whose report chose the unihash]
  calls,         \* number of calls so far
  crashes        \* number of crashes so far

server == <<uni, out, disk, backfill, worker, upstream, origin>>
client == <<call, calls, cache, told>>
vars == <<uni, out, disk, conn, backfill, worker, upstream, call, cache, told, origin, calls, crashes>>

MaybeUnihash == Unihashes \cup {None}

GetRequests == [op : {"get-stream"}, t : Taskhashes, o : {None}, u : {None}]
ReportRequests == [op : {"report"}, t : Taskhashes, o : Outhashes, u : Unihashes]
EquivRequests == [op : {"report-equiv"}, t : Taskhashes, o : {None}, u : Unihashes]
NoRequest == [op |-> "none", t |-> None, o |-> None, u |-> None]
Requests == GetRequests \cup ReportRequests \cup EquivRequests

ConnStates ==
  [req : Requests \cup {NoRequest}, at : {"free", "sent", "upstream", "answered", "closed"}, ans : MaybeUnihash]
CallStates == [req : Requests \cup {NoRequest}, on : Conns \cup {None}, tries : Nat]

Free == [req |-> NoRequest, at |-> "free", ans |-> None]
NoCall == [req |-> NoRequest, on |-> None, tries |-> 0]

Init ==
  /\ uni = [t \in Taskhashes |-> None]
  /\ out = << >>
  /\ disk = [uni |-> uni, out |-> out]
  /\ conn = [k \in Conns |-> Free]
  /\ backfill = {}
  /\ worker = TRUE
  /\ upstream \in Upstreams
  /\ call = [b \in Builds |-> NoCall]
  /\ cache \in [Builds -> InitCaches]
  /\ told = [b \in Builds |-> {}]
  /\ origin = [t \in Taskhashes |-> None]
  /\ calls = 0
  /\ crashes = 0

(***************************************************************************)
(* The tables                                                              *)
(***************************************************************************)

InsertUnihash_Replace(t, u) == uni' = [uni EXCEPT ![t] = u]

(* insert_unihash() with Resolve.IGNORE *)
InsertUnihash(t, u) == uni' = [uni EXCEPT ![t] = IF @ = None THEN u ELSE @]

(* insert_outhash() with Resolve.IGNORE *)
InsertOuthash(t, o) ==
  out' = IF \E i \in DOMAIN out : out[i] = <<t, o>> THEN out ELSE Append(out, <<t, o>>)

Commit == disk' = [uni |-> uni', out |-> out']

(* Rows of the same output hash, of another task hash that has a unihash. *)
Matches(t, o) ==
  {i \in DOMAIN out : out[i][2] = o /\ out[i][1] # t /\ uni[out[i][1]] # None}

(* ORDER BY created ASC LIMIT 1 *)
Oldest(rows) == CHOOSE i \in rows : \A j \in rows : i <= j

Equivalent_Row(t, o) == out[Oldest(Matches(t, o))][1]

Equivalent(t, o) == uni[out[Oldest(Matches(t, o))][1]]

(***************************************************************************)
(* Handlers                                                                *)
(***************************************************************************)

Attended(k) == \E b \in Builds : call[b].on = k

(* The answer of a handler is lost when its client has gone. *)
Settle(k, at, ans) ==
  conn' = [conn EXCEPT ![k] = IF Attended(k) THEN [req |-> @.req, at |-> at, ans |-> ans] ELSE Free]

Reply(k, ans) == Settle(k, "answered", ans)

Await(k) == conn' = [conn EXCEPT ![k] = [@ EXCEPT !.at = "upstream"]]

Store_Wanted(k, u) ==
  LET r == conn[k].req IN
  /\ InsertUnihash(r.t, u)
  /\ origin' = [origin EXCEPT ![r.t] = IF uni[r.t] = None THEN r.o ELSE @]
  /\ Commit
  /\ Reply(k, u)

(* What handle_report() does once it knows the unihash. *)
Store(k, u) ==
  LET r == conn[k].req IN
  /\ InsertUnihash(r.t, u)
  /\ origin' = [origin EXCEPT ![r.t] = IF uni[r.t] = None THEN r.o ELSE @]
  /\ Commit
  /\ Reply(k, uni'[r.t])

(* handle_report().  [inserted] is true whether or not the row is new: the *)
(* cursor is new, and its lastrowid changes in any case.                   *)
Report(k) ==
  LET r == conn[k].req IN
  /\ conn[k].at = "sent" /\ r.op = "report"
  /\ InsertOuthash(r.t, r.o)
  /\ \/ Matches(r.t, r.o) # {} /\ Store(k, Equivalent(r.t, r.o))
     \/ Matches(r.t, r.o) = {} /\ ~upstream.there /\ Store(k, r.u)
     \/ /\ Matches(r.t, r.o) = {} /\ upstream.there
        /\ Await(k)
        /\ UNCHANGED <<uni, disk, origin>>
  /\ UNCHANGED <<backfill, worker, upstream, client, crashes>>

(* handle_equivreport() *)
ReportEquiv(k) ==
  LET r == conn[k].req IN
  /\ conn[k].at = "sent" /\ r.op = "report-equiv"
  /\ InsertUnihash(r.t, r.u)
  /\ UNCHANGED out
  /\ Commit
  /\ Reply(k, uni'[r.t])
  /\ UNCHANGED <<backfill, worker, upstream, origin, client, crashes>>

(* handle_get_stream() *)
GetStream(k) ==
  LET r == conn[k].req IN
  /\ conn[k].at = "sent" /\ r.op = "get-stream"
  /\ IF uni[r.t] = None /\ upstream.there THEN Await(k) ELSE Reply(k, uni[r.t])
  /\ UNCHANGED <<server, client, crashes>>

(* The upstream server keeps the same promises as this one: what it has    *)
(* never changes, though it may not have it yet.                           *)
UpstreamUnihash(t) == {None, upstream.uni[t]}
UpstreamOuthash(o) == {None, upstream.out[o]}

ReportResumes(k) ==
  LET r == conn[k].req IN
  /\ conn[k].at = "upstream" /\ r.op = "report"
  /\ UNCHANGED out
  /\ \E u \in UpstreamOuthash(r.o) : Store(k, IF u = None THEN r.u ELSE u)
  /\ UNCHANGED <<upstream, backfill, worker, client, crashes>>

GetStreamResumes(k) ==
  LET r == conn[k].req IN
  /\ conn[k].at = "upstream" /\ r.op = "get-stream"
  /\ \E u \in UpstreamUnihash(r.t) :
       /\ backfill' = IF u = None THEN backfill ELSE backfill \cup {r.t}
       /\ Reply(k, u)
  /\ UNCHANGED <<uni, out, disk, worker, upstream, origin, client, crashes>>

HandlerFails_LeavesOpen(k) ==
  /\ conn[k].at = "upstream"
  /\ Settle(k, "stuck", None)
  /\ UNCHANGED <<server, client, crashes>>

(* The client of the upstream server raises: handle_client() closes the    *)
(* connection.  What the handler wrote stays.                              *)
HandlerFails(k) ==
  /\ conn[k].at = "upstream"
  /\ Settle(k, "closed", None)
  /\ UNCHANGED <<server, client, crashes>>

(* backfill_worker_task(): copy_unihash_from_upstream() *)
Backfill(t) ==
  /\ worker /\ t \in backfill
  /\ backfill' = backfill \ {t}
  /\ \E u \in UpstreamUnihash(t) :
       IF u = None
       THEN UNCHANGED <<uni, out, disk>>
       ELSE UNCHANGED out /\ InsertUnihash(t, u) /\ Commit
  /\ UNCHANGED <<worker, upstream, origin, conn, client, crashes>>

(* An exception ends the task, and nothing starts it again. *)
BackfillFails ==
  /\ worker /\ backfill # {}
  /\ worker' = FALSE
  /\ UNCHANGED <<uni, out, disk, backfill, upstream, origin, conn, client, crashes>>

(* The server dies, or is stopped, and is started again. *)
Crash ==
  /\ crashes < MaxCrashes
  /\ crashes' = crashes + 1
  /\ uni' = disk.uni
  /\ out' = disk.out
  /\ conn' = [k \in Conns |->
                IF conn[k].at = "answered" THEN conn[k]
                ELSE IF Attended(k) THEN [conn[k] EXCEPT !.at = "closed"] ELSE Free]
  /\ backfill' = {}
  /\ worker' = TRUE
  /\ UNCHANGED <<disk, upstream, origin, client>>

(***************************************************************************)
(* Builds                                                                  *)
(***************************************************************************)

(* get_unihash() asks for a task whose unihash is not in its cache; a task *)
(* that was built is reported once, with the unihash it ran with; one that *)
(* changed its task hash after it was restored, as equivalent to what it   *)
(* was.                                                                    *)
Calls(b) ==
  {[op |-> "get-stream", t |-> t, o |-> None, u |-> None] : t \in {s \in Taskhashes : cache[b][s] = None}}
  \cup {r \in ReportRequests : r.u = cache[b][r.t] /\ r.t \notin told[b]}
  \cup {r \in EquivRequests :
          /\ cache[b][r.t] \notin {None, r.u}
          /\ \E t \in Taskhashes \ {r.t} : cache[b][t] = r.u}

Call(b) ==
  /\ call[b] = NoCall /\ calls < MaxCalls
  /\ calls' = calls + 1
  /\ \E r \in Calls(b) : call' = [call EXCEPT ![b] = [req |-> r, on |-> None, tries |-> 0]]
  /\ UNCHANGED <<server, conn, cache, told, crashes>>

(* An attempt of _send_wrapper(), on a new connection or the old one. *)
Send(b) ==
  /\ call[b] # NoCall /\ call[b].on = None /\ call[b].tries <= Retries
  /\ \E k \in Conns :
       /\ conn[k] = Free /\ \A j \in Conns : conn[j] = Free => k <= j
       /\ conn' = [conn EXCEPT ![k] = [req |-> call[b].req, at |-> "sent", ans |-> None]]
       /\ call' = [call EXCEPT ![b] = [@ EXCEPT !.on = k]]
  /\ UNCHANGED <<server, cache, told, calls, crashes>>

(* The attempt fails: connection refused or lost, timeout, server gone.    *)
(* The request may still reach its handler, and a handler goes on.         *)
AttemptFails(b) ==
  LET k == call[b].on IN
  /\ k # None
  /\ call' = [call EXCEPT ![b] = [req |-> @.req, on |-> None, tries |-> @.tries + 1]]
  /\ \/ conn[k].at # "upstream" /\ conn' = [conn EXCEPT ![k] = Free]
     \/ conn[k].at \in {"sent", "upstream"} /\ UNCHANGED conn
  /\ UNCHANGED <<server, cache, told, calls, crashes>>

(* ConnectionError: get_unihash() goes by the task hash, reports warn. *)
GiveUp(b) ==
  LET r == call[b].req IN
  /\ call[b].on = None /\ call[b].tries > Retries
  /\ call' = [call EXCEPT ![b] = NoCall]
  /\ cache' = [cache EXCEPT ![b] = IF r.op = "get-stream" THEN [@ EXCEPT ![r.t] = r.t] ELSE @]
  /\ UNCHANGED <<server, conn, told, calls, crashes>>

(* What the build makes of an answer [u] to [r], going by [old]. *)
Believed(r, u, old) ==
  CASE r.op = "get-stream" -> IF u = None THEN r.t ELSE u
    [] r.op = "report" -> u
    [] r.op = "report-equiv" -> IF u = r.u THEN u ELSE old

Receive(b) ==
  LET k == call[b].on
      r == call[b].req IN
  /\ k # None
  /\ conn[k].at = "answered"
  /\ cache' = [cache EXCEPT ![b] = [@ EXCEPT ![r.t] = Believed(r, conn[k].ans, cache[b][r.t])]]
  /\ told' = [told EXCEPT ![b] = IF r.op = "report" THEN @ \cup {r.t} ELSE @]
  /\ call' = [call EXCEPT ![b] = NoCall]
  /\ conn' = [conn EXCEPT ![k] = Free]
  /\ UNCHANGED <<server, calls, crashes>>

Handle(k) ==
  \/ Report(k) \/ ReportEquiv(k) \/ GetStream(k)
  \/ ReportResumes(k) \/ GetStreamResumes(k) \/ HandlerFails(k)

Progress(b) == Send(b) \/ AttemptFails(b) \/ GiveUp(b) \/ Receive(b)

Next ==
  \/ \E k \in Conns : Handle(k)
  \/ \E t \in Taskhashes : Backfill(t)
  \/ BackfillFails
  \/ Crash
  \/ \E b \in Builds : Call(b) \/ Progress(b)

Spec == Init /\ [][Next]_vars

(* The server runs what it has received, and the upstream server answers   *)
(* or fails.  Of a client, only what it does by itself: a report times     *)
(* out, a request for a unihash waits until the connection is closed.      *)
Broken(b) == conn[call[b].on].at = "closed" \/ call[b].req.op # "get-stream"

FairSpec ==
  /\ Spec
  /\ \A k \in Conns : WF_vars(Handle(k))
  /\ \A b \in Builds :
       WF_vars(Send(b) \/ GiveUp(b) \/ Receive(b) \/ (call[b].on # None /\ Broken(b) /\ AttemptFails(b)))

(***************************************************************************)
(* Properties                                                              *)
(***************************************************************************)

TypeOK ==
  /\ uni \in [Taskhashes -> MaybeUnihash]
  /\ out \in Seq(Taskhashes \X Outhashes)
  /\ disk \in [uni : [Taskhashes -> MaybeUnihash], out : Seq(Taskhashes \X Outhashes)]
  /\ conn \in [Conns -> ConnStates]
  /\ backfill \subseteq Taskhashes
  /\ upstream \in Upstreams
  /\ worker \in BOOLEAN
  /\ call \in [Builds -> CallStates]
  /\ cache \in [Builds -> [Taskhashes -> MaybeUnihash]]
  /\ told \in [Builds -> SUBSET Taskhashes]
  /\ origin \in [Taskhashes -> Outhashes \cup {None}]
  /\ calls \in Nat
  /\ crashes \in Nat

(* The unihash of a task hash never changes once it is committed, whoever  *)
(* reports it again, repeats a report that was handled already, or copies  *)
(* it from upstream, and whatever a crash takes away.                      *)
UnihashStable ==
  [][\A t \in Taskhashes : disk.uni[t] # None => disk'.uni[t] = disk.uni[t]]_vars

(* A build that was told the outcome of its report goes by the unihash the *)
(* server hands out from then on, also after the server crashed.           *)
CacheAgrees ==
  \A b \in Builds : \A t \in told[b] : cache[b][t] = disk.uni[t]

(* Without an upstream server, task hashes that got their unihashes by     *)
(* reports of the same output hash have the same unihash.  (With one, two  *)
(* reports may wait for its answers at once, and differ.)                  *)
SameOutput ==
  ~upstream.there =>
    \A s, t \in Taskhashes : origin[s] = origin[t] /\ origin[t] # None => uni[s] = uni[t]

(* Every call of a build ends: with an answer, or with an error after the  *)
(* last attempt.                                                           *)
CallsEnd == \A b \in Builds : call[b] # NoCall ~> call[b] = NoCall

=============================================================================
