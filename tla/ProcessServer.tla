--------------------------- MODULE ProcessServer ---------------------------
(***************************************************************************)
(* The bitbake server of a build directory and the clients that find or    *)
(* start it: main.py and server/process.py.                                *)
(*                                                                         *)
(* bitbake.lock elects the server.  A client that gets the lock starts a   *)
(* server, which inherits the open file and with it the lock; one that     *)
(* does not connects to bitbake.sock.  A server serves one client at a     *)
(* time and ends after the last one, after a timeout, or when told to.  It *)
(* removes the socket before it gives up the lock.                         *)
(*                                                                         *)
(* The lock is the one FileLock specifies, kept by the processes that have *)
(* the file open.  Passing of time is a choice: a timeout may come early.  *)
(***************************************************************************)
EXTENDS Naturals, SequencesExt

CONSTANTS
  Clients,
  Servers,       \* processes a server may be; one that has gone may be reused
  None,
  Role,          \* [Clients -> what the client was started for]
  Timeouts,      \* server timeouts: none (0), some, never (-1.0)
  Retries,       \* attempts of a client after the first
  Backlog,       \* connections the listening socket has room for
  MayCrash       \* whether a server may die at any moment

Roles == {"ui", "status", "kill", "server"}

ASSUME ServerAssumption ==
  /\ None \notin Clients \cup Servers \cup (Servers \X Clients \X (0..Retries))
  /\ Clients \cap Servers = {}
  /\ Role \in [Clients -> Roles]
  /\ Timeouts \subseteq {"none", "some", "never"}
  /\ Retries \in Nat
  /\ Backlog \in Nat \ {0}
  /\ MayCrash \in BOOLEAN

VARIABLES
  holders,       \* processes that have the locked lock file open
  contents,      \* the server named in the lock file, None if there is no file
  sockfile,      \* the server whose socket bitbake.sock is or was, or None
  srv,           \* [Servers -> its state]
  timeout,       \* server_timeout
  pc,            \* [Clients -> where setup_bitbake() is]
  retries,       \* [Clients -> attempts left]
  on,            \* [Clients -> its open connection; while it starts a server,
                 \*  the pipe the server says "r" on]
  wire,          \* commands sent and not read: <<connection, command>>
  replies        \* connections with an answer that was not read

vars == <<holders, contents, sockfile, srv, timeout, pc, retries, on, wire, replies>>
client == <<pc, retries, on>>

(* A connection: its server, its client, and the attempt. *)
Connections == Servers \X Clients \X (0..Retries)

Phases == {"none", "exec", "init", "serve", "exiting", "closing", "relock", "unlock"}

Absent ==
  [at |-> "none", ready |-> None, controllersock |-> None, haveui |-> FALSE, hadanyui |-> FALSE,
   backlog |-> << >>, newconnections |-> << >>, lockcontents |-> None]

Init ==
  /\ holders = {}
  /\ contents = None
  /\ sockfile = None
  /\ srv = [s \in Servers |-> Absent]
  /\ timeout \in Timeouts
  /\ pc = [c \in Clients |-> "idle"]
  /\ retries = [c \in Clients |-> Retries]
  /\ on = [c \in Clients |-> None]
  /\ wire = {}
  /\ replies = {}

Listening(s) == srv[s].at \in {"init", "serve", "exiting"}
Serving(s) == srv[s].at \in {"init", "serve"}
CanConnect ==
  IF sockfile = None THEN FALSE
  ELSE Listening(sockfile) /\ Len(srv[sockfile].backlog) < Backlog

Open(k) == on[k[2]] = k

(* Nobody reads the answer to a client that has closed the connection.     *)
Answer(k) == IF Open(k) THEN replies \cup {k} ELSE replies

Update(s, r) == srv' = [srv EXCEPT ![s] = r]

(* The process of a server ends: its files and connections are closed.     *)
Gone(s) ==
  /\ Update(s, Absent)
  /\ holders' = holders \ {s}
  /\ wire' = {w \in wire : w[1][1] # s}
  /\ UNCHANGED <<client, replies>>

(***************************************************************************)
(* The server: execServer(), ProcessServer.run() and main()                *)
(***************************************************************************)

Bind(s) ==
  /\ srv[s].at = "exec"
  /\ sockfile' = s
  /\ Update(s, [srv[s] EXCEPT !.at = "init"])
  /\ UNCHANGED <<holders, contents, timeout, client, wire, replies>>

(* BBCooker() is there: "r" to the client, the pid to the lock file. *)
Ready(s) ==
  /\ srv[s].at = "init"
  /\ contents' = s
  /\ Update(s, [srv[s] EXCEPT !.at = "serve"])
  /\ replies' = Answer(srv[s].ready)
  /\ UNCHANGED <<holders, sockfile, timeout, client, wire>>

(* BBCooker() raised: the process ends, the socket stays. *)
NotReady(s) ==
  /\ srv[s].at = "init"
  /\ Gone(s)
  /\ UNCHANGED <<contents, sockfile, timeout>>

Accept_Replaces(s) ==
  LET r == srv[s] IN
  /\ r.at = "serve" /\ r.backlog # << >>
  /\ Update(s, [r EXCEPT !.backlog = << >>, !.controllersock = Head(r.backlog),
                         !.newconnections = @ \o Tail(r.backlog)])
  /\ UNCHANGED <<holders, contents, sockfile, timeout, client, wire, replies>>

Accept(s) ==
  LET r == srv[s] IN
  /\ r.at = "serve" /\ r.backlog # << >>
  /\ Update(s, IF r.controllersock = None
               THEN [r EXCEPT !.backlog = << >>, !.controllersock = Head(r.backlog),
                              !.newconnections = @ \o Tail(r.backlog)]
               ELSE [r EXCEPT !.backlog = << >>, !.newconnections = @ \o r.backlog])
  /\ UNCHANGED <<holders, contents, sockfile, timeout, client, wire, replies>>

(* recvfds() *)
Connected(s) ==
  LET r == srv[s] IN
  /\ r.at = "serve" /\ r.controllersock # None /\ ~r.haveui
  /\ Update(s, [r EXCEPT !.haveui = TRUE, !.hadanyui = TRUE])
  /\ UNCHANGED <<holders, contents, sockfile, timeout, client, wire, replies>>

(* A command in the channel of the client *)
RunCommand(s) ==
  LET r == srv[s] IN
  /\ r.at = "serve" /\ r.haveui
  /\ \E w \in wire :
       /\ w[1] = r.controllersock
       /\ wire' = wire \ {w}
       /\ IF w[2] = "terminateServer"
          THEN Update(s, [r EXCEPT !.at = "exiting"]) /\ UNCHANGED replies
          ELSE replies' = Answer(w[1]) /\ UNCHANGED srv
  /\ UNCHANGED <<holders, contents, sockfile, timeout, client>>

(* The rest of disconnect_client(): the last that was queued is the next. *)
AfterClient(r) ==
  IF r.newconnections # << >>
  THEN [r EXCEPT !.controllersock = Last(r.newconnections), !.newconnections = Front(@), !.haveui = FALSE]
  ELSE IF timeout = "none" /\ r.backlog = << >>
  THEN [r EXCEPT !.controllersock = None, !.haveui = FALSE, !.at = "exiting"]
  ELSE [r EXCEPT !.controllersock = None, !.haveui = FALSE]

(* disconnect_client(): the client has closed its end.  The socket is      *)
(* looked at before the channel, and what the channel still holds is lost. *)
Disconnect(s) ==
  LET r == srv[s]
      k == r.controllersock IN
  /\ r.at = "serve" /\ k # None /\ ~Open(k)
  /\ Update(s, AfterClient(r))
  /\ wire' = {w \in wire : w[1] # k}
  /\ UNCHANGED <<holders, contents, sockfile, timeout, client, replies>>

TimeOut_OnlySet(s) ==
  /\ srv[s].at = "serve" /\ timeout = "some" /\ ~srv[s].haveui
  /\ Update(s, [srv[s] EXCEPT !.at = "exiting"])
  /\ UNCHANGED <<holders, contents, sockfile, timeout, client, wire, replies>>

(* Server timeout, no first client within maxuiwait, or an idle function   *)
(* that raised                                                             *)
TimeOut(s) ==
  LET r == srv[s] IN
  /\ r.at = "serve"
  /\ \/ timeout = "some" /\ ~r.haveui
     \/ timeout = "none" /\ ~r.hadanyui
  /\ Update(s, [r EXCEPT !.at = "exiting"])
  /\ UNCHANGED <<holders, contents, sockfile, timeout, client, wire, replies>>

IdleFails(s) ==
  /\ srv[s].at = "serve"
  /\ Update(s, [srv[s] EXCEPT !.at = "exiting"])
  /\ UNCHANGED <<holders, contents, sockfile, timeout, client, wire, replies>>

(* os.unlink(self.sockname), self.sock.close(): the connections that were  *)
(* not accepted are lost.                                                  *)
RemoveSocket(s) ==
  LET r == srv[s] IN
  /\ r.at = "exiting"
  /\ sockfile' = None
  /\ Update(s, [r EXCEPT !.at = "closing", !.backlog = << >>])
  /\ wire' = {w \in wire : w[1] \notin ToSet(r.backlog)}
  /\ UNCHANGED <<holders, contents, timeout, client, replies>>

CloseLock(s) ==
  /\ srv[s].at = "closing"
  /\ holders' = holders \ {s}
  /\ Update(s, [srv[s] EXCEPT !.at = "relock", !.lockcontents = contents])
  /\ UNCHANGED <<contents, sockfile, timeout, client, wire, replies>>

(* The lock is free: take it to remove the file. *)
Relock(s) ==
  /\ srv[s].at = "relock" /\ holders = {}
  /\ holders' = {s}
  /\ Update(s, [srv[s] EXCEPT !.at = "unlock"])
  /\ UNCHANGED <<contents, sockfile, timeout, client, wire, replies>>

Unlock(s) ==
  /\ srv[s].at = "unlock"
  /\ Gone(s)
  /\ contents' = None
  /\ UNCHANGED <<sockfile, timeout>>

(* Lockfile now contains different contents *)
Superseded(s) ==
  /\ srv[s].at = "relock" /\ holders # {}
  /\ contents # srv[s].lockcontents
  /\ Gone(s)
  /\ UNCHANGED <<contents, sockfile, timeout>>

Crash(s) ==
  /\ MayCrash /\ srv[s].at # "none"
  /\ Gone(s)
  /\ UNCHANGED <<contents, sockfile, timeout>>

(***************************************************************************)
(* Clients: setup_bitbake()                                                *)
(***************************************************************************)

Goto(c, at) == pc' = [pc EXCEPT ![c] = at]

(* What was raised is caught, until the attempts are used up. *)
Retry(c) ==
  /\ on' = [on EXCEPT ![c] = None]
  /\ IF retries[c] > 0
     THEN retries' = [retries EXCEPT ![c] = @ - 1] /\ Goto(c, "lock")
     ELSE UNCHANGED retries /\ Goto(c, "fatal")

Start(c) ==
  /\ pc[c] = "idle"
  /\ Goto(c, "lock")
  /\ UNCHANGED <<holders, contents, sockfile, srv, timeout, retries, on, wire, replies>>

(* lockBitbake() got the lock. *)
Lock(c) ==
  /\ pc[c] = "lock" /\ holders = {}
  /\ holders' = {c}
  /\ Goto(c, "spawn")
  /\ UNCHANGED <<contents, sockfile, srv, timeout, retries, on, wire, replies>>

(* "bitbake server is not running." *)
NotRunning(c) ==
  /\ pc[c] = "spawn" /\ Role[c] \in {"status", "kill"}
  /\ holders' = holders \ {c}
  /\ Goto(c, "done")
  /\ UNCHANGED <<contents, sockfile, srv, timeout, retries, on, wire, replies>>

Spawn_Unlocks(c) ==
  /\ pc[c] = "spawn" /\ Role[c] \in {"ui", "server"}
  /\ \E s \in Servers :
       LET k == <<s, c, retries[c]>> IN
       /\ srv[s].at = "none" /\ \A d \in Clients : on[d] # None => on[d][1] # s
       /\ Update(s, [Absent EXCEPT !.at = "exec", !.ready = k])
       /\ holders' = {}
       /\ on' = [on EXCEPT ![c] = k]
  /\ Goto(c, "ready")
  /\ UNCHANGED <<contents, sockfile, timeout, retries, wire, replies>>

(* BitBakeServer(): the server has the file open, and the client closes it *)
(* without an unlockfile().                                                *)
Spawn(c) ==
  /\ pc[c] = "spawn" /\ Role[c] \in {"ui", "server"}
  /\ \E s \in Servers :
       LET k == <<s, c, retries[c]>> IN
       /\ srv[s].at = "none" /\ \A d \in Clients : on[d] # None => on[d][1] # s
       /\ Update(s, [Absent EXCEPT !.at = "exec", !.ready = k])
       /\ holders' = {s}
       /\ on' = [on EXCEPT ![c] = k]
  /\ Goto(c, "ready")
  /\ UNCHANGED <<contents, sockfile, timeout, retries, wire, replies>>

(* The server said "r"; or it closed the pipe, or did not within 95s.      *)
Spawned(c) ==
  /\ pc[c] = "ready" /\ on[c] \in replies
  /\ Goto(c, IF Role[c] = "server" THEN "done" ELSE "connect")
  /\ on' = [on EXCEPT ![c] = None]
  /\ replies' = replies \ {on[c]}
  /\ UNCHANGED <<holders, contents, sockfile, srv, timeout, retries, wire>>

SpawnFails(c) ==
  /\ pc[c] = "ready" /\ on[c] \notin replies
  /\ Retry(c)
  /\ UNCHANGED <<holders, contents, sockfile, srv, timeout, wire, replies>>

(* lockBitbake() did not get the lock. *)
Busy(c) ==
  /\ pc[c] = "lock" /\ holders # {}
  /\ IF sockfile = None
     THEN Goto(c, "await")
     ELSE Goto(c, IF Role[c] = "server" THEN "done" ELSE "connect")
  /\ UNCHANGED <<holders, contents, sockfile, srv, timeout, retries, on, wire, replies>>

(* "Previous bitbake instance shutting down?": wait for the lock, remove   *)
(* the lock file, try again; or try again after some time.                 *)
AwaitLock(c) ==
  /\ pc[c] = "await" /\ holders = {}
  /\ holders' = {c}
  /\ Goto(c, "unlock")
  /\ UNCHANGED <<contents, sockfile, srv, timeout, retries, on, wire, replies>>

Unlocked(c) ==
  /\ pc[c] = "unlock"
  /\ holders' = {}
  /\ contents' = None
  /\ Retry(c)
  /\ UNCHANGED <<sockfile, srv, timeout, wire, replies>>

AwaitTimesOut(c) ==
  /\ pc[c] = "await"
  /\ Retry(c)
  /\ UNCHANGED <<holders, contents, sockfile, srv, timeout, wire, replies>>

(* connectProcessServer(): connect(), sendfds(), setFeatures *)
Connect(c) ==
  /\ pc[c] = "connect"
  /\ CanConnect
  /\ LET k == <<sockfile, c, retries[c]>> IN
       /\ Update(sockfile, [srv[sockfile] EXCEPT !.backlog = Append(@, k)])
       /\ on' = [on EXCEPT ![c] = k]
       /\ wire' = wire \cup {<<k, "setFeatures">>}
  /\ Goto(c, "sent")
  /\ UNCHANGED <<holders, contents, sockfile, timeout, retries, replies>>

ConnectFails_Unlinks(c) ==
  /\ pc[c] = "connect" /\ ~CanConnect
  /\ sockfile' = None
  /\ Retry(c)
  /\ UNCHANGED <<holders, contents, srv, timeout, wire, replies>>

(* No socket, nobody who listens, or no room for the connection *)
ConnectFails(c) ==
  /\ pc[c] = "connect"
  /\ ~CanConnect
  /\ Retry(c)
  /\ UNCHANGED <<holders, contents, sockfile, srv, timeout, wire, replies>>

(* No reply within 60s, or end of file *)
NoReply(c) ==
  /\ pc[c] = "sent" /\ on[c] \notin replies
  /\ Retry(c)
  /\ UNCHANGED <<holders, contents, sockfile, srv, timeout, wire, replies>>

(* The reply: the user interface runs, or the server is told to end. *)
Reply(c) ==
  /\ pc[c] = "sent" /\ on[c] \in replies
  /\ replies' = replies \ {on[c]}
  /\ IF Role[c] = "ui"
     THEN Goto(c, "ui") /\ UNCHANGED <<on, wire>>
     ELSE /\ Goto(c, "done")
          /\ on' = [on EXCEPT ![c] = None]
          /\ wire' = IF Role[c] = "kill" THEN wire \cup {<<on[c], "terminateServer">>} ELSE wire
  /\ UNCHANGED <<holders, contents, sockfile, srv, timeout, retries>>

(* The user interface ends, or the process is killed. *)
Leave(c) ==
  /\ pc[c] \in {"ui", "sent", "ready"}
  /\ Goto(c, "done")
  /\ on' = [on EXCEPT ![c] = None]
  /\ replies' = replies \ {on[c]}
  /\ UNCHANGED <<holders, contents, sockfile, srv, timeout, retries, wire>>

ServerStep(s) ==
  \/ Bind(s) \/ Ready(s) \/ NotReady(s)
  \/ Accept(s) \/ Connected(s) \/ RunCommand(s) \/ Disconnect(s) \/ TimeOut(s)
  \/ RemoveSocket(s) \/ CloseLock(s) \/ Relock(s) \/ Unlock(s) \/ Superseded(s)

ClientStep(c) ==
  \/ Lock(c) \/ NotRunning(c) \/ Spawn(c) \/ Spawned(c) \/ SpawnFails(c)
  \/ Busy(c) \/ AwaitLock(c) \/ Unlocked(c) \/ AwaitTimesOut(c)
  \/ Connect(c) \/ ConnectFails(c) \/ NoReply(c) \/ Reply(c)

Next ==
  \/ \E s \in Servers : ServerStep(s) \/ IdleFails(s) \/ Crash(s)
  \/ \E c \in Clients : Start(c) \/ ClientStep(c) \/ Leave(c)

Spec == Init /\ [][Next]_vars

(* Processes run; a user interface may run for ever. *)
FairSpec ==
  /\ Spec
  /\ \A s \in Servers : WF_vars(ServerStep(s))
  /\ \A c \in Clients : WF_vars(ClientStep(c))

(***************************************************************************)
(* Properties                                                              *)
(***************************************************************************)

TypeOK ==
  /\ holders \subseteq Clients \cup Servers
  /\ contents \in Servers \cup {None}
  /\ sockfile \in Servers \cup {None}
  /\ srv \in [Servers ->
       [at : Phases, ready : Connections \cup {None}, controllersock : Connections \cup {None}, haveui : BOOLEAN, hadanyui : BOOLEAN,
        backlog : Seq(Connections), newconnections : Seq(Connections), lockcontents : Servers \cup {None}]]
  /\ timeout \in Timeouts
  /\ pc \in [Clients -> {"idle", "lock", "spawn", "ready", "await", "unlock", "connect", "sent", "ui", "done", "fatal"}]
  /\ retries \in [Clients -> 0..Retries]
  /\ on \in [Clients -> Connections \cup {None}]
  /\ wire \subseteq Connections \X {"setFeatures", "terminateServer"}
  /\ replies \subseteq Connections

(* One server at a time has the build directory, from its start until the  *)
(* socket is removed, although servers that are about to end are still     *)
(* there and others were killed.                                           *)
OneServer ==
  \A s, t \in Servers :
    srv[s].at \in {"exec", "init", "serve", "exiting", "closing"} /\ srv[t].at \in {"exec", "init", "serve", "exiting", "closing"}
      => s = t

(* bitbake.sock is the socket of the server that serves: nobody removes it *)
(* or binds another one to it.                                             *)
SocketServed == \A s \in Servers : Listening(s) => sockfile = s

(* A client that runs its user interface is the one its server serves,     *)
(* whoever connected before and gave up, or waits in the queue.            *)
ServedClient ==
  \A c \in Clients : pc[c] = "ui" =>
    LET r == srv[on[c][1]] IN r.at # "none" => r.controllersock = on[c] /\ r.haveui

(* Without an endless timeout no server is left when no client comes or    *)
(* stays: neither in its main loop nor in the one that waits for the lock. *)
ServersEnd ==
  timeout # "never" =>
    (<>[](\A c \in Clients : pc[c] \in {"idle", "done", "fatal"}) => <>[](\A s \in Servers : srv[s].at = "none"))

=============================================================================
