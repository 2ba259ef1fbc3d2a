------------------------- MODULE ProcessServerProofs -------------------------
(***************************************************************************)
(* Proofs about ProcessServer: one server at a time has the build          *)
(* directory, bitbake.sock is its socket, and it serves the client that    *)
(* runs its user interface.                                                *)
(*                                                                         *)
(* Whoever has bitbake.lock, and only that one, starts a server, is a      *)
(* server that has not yet removed its socket, or removes the lock file.   *)
(***************************************************************************)
EXTENDS ProcessServer, TLAPS

ServerType ==
  [at : Phases, ready : Connections \cup {None}, controllersock : Connections \cup {None}, haveui : BOOLEAN, hadanyui : BOOLEAN,
   backlog : Seq(Connections), newconnections : Seq(Connections), lockcontents : Servers \cup {None}]

PCs == {"idle", "lock", "spawn", "ready", "await", "unlock", "connect", "sent", "ui", "done", "fatal"}

(* The part of TypeOK that the proof needs. *)
Shape ==
  /\ contents \in Servers \cup {None} /\ sockfile \in Servers \cup {None}
  /\ srv \in [Servers -> ServerType]
  /\ pc \in [Clients -> PCs]
  /\ retries \in [Clients -> 0..Retries]

(* The phases in which a server has the lock. *)
Owning == {"exec", "init", "serve", "exiting", "closing", "unlock"}

Elected ==
  /\ \A s \in Servers : srv[s].at \in Owning => s \in holders
  /\ \A c \in Clients : pc[c] \in {"spawn", "unlock"} => c \in holders
  /\ \A p, q \in holders : p = q

----------------------------------------------------------------------------
(* The shape of the state.                                                 *)

LEMMA UpdateType ==
  ASSUME Shape, NEW s \in Servers, NEW r \in ServerType, Update(s, r)
  PROVE  srv' \in [Servers -> ServerType]
BY DEF Shape, Update

LEMMA AbsentType == Absent \in ServerType
BY DEF Absent, ServerType, Phases

LEMMA GoneType ==
  ASSUME Shape, NEW s \in Servers, Gone(s)
  PROVE  srv' \in [Servers -> ServerType] /\ UNCHANGED client
BY UpdateType, AbsentType DEF Gone

LEMMA SeqType ==
  ASSUME NEW S, NEW q \in Seq(S), q # << >>
  PROVE  Head(q) \in S /\ Tail(q) \in Seq(S) /\ Last(q) \in S /\ Front(q) \in Seq(S)
BY DEF Last, Front

LEMMA AfterClientType ==
  ASSUME NEW r \in ServerType PROVE AfterClient(r) \in ServerType
<1>1. CASE r.newconnections # << >>
  <2>1. Last(r.newconnections) \in Connections /\ Front(r.newconnections) \in Seq(Connections)
    BY <1>1, SeqType DEF ServerType
  <2> QED
    BY <1>1, <2>1 DEF AfterClient, ServerType
<1>2. CASE r.newconnections = << >>
  BY <1>2 DEF AfterClient, ServerType, Phases
<1> QED
  BY <1>1, <1>2

LEMMA AcceptType ==
  ASSUME Shape, NEW s \in Servers, Accept(s) PROVE srv' \in [Servers -> ServerType]
<1> DEFINE r == srv[s]
<1>1. /\ r \in ServerType
      /\ Head(r.backlog) \in Connections /\ Tail(r.backlog) \in Seq(Connections)
  BY SeqType DEF Shape, Accept, ServerType
<1>2. << >> \in Seq(Connections)
  OBVIOUS
<1>3. /\ r.newconnections \o Tail(r.backlog) \in Seq(Connections)
      /\ r.newconnections \o r.backlog \in Seq(Connections)
  BY <1>1 DEF ServerType
<1>4. [r EXCEPT !.backlog = << >>, !.controllersock = Head(r.backlog),
                !.newconnections = @ \o Tail(r.backlog)] \in ServerType
  BY <1>1, <1>2, <1>3 DEF ServerType
<1>5. [r EXCEPT !.backlog = << >>, !.newconnections = @ \o r.backlog] \in ServerType
  BY <1>1, <1>2, <1>3 DEF ServerType
<1> QED
  BY <1>4, <1>5, UpdateType DEF Accept

LEMMA ConnectType ==
  ASSUME Shape, NEW c \in Clients, Connect(c) PROVE srv' \in [Servers -> ServerType]
<1> DEFINE k == <<sockfile, c, retries[c]>>
<1>1. sockfile \in Servers
  BY DEF Shape, Connect, CanConnect
<1>2. k \in Connections
  BY <1>1 DEF Shape, Connections
<1>3. srv[sockfile] \in ServerType
  BY <1>1 DEF Shape
<1>4. Append(srv[sockfile].backlog, k) \in Seq(Connections)
  BY <1>2, <1>3 DEF ServerType
<1>5. [srv[sockfile] EXCEPT !.backlog = Append(@, k)] \in ServerType
  BY <1>3, <1>4 DEF ServerType
<1> QED
  BY <1>1, <1>5, UpdateType DEF Connect

LEMMA SpawnType ==
  ASSUME Shape, NEW c \in Clients, Spawn(c) PROVE srv' \in [Servers -> ServerType]
<1>1. PICK s \in Servers : Update(s, [Absent EXCEPT !.at = "exec", !.ready = <<s, c, retries[c]>>])
  BY DEF Spawn
<1>2. <<s, c, retries[c]>> \in Connections
  BY DEF Shape, Connections
<1>3. [Absent EXCEPT !.at = "exec", !.ready = <<s, c, retries[c]>>] \in ServerType
  BY <1>2, AbsentType DEF ServerType, Phases
<1> QED
  BY <1>1, <1>3, UpdateType

LEMMA RetryType ==
  ASSUME Shape, NEW c \in Clients, Retry(c)
  PROVE  pc' \in [Clients -> PCs] /\ retries' \in [Clients -> 0..Retries]
BY ServerAssumption DEF Shape, Retry, Goto, PCs

LEMMA ShapeServer ==
  ASSUME Shape, NEW s \in Servers, ServerStep(s) \/ IdleFails(s) \/ Crash(s) PROVE Shape'
<1> DEFINE r == srv[s]
<1>0. r \in ServerType
  BY DEF Shape
<1>1. CASE Bind(s)
  <2>1. [r EXCEPT !.at = "init"] \in ServerType
    BY <1>0 DEF ServerType, Phases
  <2> QED
    BY <1>1, <2>1, UpdateType DEF Shape, Bind, client
<1>2. CASE Ready(s)
  <2>1. [r EXCEPT !.at = "serve"] \in ServerType
    BY <1>0 DEF ServerType, Phases
  <2> QED
    BY <1>2, <2>1, UpdateType DEF Shape, Ready, client
<1>3. CASE NotReady(s) \/ Superseded(s) \/ Crash(s)
  BY <1>3, GoneType DEF Shape, NotReady, Superseded, Crash, client
<1>4. CASE Accept(s)
  BY <1>4, AcceptType DEF Shape, Accept, client
<1>5. CASE Connected(s)
  <2>1. [r EXCEPT !.haveui = TRUE, !.hadanyui = TRUE] \in ServerType
    BY <1>0 DEF ServerType
  <2> QED
    BY <1>5, <2>1, UpdateType DEF Shape, Connected, client
<1>6. CASE RunCommand(s) \/ TimeOut(s) \/ IdleFails(s)
  <2>1. [r EXCEPT !.at = "exiting"] \in ServerType
    BY <1>0 DEF ServerType, Phases
  <2> QED
    BY <1>6, <2>1, UpdateType DEF Shape, RunCommand, TimeOut, IdleFails, client
<1>7. CASE Disconnect(s)
  BY <1>0, <1>7, UpdateType, AfterClientType DEF Shape, Disconnect, client
<1>8. CASE RemoveSocket(s)
  <2>1. << >> \in Seq(Connections)
    OBVIOUS
  <2>2. [r EXCEPT !.at = "closing", !.backlog = << >>] \in ServerType
    BY <1>0, <2>1 DEF ServerType, Phases
  <2> QED
    BY <1>8, <2>2, UpdateType DEF Shape, RemoveSocket, client
<1>9. CASE CloseLock(s)
  <2>1. [r EXCEPT !.at = "relock", !.lockcontents = contents] \in ServerType
    BY <1>0 DEF Shape, ServerType, Phases
  <2> QED
    BY <1>9, <2>1, UpdateType DEF Shape, CloseLock, client
<1>10. CASE Relock(s)
  <2>1. [r EXCEPT !.at = "unlock"] \in ServerType
    BY <1>0 DEF ServerType, Phases
  <2> QED
    BY <1>10, <2>1, UpdateType DEF Shape, Relock, client
<1>11. CASE Unlock(s)
  BY <1>11, GoneType DEF Shape, Unlock, client
<1> QED
  BY <1>1, <1>2, <1>3, <1>4, <1>5, <1>6, <1>7, <1>8, <1>9, <1>10, <1>11 DEF ServerStep

LEMMA ShapeClient ==
  ASSUME Shape, NEW c \in Clients, Start(c) \/ ClientStep(c) \/ Leave(c) PROVE Shape'
<1>1. CASE Start(c) \/ Lock(c) \/ NotRunning(c) \/ Spawned(c) \/ Busy(c) \/ AwaitLock(c) \/ Reply(c) \/ Leave(c)
  BY <1>1 DEF Shape, Goto, PCs, Start, Lock, NotRunning, Spawned, Busy, AwaitLock, Reply, Leave
<1>2. CASE SpawnFails(c) \/ Unlocked(c) \/ AwaitTimesOut(c) \/ ConnectFails(c) \/ NoReply(c)
  BY <1>2, RetryType DEF Shape, SpawnFails, Unlocked, AwaitTimesOut, ConnectFails, NoReply
<1>3. CASE Spawn(c)
  BY <1>3, SpawnType DEF Shape, Spawn, Goto, PCs
<1>4. CASE Connect(c)
  BY <1>4, ConnectType DEF Shape, Connect, Goto, PCs
<1> QED
  BY <1>1, <1>2, <1>3, <1>4 DEF ClientStep

LEMMA ShapeInit == Init => Shape
BY AbsentType, ServerAssumption DEF Init, Shape, PCs

----------------------------------------------------------------------------
(* Election.                                                               *)

(* A process that has the lock is the only one.                            *)
LEMMA Alone ==
  ASSUME Elected, NEW p \in holders
  PROVE  /\ \A s \in Servers : srv[s].at \in Owning => s = p
         /\ \A c \in Clients : pc[c] \in {"spawn", "unlock"} => c = p
         /\ holders = {p}
BY DEF Elected

(* A server that goes from one phase to another, without the lock if it    *)
(* had none.                                                               *)
LEMMA Moves ==
  ASSUME Shape, Elected, NEW s \in Servers, UNCHANGED <<holders, pc>>,
         \A t \in Servers \ {s} : srv'[t] = srv[t],
         srv'[s].at \in Owning => srv[s].at \in Owning
  PROVE  Elected'
BY DEF Elected

(* A server that gives up the lock, or its life.                           *)
LEMMA Leaves ==
  ASSUME Shape, Elected, NEW s \in Servers, holders' = holders \ {s}, UNCHANGED pc,
         \A t \in Servers \ {s} : srv'[t] = srv[t],
         srv'[s].at \notin Owning
  PROVE  Elected'
BY ServerAssumption DEF Elected

LEMMA Others ==
  ASSUME Shape, NEW s \in Servers, NEW r, Update(s, r)
  PROVE  srv'[s] = r /\ \A t \in Servers \ {s} : srv'[t] = srv[t]
BY DEF Shape, Update

LEMMA ElectedServer ==
  ASSUME Shape, Elected, NEW s \in Servers, ServerStep(s) \/ IdleFails(s) \/ Crash(s)
  PROVE  Elected'
<1> DEFINE r == srv[s]
<1>0. r \in ServerType
  BY DEF Shape
<1>1. CASE \/ Bind(s) \/ Ready(s) \/ Accept(s) \/ Connected(s) \/ RunCommand(s)
           \/ Disconnect(s) \/ TimeOut(s) \/ IdleFails(s) \/ RemoveSocket(s)
  <2>1. UNCHANGED <<holders, pc>> /\ srv[s].at \in Owning
    BY <1>1 DEF Owning, client, Bind, Ready, Accept, Connected, RunCommand, Disconnect,
       TimeOut, IdleFails, RemoveSocket
  <2>2. \A t \in Servers \ {s} : srv'[t] = srv[t]
    BY <1>1, Others DEF Bind, Ready, Accept, Connected, RunCommand, Disconnect, TimeOut,
       IdleFails, RemoveSocket
  <2> QED
    BY <2>1, <2>2, Moves
<1>2. CASE NotReady(s) \/ Superseded(s) \/ Crash(s) \/ Unlock(s)
  <2>1. holders' = holders \ {s} /\ UNCHANGED pc /\ Update(s, Absent)
    BY <1>2 DEF NotReady, Superseded, Crash, Unlock, Gone, client
  <2>2. Absent.at \notin Owning
    BY DEF Absent, Owning
  <2> QED
    BY <2>1, <2>2, Others, Leaves
<1>3. CASE CloseLock(s)
  <2>1. [r EXCEPT !.at = "relock", !.lockcontents = contents].at \notin Owning
    BY <1>0 DEF ServerType, Owning
  <2> QED
    BY <1>3, <2>1, Others, Leaves DEF CloseLock, client
<1>4. CASE Relock(s)
  <2>1. /\ \A t \in Servers : srv[t].at \notin Owning
        /\ \A c \in Clients : pc[c] \notin {"spawn", "unlock"}
    BY <1>4 DEF Relock, Elected
  <2>2. holders' = {s} /\ UNCHANGED pc /\ \A t \in Servers \ {s} : srv'[t] = srv[t]
    BY <1>4, Others DEF Relock, client
  <2> QED
    BY <2>1, <2>2 DEF Elected
<1> QED
  BY <1>1, <1>2, <1>3, <1>4 DEF ServerStep

LEMMA ElectedClient ==
  ASSUME Shape, Elected, NEW c \in Clients, Start(c) \/ ClientStep(c) \/ Leave(c)
  PROVE  Elected'
<1>1. CASE \/ Start(c) \/ Spawned(c) \/ SpawnFails(c) \/ Busy(c) \/ AwaitTimesOut(c)
           \/ ConnectFails(c) \/ NoReply(c) \/ Reply(c) \/ Leave(c)
  <2>1. UNCHANGED <<holders, srv>>
    BY <1>1 DEF Start, Spawned, SpawnFails, Busy, AwaitTimesOut, ConnectFails, NoReply, Reply, Leave
  <2>2. \A d \in Clients : pc'[d] \in {"spawn", "unlock"} => pc'[d] = pc[d]
    BY <1>1 DEF Shape, Goto, Retry, Start, Spawned, SpawnFails, Busy, AwaitTimesOut,
       ConnectFails, NoReply, Reply, Leave
  <2> QED
    BY <2>1, <2>2 DEF Elected
<1>2. CASE Lock(c) \/ AwaitLock(c)
  <2>1. /\ \A t \in Servers : srv[t].at \notin Owning
        /\ \A d \in Clients : pc[d] \notin {"spawn", "unlock"}
    BY <1>2 DEF Lock, AwaitLock, Elected
  <2>2. holders' = {c} /\ UNCHANGED srv /\ \A d \in Clients \ {c} : pc'[d] = pc[d]
    BY <1>2 DEF Lock, AwaitLock, Shape, Goto
  <2> QED
    BY <2>1, <2>2 DEF Elected
<1>3. CASE NotRunning(c) \/ Unlocked(c)
  <2>1. c \in holders
    BY <1>3 DEF NotRunning, Unlocked, Elected
  <2>2. holders' = {} /\ UNCHANGED srv
    BY <1>3, <2>1, Alone DEF NotRunning, Unlocked
  <2>3. pc'[c] \notin {"spawn", "unlock"} /\ \A d \in Clients \ {c} : pc'[d] = pc[d]
    BY <1>3 DEF NotRunning, Unlocked, Retry, Goto, Shape
  <2> QED
    BY <2>1, <2>2, <2>3, Alone, ServerAssumption DEF Elected
<1>4. CASE Spawn(c)
  <2>1. PICK s \in Servers : holders' = {s} /\ Update(s, [Absent EXCEPT !.at = "exec", !.ready = <<s, c, retries[c]>>])
    BY <1>4 DEF Spawn
  <2>2. c \in holders
    BY <1>4 DEF Spawn, Elected
  <2>3. pc'[c] \notin {"spawn", "unlock"} /\ \A d \in Clients \ {c} : pc'[d] = pc[d]
    BY <1>4 DEF Spawn, Goto, Shape
  <2>4. \A t \in Servers \ {s} : srv'[t] = srv[t]
    BY <2>1, Others
  <2> QED
    BY <2>1, <2>2, <2>3, <2>4, Alone, ServerAssumption DEF Elected
<1>5. CASE Connect(c)
  <2>1. sockfile \in Servers /\ UNCHANGED holders
    BY <1>5 DEF Connect, CanConnect, Shape
  <2>2. \A t \in Servers : srv'[t].at = srv[t].at
    BY <1>5, <2>1 DEF Connect, Update, Shape, ServerType
  <2>3. \A d \in Clients : pc'[d] \in {"spawn", "unlock"} => pc'[d] = pc[d]
    BY <1>5 DEF Connect, Goto, Shape
  <2> QED
    BY <2>1, <2>2, <2>3 DEF Elected
<1> QED
  BY <1>1, <1>2, <1>3, <1>4, <1>5 DEF ClientStep

LEMMA Election == Spec => [](Shape /\ Elected)
<1>1. Init => Shape /\ Elected
  BY ShapeInit DEF Init, Elected, Absent, Owning
<1>2. Shape /\ Elected /\ [Next]_vars => (Shape /\ Elected)'
  <2> SUFFICES ASSUME Shape, Elected, [Next]_vars PROVE Shape' /\ Elected'
    OBVIOUS
  <2>1. CASE UNCHANGED vars
    BY <2>1 DEF vars, client, Shape, Elected
  <2>2. CASE Next
    BY <2>2, ShapeServer, ShapeClient, ElectedServer, ElectedClient DEF Next
  <2> QED
    BY <2>1, <2>2
<1> QED
  BY <1>1, <1>2, PTL DEF Spec

(* At most one server has the build directory, whatever dies. *)
THEOREM Singleton == Spec => []OneServer
<1>1. Shape /\ Elected => OneServer
  BY DEF Elected, OneServer, Owning
<1> QED
  BY <1>1, Election, PTL

----------------------------------------------------------------------------
(* The socket.                                                             *)

LEMMA ServedServer ==
  ASSUME Shape, Elected, SocketServed, NEW s \in Servers, ServerStep(s) \/ IdleFails(s) \/ Crash(s)
  PROVE  SocketServed'
<1> DEFINE r == srv[s]
<1>0. r \in ServerType
  BY DEF Shape
<1>1. CASE Bind(s)
  <2>1. sockfile' = s /\ s \in holders
    BY <1>1 DEF Bind, Elected, Owning
  <2>2. \A t \in Servers \ {s} : srv[t].at \notin Owning
    BY <2>1, Alone
  <2>3. \A t \in Servers \ {s} : srv'[t] = srv[t]
    BY <1>1, Others DEF Bind
  <2> QED
    BY <2>1, <2>2, <2>3 DEF SocketServed, Listening, Owning
<1>2. CASE RemoveSocket(s)
  <2>1. s \in holders
    BY <1>2 DEF RemoveSocket, Elected, Owning
  <2>2. \A t \in Servers \ {s} : srv[t].at \notin Owning
    BY <2>1, Alone
  <2>3. \A t \in Servers \ {s} : srv'[t] = srv[t]
    BY <1>2, Others DEF RemoveSocket
  <2>4. srv'[s].at = "closing"
    <3>1. srv'[s] = [r EXCEPT !.at = "closing", !.backlog = << >>]
      BY <1>2, Others DEF RemoveSocket
    <3> QED
      BY <1>0, <3>1 DEF ServerType
  <2> QED
    BY <2>2, <2>3, <2>4 DEF SocketServed, Listening, Owning
<1>3. CASE ~Bind(s) /\ ~RemoveSocket(s)
  <2>1. sockfile' = sockfile
    BY <1>3 DEF ServerStep, Ready, NotReady, Accept, Connected, RunCommand, Disconnect,
       TimeOut, CloseLock, Relock, Unlock, Superseded, IdleFails, Crash
  <2>2. \A t \in Servers \ {s} : srv'[t] = srv[t]
    BY <1>3, Others DEF ServerStep, Ready, NotReady, Accept, Connected, RunCommand,
       Disconnect, TimeOut, CloseLock, Relock, Unlock, Superseded, IdleFails, Crash, Gone
  <2>3. Listening(s)' => Listening(s)
    <3>1. CASE Listening(s)
      BY <3>1
    <3>2. CASE NotReady(s) \/ Unlock(s) \/ Superseded(s) \/ Crash(s)
      <4>1. srv'[s] = Absent
        BY <3>2, Others DEF NotReady, Unlock, Superseded, Crash, Gone
      <4> QED
        BY <4>1 DEF Absent, Listening
    <3>3. CASE CloseLock(s)
      <4>1. srv'[s] = [r EXCEPT !.at = "relock", !.lockcontents = contents]
        BY <3>3, Others DEF CloseLock
      <4>2. srv'[s].at = "relock"
        BY <1>0, <4>1 DEF ServerType
      <4> QED
        BY <4>2 DEF Listening
    <3>4. CASE Relock(s)
      <4>1. srv'[s] = [r EXCEPT !.at = "unlock"]
        BY <3>4, Others DEF Relock
      <4>2. srv'[s].at = "unlock"
        BY <1>0, <4>1 DEF ServerType
      <4> QED
        BY <4>2 DEF Listening
    <3>5. Ready(s) \/ Accept(s) \/ Connected(s) \/ RunCommand(s) \/ Disconnect(s) \/ TimeOut(s) \/ IdleFails(s) => Listening(s)
      BY DEF Ready, Accept, Connected, RunCommand, Disconnect, TimeOut, IdleFails, Listening
    <3> QED
      BY <1>3, <3>1, <3>2, <3>3, <3>4, <3>5 DEF ServerStep
  <2> QED
    BY <2>1, <2>2, <2>3 DEF SocketServed, Listening
<1> QED
  BY <1>1, <1>2, <1>3

LEMMA ServedByClient ==
  ASSUME Shape, Elected, SocketServed, NEW c \in Clients, Start(c) \/ ClientStep(c) \/ Leave(c)
  PROVE  SocketServed'
<1>1. sockfile' = sockfile
  BY DEF ClientStep, Start, Lock, NotRunning, Spawn, Spawned, SpawnFails, Busy, AwaitLock,
     Unlocked, AwaitTimesOut, Connect, ConnectFails, NoReply, Reply, Leave
<1>2. CASE Spawn(c)
  <2>1. PICK s \in Servers : Update(s, [Absent EXCEPT !.at = "exec", !.ready = <<s, c, retries[c]>>])
    BY <1>2 DEF Spawn
  <2>2. /\ srv'[s] = [Absent EXCEPT !.at = "exec", !.ready = <<s, c, retries[c]>>]
        /\ \A t \in Servers \ {s} : srv'[t] = srv[t]
    BY <2>1, Others
  <2>3. srv'[s].at = "exec"
    BY <2>2 DEF Absent
  <2> QED
    BY <1>1, <2>2, <2>3 DEF SocketServed, Listening
<1>3. CASE Connect(c)
  <2>1. sockfile \in Servers
    BY <1>3 DEF Connect, CanConnect, Shape
  <2>2. \A t \in Servers : srv'[t].at = srv[t].at
    BY <1>3, <2>1 DEF Connect, Update, Shape, ServerType
  <2> QED
    BY <1>1, <2>2 DEF SocketServed, Listening
<1>4. CASE ~Spawn(c) /\ ~Connect(c)
  <2>1. srv' = srv
    BY <1>4 DEF ClientStep, Start, Lock, NotRunning, Spawned, SpawnFails, Busy, AwaitLock,
       Unlocked, AwaitTimesOut, ConnectFails, NoReply, Reply, Leave
  <2> QED
    BY <1>1, <2>1 DEF SocketServed, Listening
<1> QED
  BY <1>2, <1>3, <1>4

(* The socket file is that of the server that listens, whatever dies. *)
THEOREM Served == Spec => []SocketServed
<1>1. Init => SocketServed
  BY DEF Init, SocketServed, Listening, Absent
<1>2. Shape /\ Elected /\ SocketServed /\ [Next]_vars => SocketServed'
  <2> SUFFICES ASSUME Shape, Elected, SocketServed, [Next]_vars PROVE SocketServed'
    OBVIOUS
  <2>1. CASE UNCHANGED vars
    BY <2>1 DEF vars, SocketServed, Listening
  <2>2. CASE Next
    BY <2>2, ServedServer, ServedByClient DEF Next
  <2> QED
    BY <2>1, <2>2
<1> QED
  BY <1>1, <1>2, Election, PTL DEF Spec

----------------------------------------------------------------------------
(* The client that is served.                                              *)

(* A process that a client started and that has not said "r": the client   *)
(* waits for it, or does something else from now on.                       *)
Spawner(k) ==
  LET c == k[2] IN
  \/ pc[c] = "ready" /\ on[c] = k
  \/ retries[c] < k[3]
  \/ pc[c] \in {"done", "fatal"}

HasConnection(c) == pc[c] \in {"ready", "sent", "ui"}

(* The server of c has taken c on, or is another one. *)
Attached(c) ==
  LET r == srv[on[c][1]] IN r.at # "none" => r.controllersock = on[c] /\ r.haveui

(* A connection carries the number of its attempt. *)
Numbered ==
  /\ on \in [Clients -> Connections \cup {None}]
  /\ \A c \in Clients :
       IF HasConnection(c) THEN on[c] \in Connections /\ on[c][2] = c /\ on[c][3] = retries[c] ELSE on[c] = None
  /\ wire \subseteq Connections \X {"setFeatures", "terminateServer"}

(* The connections to the socket of s, and to the process. *)
Own(s) == {k \in Connections : k[1] = s}

(* What was answered is read, or still can be. *)
Unread == \A k \in replies : k \in Connections /\ Open(k)

Spawners ==
  \A s \in Servers : srv[s].at \in {"exec", "init"} =>
    srv[s].ready \in Own(s) \ replies /\ Spawner(srv[s].ready)

Taken == \A c \in Clients : pc[c] = "ui" \/ (pc[c] = "sent" /\ on[c] \in replies) => Attached(c)

(* What a server accepted, and what waits, is a connection to it. *)
Queued(s, r) ==
  /\ r.backlog \in Seq(Own(s)) /\ r.newconnections \in Seq(Own(s))
  /\ r.controllersock \in Own(s) \cup {None}

Queues == \A s \in Servers : Queued(s, srv[s])

Linked == Numbered /\ Unread /\ Spawners /\ Queues /\ Taken

LEMMA ConnectionParts ==
  ASSUME NEW k \in Connections PROVE k[1] \in Servers /\ k[2] \in Clients /\ k[3] \in 0..Retries /\ k # None
BY ServerAssumption DEF Connections

(* A step of a server leaves an open connection that it serves alone. *)
LEMMA KeepsClient ==
  ASSUME Shape, NEW s \in Servers, ServerStep(s) \/ IdleFails(s) \/ Crash(s),
         NEW k \in Connections, Open(k), srv[s].controllersock = k, srv[s].haveui,
         srv'[s].at # "none"
  PROVE  srv'[s].controllersock = k /\ srv'[s].haveui
<1> DEFINE r == srv[s]
<1>0. r \in ServerType /\ k # None
  BY ConnectionParts DEF Shape
<1>1. CASE Bind(s)
  BY <1>0, <1>1, Others DEF Bind, ServerType
<1>2. CASE Ready(s)
  BY <1>0, <1>2, Others DEF Ready, ServerType
<1>3. CASE NotReady(s) \/ Superseded(s) \/ Crash(s) \/ Unlock(s)
  <2>1. Gone(s)
    BY <1>3 DEF NotReady, Superseded, Crash, Unlock
  <2> QED
    BY <2>1, Others DEF Gone, Absent
<1>4. CASE Accept(s)
  <2>1. Update(s, [r EXCEPT !.backlog = << >>, !.newconnections = @ \o r.backlog])
    BY <1>0, <1>4 DEF Accept
  <2> DEFINE new == [r EXCEPT !.backlog = << >>, !.newconnections = @ \o r.backlog]
  <2>2. new.controllersock = r.controllersock /\ new.haveui = r.haveui
    BY <1>0 DEF ServerType
  <2> HIDE DEF new
  <2>3. srv'[s] = new
    BY <2>1, Others DEF new
  <2> QED
    BY <2>2, <2>3
<1>5. CASE Connected(s)
  BY <1>0, <1>5, Others DEF Connected, ServerType
<1>6. CASE RunCommand(s) \/ TimeOut(s) \/ IdleFails(s)
  <2>1. Update(s, [r EXCEPT !.at = "exiting"]) \/ srv' = srv
    BY <1>6 DEF RunCommand, TimeOut, IdleFails
  <2> QED
    BY <1>0, <2>1, Others DEF ServerType
<1>7. CASE Disconnect(s)
  BY <1>7 DEF Disconnect
<1>8. CASE RemoveSocket(s)
  <2> DEFINE new == [r EXCEPT !.at = "closing", !.backlog = << >>]
  <2>1. new.controllersock = r.controllersock /\ new.haveui = r.haveui
    BY <1>0, <1>8 DEF RemoveSocket, ServerType
  <2> HIDE DEF new
  <2>2. srv'[s] = new
    BY <1>8, Others DEF RemoveSocket, new
  <2> QED
    BY <1>8, <2>1, <2>2
<1>9. CASE CloseLock(s)
  <2> DEFINE new == [r EXCEPT !.at = "relock", !.lockcontents = contents]
  <2>1. new.controllersock = r.controllersock /\ new.haveui = r.haveui
    BY <1>0, <1>9 DEF CloseLock, ServerType
  <2> HIDE DEF new
  <2>2. srv'[s] = new
    BY <1>9, Others DEF CloseLock, new
  <2> QED
    BY <1>9, <2>1, <2>2
<1>10. CASE Relock(s)
  BY <1>0, <1>10, Others DEF Relock, ServerType
<1> QED
  BY <1>1, <1>2, <1>3, <1>4, <1>5, <1>6, <1>7, <1>8, <1>9, <1>10 DEF ServerStep

(* Only a server that was started by a client that still waits is about to *)
(* say "r".                                                                *)
LEMMA Spawning ==
  ASSUME Shape, NEW s \in Servers, ServerStep(s) \/ IdleFails(s) \/ Crash(s), srv'[s].at \in {"exec", "init"}
  PROVE  srv'[s].ready = srv[s].ready /\ srv[s].at \in {"exec", "init"}
<1> DEFINE r == srv[s]
<1>0. r \in ServerType
  BY DEF Shape
<1>1. CASE Bind(s)
  BY <1>0, <1>1, Others DEF Bind, ServerType
<1>2. CASE Ready(s)
  BY <1>0, <1>2, Others DEF Ready, ServerType
<1>3. CASE NotReady(s) \/ Superseded(s) \/ Crash(s) \/ Unlock(s)
  <2>1. Gone(s)
    BY <1>3 DEF NotReady, Superseded, Crash, Unlock
  <2> QED
    BY <2>1, Others DEF Gone, Absent
<1>4. CASE Accept(s)
  <2> DEFINE new1 == [r EXCEPT !.backlog = << >>, !.controllersock = Head(r.backlog),
                               !.newconnections = @ \o Tail(r.backlog)]
             new2 == [r EXCEPT !.backlog = << >>, !.newconnections = @ \o r.backlog]
  <2>1. new1.at = "serve" /\ new2.at = "serve"
    BY <1>0, <1>4 DEF Accept, ServerType
  <2> HIDE DEF new1, new2
  <2>2. srv'[s] = new1 \/ srv'[s] = new2
    BY <1>4, Others DEF Accept, new1, new2
  <2> QED
    BY <2>1, <2>2
<1>5. CASE Connected(s)
  <2> DEFINE new == [r EXCEPT !.haveui = TRUE, !.hadanyui = TRUE]
  <2>1. new.at = "serve"
    BY <1>0, <1>5 DEF Connected, ServerType
  <2> HIDE DEF new
  <2>2. srv'[s] = new
    BY <1>5, Others DEF Connected, new
  <2> QED
    BY <2>1, <2>2
<1>6. CASE RunCommand(s) \/ TimeOut(s) \/ IdleFails(s)
  <2>1. Update(s, [r EXCEPT !.at = "exiting"]) \/ srv' = srv
    BY <1>6 DEF RunCommand, TimeOut, IdleFails
  <2> QED
    BY <1>0, <2>1, Others DEF ServerType
<1>7. CASE Disconnect(s)
  <2>1. r.at = "serve" /\ Update(s, AfterClient(r))
    BY <1>7 DEF Disconnect
  <2>2. AfterClient(r).at \in {"serve", "exiting"}
    BY <1>0, <2>1 DEF AfterClient, ServerType
  <2> QED
    BY <2>1, <2>2, Others
<1>8. CASE RemoveSocket(s)
  <2> DEFINE new == [r EXCEPT !.at = "closing", !.backlog = << >>]
  <2>1. new.at \notin {"exec", "init"}
    BY <1>0, <1>8 DEF RemoveSocket, ServerType
  <2> HIDE DEF new
  <2>2. srv'[s] = new
    BY <1>8, Others DEF RemoveSocket, new
  <2> QED
    BY <1>8, <2>1, <2>2
<1>9. CASE CloseLock(s)
  <2> DEFINE new == [r EXCEPT !.at = "relock", !.lockcontents = contents]
  <2>1. new.at \notin {"exec", "init"}
    BY <1>0, <1>9 DEF CloseLock, ServerType
  <2> HIDE DEF new
  <2>2. srv'[s] = new
    BY <1>9, Others DEF CloseLock, new
  <2> QED
    BY <1>9, <2>1, <2>2
<1>10. CASE Relock(s)
  BY <1>0, <1>10, Others DEF Relock, ServerType
<1> QED
  BY <1>1, <1>2, <1>3, <1>4, <1>5, <1>6, <1>7, <1>8, <1>9, <1>10 DEF ServerStep

LEMMA QueuesServer ==
  ASSUME Shape, Queues, NEW s \in Servers, ServerStep(s) \/ IdleFails(s) \/ Crash(s)
  PROVE  Queued(s, srv'[s])
<1> DEFINE r == srv[s]
<1>0. r \in ServerType /\ Queued(s, r)
  BY DEF Shape, Queues
<1>1. CASE Accept(s)
  <2> DEFINE new1 == [r EXCEPT !.backlog = << >>, !.controllersock = Head(r.backlog),
                               !.newconnections = @ \o Tail(r.backlog)]
             new2 == [r EXCEPT !.backlog = << >>, !.newconnections = @ \o r.backlog]
  <2>1. srv'[s] = new1 \/ srv'[s] = new2
    BY <1>1, Others DEF Accept
  <2>2. /\ new1.backlog = << >> /\ new1.controllersock = Head(r.backlog)
        /\ new1.newconnections = r.newconnections \o Tail(r.backlog)
        /\ new2.backlog = << >> /\ new2.controllersock = r.controllersock
        /\ new2.newconnections = r.newconnections \o r.backlog
    BY <1>0 DEF ServerType
  <2> HIDE DEF new1, new2
  <2>3. Head(r.backlog) \in Own(s) /\ Tail(r.backlog) \in Seq(Own(s))
    BY <1>0, <1>1, SeqType DEF Accept, Queued
  <2>4. << >> \in Seq(Own(s))
    OBVIOUS
  <2>5. /\ r.newconnections \o Tail(r.backlog) \in Seq(Own(s))
        /\ r.newconnections \o r.backlog \in Seq(Own(s))
    BY <1>0, <2>3 DEF Queued
  <2> QED
    BY <1>0, <2>1, <2>2, <2>3, <2>4, <2>5 DEF Queued
<1>2. CASE Disconnect(s)
  <2>1. srv'[s] = AfterClient(r)
    BY <1>2, Others DEF Disconnect
  <2>2. CASE r.newconnections # << >>
    <3>1. Last(r.newconnections) \in Own(s) /\ Front(r.newconnections) \in Seq(Own(s))
      BY <1>0, <2>2, SeqType DEF Queued
    <3>2. /\ AfterClient(r).controllersock = Last(r.newconnections)
          /\ AfterClient(r).newconnections = Front(r.newconnections)
          /\ AfterClient(r).backlog = r.backlog
      BY <1>0, <2>2 DEF AfterClient, ServerType
    <3> QED
      BY <1>0, <2>1, <3>1, <3>2 DEF Queued
  <2>3. CASE r.newconnections = << >>
    <3>1. /\ AfterClient(r).controllersock = None
          /\ AfterClient(r).newconnections = r.newconnections
          /\ AfterClient(r).backlog = r.backlog
      BY <1>0, <2>3 DEF AfterClient, ServerType
    <3> QED
      BY <1>0, <2>1, <3>1 DEF Queued
  <2> QED
    BY <2>2, <2>3
<1>3. CASE NotReady(s) \/ Superseded(s) \/ Crash(s) \/ Unlock(s)
  <2>1. srv'[s] = Absent
    BY <1>3, Others DEF NotReady, Superseded, Crash, Unlock, Gone
  <2>2. << >> \in Seq(Own(s))
    OBVIOUS
  <2> QED
    BY <2>1, <2>2 DEF Absent, Queued
<1>4. CASE RemoveSocket(s)
  <2>1. srv'[s] = [r EXCEPT !.at = "closing", !.backlog = << >>]
    BY <1>4, Others DEF RemoveSocket
  <2>2. << >> \in Seq(Own(s))
    OBVIOUS
  <2> QED
    BY <1>0, <2>1, <2>2 DEF Queued, ServerType
<1>5. CASE Bind(s) \/ Ready(s) \/ Connected(s) \/ RunCommand(s) \/ TimeOut(s) \/ IdleFails(s) \/ CloseLock(s) \/ Relock(s)
  <2>1. \/ srv'[s] = r
        \/ \E at \in Phases : srv'[s] = [r EXCEPT !.at = at]
        \/ srv'[s] = [r EXCEPT !.haveui = TRUE, !.hadanyui = TRUE]
        \/ srv'[s] = [r EXCEPT !.at = "relock", !.lockcontents = contents]
    BY <1>5, Others DEF Bind, Ready, Connected, RunCommand, TimeOut, IdleFails, CloseLock, Relock, Phases
  <2> QED
    BY <1>0, <2>1 DEF Queued, ServerType
<1> QED
  BY <1>1, <1>2, <1>3, <1>4, <1>5 DEF ServerStep

(* What a server answers, it answers to the client of an open connection:  *)
(* the one it serves, or the one that started it and waits.                *)
LEMMA Answers ==
  ASSUME Shape, Linked, NEW s \in Servers, ServerStep(s) \/ IdleFails(s) \/ Crash(s)
  PROVE  \/ replies' = replies
         \/ \E k \in Connections :
              /\ replies' = Answer(k)
              /\ \/ srv[s].controllersock = k /\ srv[s].haveui /\ srv[s].at = "serve"
                 \/ srv[s].ready = k /\ srv[s].at = "init" /\ srv'[s].at = "serve"
<1>1. CASE Ready(s)
  <2>1. srv[s].ready \in Connections
    BY <1>1 DEF Ready, Linked, Spawners, Own
  <2>2. srv'[s] = [srv[s] EXCEPT !.at = "serve"]
    BY <1>1, Others DEF Ready
  <2>3. srv'[s].at = "serve"
    BY <2>2 DEF Shape, ServerType
  <2> QED
    BY <1>1, <2>1, <2>3 DEF Ready
<1>2. CASE RunCommand(s)
  <2>1. PICK w \in wire : w[1] = srv[s].controllersock /\ (replies' = Answer(w[1]) \/ replies' = replies)
    BY <1>2 DEF RunCommand
  <2>2. w[1] \in Connections
    BY DEF Linked, Numbered
  <2> QED
    BY <1>2, <2>1, <2>2 DEF RunCommand
<1>3. CASE ~Ready(s) /\ ~RunCommand(s)
  BY <1>3 DEF ServerStep, Bind, NotReady, Superseded, Crash, Unlock, Gone, Accept, Connected, TimeOut, IdleFails,
              Disconnect, RemoveSocket, CloseLock, Relock
<1> QED
  BY <1>1, <1>2, <1>3

LEMMA ServerIsLocal ==
  ASSUME Shape, NEW s \in Servers, ServerStep(s) \/ IdleFails(s) \/ Crash(s)
  PROVE  /\ UNCHANGED <<pc, retries, on>> /\ wire' \subseteq wire
         /\ \A t \in Servers \ {s} : srv'[t] = srv[t]
         /\ srv[s].at # "none"
<1>1. UNCHANGED <<pc, retries, on>> /\ wire' \subseteq wire
  BY DEF ServerStep, Bind, Ready, NotReady, Superseded, Crash, Unlock, Gone, Accept, Connected, TimeOut, IdleFails,
         RunCommand, Disconnect, RemoveSocket, CloseLock, Relock, client
<1>2. srv[s].at # "none"
  BY DEF ServerStep, Bind, Ready, NotReady, Superseded, Crash, Unlock, Accept, Connected, TimeOut, IdleFails,
         RunCommand, Disconnect, RemoveSocket, CloseLock, Relock
<1>3. srv' = srv \/ \E r : Update(s, r)
  BY DEF ServerStep, Bind, Ready, NotReady, Superseded, Crash, Unlock, Gone, Accept, Connected, TimeOut, IdleFails,
         RunCommand, Disconnect, RemoveSocket, CloseLock, Relock
<1> QED
  BY <1>1, <1>2, <1>3, Others

LEMMA LinkedServer ==
  ASSUME Shape, Linked, NEW s \in Servers, ServerStep(s) \/ IdleFails(s) \/ Crash(s) PROVE Linked'
<1>1. UNCHANGED <<pc, retries, on>> /\ wire' \subseteq wire /\ \A t \in Servers \ {s} : srv'[t] = srv[t]
  BY ServerIsLocal
<1>2. Numbered'
  BY <1>1 DEF Linked, Numbered, HasConnection
<1>3. Unread'
  BY <1>1, Answers DEF Linked, Unread, Answer, Open
<1>4. Spawners'
  <2> SUFFICES ASSUME NEW t \in Servers, srv'[t].at \in {"exec", "init"}
               PROVE  srv'[t].ready \in Own(t) \ replies' /\ Spawner(srv[t].ready)' /\ srv'[t].ready = srv[t].ready
    BY DEF Spawners
  <2>1. srv'[t].ready = srv[t].ready /\ srv[t].at \in {"exec", "init"}
    BY <1>1, Spawning
  <2>2. srv[t].ready \in Own(t) \ replies /\ Spawner(srv[t].ready)
    BY <2>1 DEF Linked, Spawners
  <2>3. srv[t].ready \notin replies'
    <3>1. CASE replies' = replies
      BY <2>2, <3>1
    <3>2. ASSUME NEW k \in Connections, replies' = Answer(k),
                 srv[s].controllersock = k, srv[s].at = "serve"
          PROVE  srv[t].ready \notin replies'
      <4>1. k \in Own(s) /\ t # s
        BY <2>1, <3>2, ConnectionParts DEF Linked, Queues, Queued
      <4> QED
        BY <2>2, <3>2, <4>1 DEF Own, Answer
    <3>3. ASSUME NEW k \in Connections, replies' = Answer(k),
                 srv[s].ready = k, srv[s].at = "init", srv'[s].at = "serve"
          PROVE  srv[t].ready \notin replies'
      <4>1. k \in Own(s) /\ t # s
        BY <3>3 DEF Linked, Spawners
      <4> QED
        BY <2>2, <3>3, <4>1 DEF Own, Answer
    <3> QED
      BY <3>1, <3>2, <3>3, Answers
  <2> QED
    BY <1>1, <2>1, <2>2, <2>3 DEF Spawner
<1>5. Queues'
  BY <1>1, QueuesServer DEF Linked, Queues
<1>6. Taken'
  <2> SUFFICES ASSUME NEW c \in Clients, pc[c] = "ui" \/ (pc[c] = "sent" /\ on[c] \in replies'),
                      srv'[on[c][1]].at # "none"
               PROVE  srv'[on[c][1]].controllersock = on[c] /\ srv'[on[c][1]].haveui
    BY <1>1 DEF Taken, Attached
  <2> DEFINE k == on[c]
  <2>1. k \in Connections /\ k[2] = c /\ k[3] = retries[c] /\ Open(k) /\ k[1] \in Servers
    BY ConnectionParts DEF Linked, Numbered, HasConnection, Open
  <2>2. CASE pc[c] = "ui" \/ k \in replies
    <3>1. Attached(c)
      BY <2>2 DEF Linked, Taken
    <3>2. CASE k[1] # s
      BY <1>1, <2>1, <3>1, <3>2 DEF Attached
    <3>3. CASE k[1] = s
      <4>1. srv[s].controllersock = k /\ srv[s].haveui
        BY <3>1, <3>3, ServerIsLocal DEF Attached
      <4> QED
        BY <2>1, <3>3, <4>1, KeepsClient
    <3> QED
      BY <3>2, <3>3
  <2>3. CASE pc[c] = "sent" /\ k \notin replies
    <3>1. PICK j \in Connections :
            /\ replies' = Answer(j)
            /\ \/ srv[s].controllersock = j /\ srv[s].haveui
               \/ srv[s].ready = j /\ srv[s].at = "init"
      BY <2>3, Answers
    <3>2. j = k
      BY <2>3, <3>1 DEF Answer
    <3>3. ~(srv[s].ready = k /\ srv[s].at = "init")
      BY <2>1, <2>3 DEF Linked, Spawners, Spawner, Shape
    <3>4. srv[s].controllersock = k /\ srv[s].haveui
      BY <3>1, <3>2, <3>3
    <3>5. k[1] = s
      BY <2>1, <3>4, ConnectionParts DEF Linked, Queued, Queues, Own
    <3> QED
      BY <2>1, <3>4, <3>5, KeepsClient
  <2> QED
    BY <2>2, <2>3
<1> QED
  BY <1>2, <1>3, <1>4, <1>5, <1>6 DEF Linked

(* A step of a client. *)
LEMMA ClientIsLocal ==
  ASSUME Shape, Linked, NEW c \in Clients, Start(c) \/ ClientStep(c) \/ Leave(c)
  PROVE  \A d \in Clients \ {c} : pc'[d] = pc[d] /\ retries'[d] = retries[d] /\ on'[d] = on[d]
BY DEF Shape, Linked, Numbered, Goto, Retry, ClientStep, Start, Lock, NotRunning, Spawn, Spawned, SpawnFails, Busy, AwaitLock,
       Unlocked, AwaitTimesOut, Connect, ConnectFails, NoReply, Reply, Leave

(* The attempts and connections of one client. *)
LEMMA NumberedClient ==
  ASSUME Shape, Linked, NEW c \in Clients, Start(c) \/ ClientStep(c) \/ Leave(c) PROVE Numbered'
<1>1. \A d \in Clients \ {c} : pc'[d] = pc[d] /\ retries'[d] = retries[d] /\ on'[d] = on[d]
  BY ClientIsLocal
<1>2. \A k \in Connections : k # None
  BY ConnectionParts
<1>3. /\ on' \in [Clients -> Connections \cup {None}]
      /\ IF HasConnection(c)'
         THEN on'[c] \in Connections /\ on'[c][2] = c /\ on'[c][3] = retries'[c] ELSE on'[c] = None
      /\ wire' \subseteq Connections \X {"setFeatures", "terminateServer"}
  <2>1. CASE Start(c) \/ Lock(c) \/ NotRunning(c) \/ Busy(c) \/ AwaitLock(c)
    BY <2>1 DEF Shape, Linked, Numbered, HasConnection, Goto, Start, Lock, NotRunning, Busy, AwaitLock
  <2>2. CASE SpawnFails(c) \/ Unlocked(c) \/ AwaitTimesOut(c) \/ ConnectFails(c) \/ NoReply(c)
    BY <2>2 DEF Shape, Linked, Numbered, HasConnection, Goto, Retry, SpawnFails, Unlocked, AwaitTimesOut, ConnectFails, NoReply
  <2>3. CASE Spawned(c) \/ Leave(c)
    BY <2>3 DEF Shape, Linked, Numbered, HasConnection, Goto, Spawned, Leave
  <2>4. CASE Reply(c)
    BY <2>4 DEF Shape, Linked, Numbered, HasConnection, Goto, Reply
  <2>5. CASE Spawn(c)
    <3>1. PICK s \in Servers : on' = [on EXCEPT ![c] = <<s, c, retries[c]>>]
      BY <2>5 DEF Spawn
    <3>2. <<s, c, retries[c]>> \in Connections
      BY DEF Shape, Connections
    <3>3. on' \in [Clients -> Connections \cup {None}] /\ on'[c] = <<s, c, retries[c]>> /\ UNCHANGED retries
      BY <2>5, <3>1, <3>2 DEF Linked, Numbered, Spawn
    <3>4. HasConnection(c)'
      BY <2>5 DEF Shape, HasConnection, Goto, Spawn
    <3>5. wire' \subseteq Connections \X {"setFeatures", "terminateServer"}
      BY <2>5, <3>1, <3>2 DEF Linked, Numbered, Spawn
    <3>6. on'[c][2] = c /\ on'[c][3] = retries'[c]
      BY <3>3
    <3> QED
      BY <3>2, <3>3, <3>4, <3>5, <3>6
  <2>6. CASE Connect(c)
    <3>1. on' = [on EXCEPT ![c] = <<sockfile, c, retries[c]>>] /\ wire' = wire \cup {<<<<sockfile, c, retries[c]>>, "setFeatures">>}
      BY <2>6 DEF Connect
    <3>2. <<sockfile, c, retries[c]>> \in Connections
      BY <2>6 DEF Shape, Connections, Connect, CanConnect
    <3>3. on' \in [Clients -> Connections \cup {None}] /\ on'[c] = <<sockfile, c, retries[c]>> /\ UNCHANGED retries
      BY <2>6, <3>1, <3>2 DEF Linked, Numbered, Connect
    <3>4. HasConnection(c)'
      BY <2>6 DEF Shape, HasConnection, Goto, Connect
    <3>5. wire' \subseteq Connections \X {"setFeatures", "terminateServer"}
      BY <2>6, <3>1, <3>2 DEF Linked, Numbered, Connect
    <3>6. on'[c][2] = c /\ on'[c][3] = retries'[c]
      BY <3>3
    <3> QED
      BY <3>2, <3>3, <3>4, <3>5, <3>6
  <2> QED
    BY <2>1, <2>2, <2>3, <2>4, <2>5, <2>6 DEF ClientStep
<1> QED
  BY <1>1, <1>3 DEF Linked, Numbered, HasConnection

(* A client reads its answers before it goes on. *)
LEMMA UnreadClient ==
  ASSUME Shape, Linked, NEW c \in Clients, Start(c) \/ ClientStep(c) \/ Leave(c)
  PROVE  /\ replies' \subseteq replies
         /\ \A k \in replies' : on'[k[2]] = k
         /\ \A k \in replies' : k[2] # c
<1>1. \A d \in Clients \ {c} : pc'[d] = pc[d] /\ retries'[d] = retries[d] /\ on'[d] = on[d]
  BY ClientIsLocal
<1>2. \A k \in replies : k \in Connections /\ on[k[2]] = k /\ k[2] \in Clients /\ k # None
  BY ConnectionParts DEF Linked, Unread, Open
<1>3. replies' = replies \/ replies' = replies \ {on[c]}
  BY DEF ClientStep, Start, Lock, NotRunning, Spawn, Spawned, SpawnFails, Busy, AwaitLock,
         Unlocked, AwaitTimesOut, Connect, ConnectFails, NoReply, Reply, Leave
<1>4. ASSUME NEW k \in replies', k[2] = c PROVE FALSE
  <2>1. k \in replies /\ on[c] = k /\ k # None /\ on[c] # None
    BY <1>2, <1>3, <1>4
  <2>2. pc[c] \in {"ready", "sent", "ui"}
    BY <2>1 DEF Linked, Numbered, HasConnection
  <2>3. ~Leave(c) /\ ~Reply(c) /\ ~Spawned(c)
    BY <1>4, <2>1 DEF Leave, Reply, Spawned
  <2> QED
    BY <2>1, <2>2, <2>3
       DEF ClientStep, Start, Lock, NotRunning, Spawn, SpawnFails, Busy, AwaitLock,
           Unlocked, AwaitTimesOut, Connect, ConnectFails, NoReply
<1> QED
  BY <1>1, <1>2, <1>3, <1>4

LEMMA SpawnersClient ==
  ASSUME Shape, Linked, NEW c \in Clients, Start(c) \/ ClientStep(c) \/ Leave(c) PROVE Spawners'
<1>0. retries \in [Clients -> Nat] /\ retries' \in [Clients -> Nat] /\ retries'[c] <= retries[c]
  <2>1. retries \in [Clients -> 0..Retries] /\ retries' \in [Clients -> 0..Retries]
    BY ShapeClient DEF Shape
  <2>2. retries' = retries \/ retries' = [retries EXCEPT ![c] = @ - 1]
    BY DEF Retry, ClientStep, Start, Lock, NotRunning, Spawn, Spawned, SpawnFails, Busy, AwaitLock,
           Unlocked, AwaitTimesOut, Connect, ConnectFails, NoReply, Reply, Leave
  <2> QED
    BY <2>1, <2>2, ServerAssumption
<1>1. \A d \in Clients \ {c} : pc'[d] = pc[d] /\ retries'[d] = retries[d] /\ on'[d] = on[d]
  BY ClientIsLocal
<1>2. \A k \in Connections : k[2] \in Clients /\ k[3] \in Nat
  BY ServerAssumption, ConnectionParts
<1>3. ASSUME NEW k \in Connections \ replies, Spawner(k) PROVE Spawner(k)'
  <2>1. CASE k[2] # c
    BY <1>1, <1>2, <1>3, <2>1 DEF Spawner
  <2>2. CASE k[2] = c /\ retries[c] < k[3]
    BY <1>0, <1>2, <2>2 DEF Spawner
  <2>3. CASE k[2] = c /\ pc[c] \in {"done", "fatal"}
    BY <2>3 DEF ClientStep, Start, Lock, NotRunning, Spawn, Spawned, SpawnFails, Busy, AwaitLock,
                Unlocked, AwaitTimesOut, Connect, ConnectFails, NoReply, Reply, Leave
  <2>4. CASE k[2] = c /\ pc[c] = "ready" /\ on[c] = k
    <3>1. SpawnFails(c) \/ Leave(c)
      BY <1>3, <2>4 DEF ClientStep, Start, Lock, NotRunning, Spawn, Spawned, Busy, AwaitLock,
                        Unlocked, AwaitTimesOut, Connect, ConnectFails, NoReply, Reply
    <3>2. k[3] = retries[c]
      BY <2>4 DEF Linked, Numbered, HasConnection
    <3>3. CASE Leave(c)
      BY <2>4, <3>3 DEF Leave, Goto, Shape, Spawner
    <3>4. CASE SpawnFails(c)
      <4>1. pc \in [Clients -> PCs] /\ retries \in [Clients -> Nat]
        BY <1>0 DEF Shape
      <4> QED
        BY <2>4, <3>2, <3>4, <4>1 DEF SpawnFails, Retry, Goto, Spawner
    <3> QED
      BY <3>1, <3>3, <3>4
  <2> QED
    BY <1>3, <2>1, <2>2, <2>3, <2>4 DEF Spawner
<1>4. ASSUME NEW s \in Servers, srv[s].at \in {"exec", "init"}
      PROVE  srv[s].ready \in Own(s) \ replies' /\ \E j : srv[s].ready = j /\ Spawner(j)'
  <2>1. srv[s].ready \in Own(s) \ replies /\ Spawner(srv[s].ready)
    BY <1>4 DEF Linked, Spawners
  <2>2. replies' \subseteq replies
    BY UnreadClient
  <2> QED
    BY <1>3, <2>1, <2>2 DEF Own
<1>5. CASE Spawn(c)
  <2>1. PICK s \in Servers :
          /\ Update(s, [Absent EXCEPT !.at = "exec", !.ready = <<s, c, retries[c]>>])
          /\ on' = [on EXCEPT ![c] = <<s, c, retries[c]>>]
    BY <1>5 DEF Spawn
  <2>0. PICK k : k = <<s, c, retries[c]>>
    OBVIOUS
  <2>2. srv'[s].at = "exec" /\ srv'[s].ready = k /\ \A t \in Servers \ {s} : srv'[t] = srv[t]
    <3>1. srv'[s] = [Absent EXCEPT !.at = "exec", !.ready = k] /\ \A t \in Servers \ {s} : srv'[t] = srv[t]
      BY <2>0, <2>1, Others
    <3> QED
      BY <3>1 DEF Absent
  <2>3. k \in Own(s) /\ k[2] = c
    BY <2>0 DEF Shape, Connections, Own
  <2>4. k \notin replies' /\ Spawner(k)'
    <3>1. replies' = replies /\ pc'[c] = "ready" /\ pc[c] = "spawn"
      BY <1>5 DEF Spawn, Goto, Shape
    <3>2. on[c] = None
      BY <3>1 DEF Linked, Numbered, HasConnection
    <3>3. on'[c] = k
      BY <2>0, <2>1 DEF Linked, Numbered
    <3>4. k \in Connections /\ k # None
      BY <2>3, ConnectionParts DEF Own
    <3> QED
      BY <2>3, <3>1, <3>2, <3>3, <3>4 DEF Linked, Unread, Open, Spawner
  <2> SUFFICES ASSUME NEW t \in Servers, srv'[t].at \in {"exec", "init"}
               PROVE  srv'[t].ready \in Own(t) \ replies' /\ \E j : srv'[t].ready = j /\ Spawner(j)'
    BY DEF Spawners, Spawner
  <2> QED
    BY <1>4, <2>2, <2>3, <2>4
<1>6. CASE Connect(c)
  <2> DEFINE new == [srv[sockfile] EXCEPT !.backlog = Append(@, <<sockfile, c, retries[c]>>)]
  <2>1. sockfile \in Servers /\ Update(sockfile, new)
    BY <1>6 DEF Connect, CanConnect, Shape
  <2>2. new.at = srv[sockfile].at /\ new.ready = srv[sockfile].ready
    BY <2>1 DEF Shape, ServerType
  <2> HIDE DEF new
  <2>3. \A t \in Servers : srv'[t].at = srv[t].at /\ srv'[t].ready = srv[t].ready
    BY <2>1, <2>2, Others
  <2> SUFFICES ASSUME NEW t \in Servers, srv'[t].at \in {"exec", "init"}
               PROVE  srv'[t].ready \in Own(t) \ replies' /\ \E j : srv'[t].ready = j /\ Spawner(j)'
    BY DEF Spawners, Spawner
  <2> QED
    BY <1>4, <2>3
<1>7. CASE ~Spawn(c) /\ ~Connect(c)
  <2>1. srv' = srv
    BY <1>7 DEF ClientStep, Start, Lock, NotRunning, Spawned, SpawnFails, Busy, AwaitLock,
                Unlocked, AwaitTimesOut, ConnectFails, NoReply, Reply, Leave
  <2> SUFFICES ASSUME NEW t \in Servers, srv'[t].at \in {"exec", "init"}
               PROVE  srv'[t].ready \in Own(t) \ replies' /\ \E j : srv'[t].ready = j /\ Spawner(j)'
    BY DEF Spawners, Spawner
  <2> QED
    BY <1>4, <2>1
<1> QED
  BY <1>5, <1>6, <1>7

(* A client changes a server that is not there, or the queue of its socket. *)
LEMMA ServersOfClient ==
  ASSUME Shape, Linked, NEW c \in Clients, Start(c) \/ ClientStep(c) \/ Leave(c), NEW s \in Servers
  PROVE  \/ srv'[s] = srv[s]
         \/ /\ srv[s].at = "none" /\ \A d \in Clients : on[d] # None => on[d][1] # s
            /\ srv'[s].backlog = << >> /\ srv'[s].newconnections = << >> /\ srv'[s].controllersock = None
         \/ /\ srv'[s].controllersock = srv[s].controllersock /\ srv'[s].haveui = srv[s].haveui
            /\ srv'[s].at = srv[s].at /\ srv'[s].newconnections = srv[s].newconnections
            /\ \E k \in Own(s) : srv'[s].backlog = Append(srv[s].backlog, k)
<1>1. CASE Spawn(c)
  <2>1. PICK t \in Servers :
          /\ Update(t, [Absent EXCEPT !.at = "exec", !.ready = <<t, c, retries[c]>>])
          /\ srv[t].at = "none" /\ \A d \in Clients : on[d] # None => on[d][1] # t
    BY <1>1 DEF Spawn
  <2>2. PICK k : k = <<t, c, retries[c]>>
    OBVIOUS
  <2>3. srv'[t] = [Absent EXCEPT !.at = "exec", !.ready = k] /\ \A u \in Servers \ {t} : srv'[u] = srv[u]
    BY <2>1, <2>2, Others
  <2>4. srv'[t].backlog = << >> /\ srv'[t].newconnections = << >> /\ srv'[t].controllersock = None
    BY <2>3 DEF Absent
  <2> QED
    BY <2>1, <2>3, <2>4
<1>2. CASE Connect(c)
  <2>1. PICK k : k = <<sockfile, c, retries[c]>>
    OBVIOUS
  <2>2. sockfile \in Servers /\ Update(sockfile, [srv[sockfile] EXCEPT !.backlog = Append(@, k)])
    BY <1>2, <2>1 DEF Connect, CanConnect, Shape
  <2>3. /\ srv'[sockfile] = [srv[sockfile] EXCEPT !.backlog = Append(@, k)]
        /\ \A u \in Servers \ {sockfile} : srv'[u] = srv[u]
    BY <2>2, Others
  <2>4. k \in Own(sockfile)
    BY <2>1, <2>2 DEF Shape, Connections, Own
  <2>5. srv[sockfile] \in ServerType
    BY <2>2 DEF Shape
  <2>6. /\ srv'[sockfile].controllersock = srv[sockfile].controllersock /\ srv'[sockfile].haveui = srv[sockfile].haveui
        /\ srv'[sockfile].at = srv[sockfile].at /\ srv'[sockfile].newconnections = srv[sockfile].newconnections
        /\ srv'[sockfile].backlog = Append(srv[sockfile].backlog, k)
    BY <2>3, <2>5 DEF ServerType
  <2> QED
    BY <2>3, <2>4, <2>6
<1>3. CASE ~Spawn(c) /\ ~Connect(c)
  BY <1>3 DEF ClientStep, Start, Lock, NotRunning, Spawned, SpawnFails, Busy, AwaitLock,
              Unlocked, AwaitTimesOut, ConnectFails, NoReply, Reply, Leave
<1> QED
  BY <1>1, <1>2, <1>3

LEMMA QueuesClient ==
  ASSUME Shape, Linked, NEW c \in Clients, Start(c) \/ ClientStep(c) \/ Leave(c) PROVE Queues'
<1> SUFFICES ASSUME NEW s \in Servers PROVE Queued(s, srv'[s])
  BY DEF Queues
<1>1. Queued(s, srv[s]) /\ << >> \in Seq(Own(s))
  BY DEF Linked, Queues
<1>2. \A k \in Own(s) : Append(srv[s].backlog, k) \in Seq(Own(s))
  BY <1>1 DEF Queued
<1>3. \/ srv'[s] = srv[s]
      \/ srv'[s].backlog = << >> /\ srv'[s].newconnections = << >> /\ srv'[s].controllersock = None
      \/ /\ srv'[s].controllersock = srv[s].controllersock /\ srv'[s].newconnections = srv[s].newconnections
         /\ \E k \in Own(s) : srv'[s].backlog = Append(srv[s].backlog, k)
  BY ServersOfClient
<1> QED
  BY <1>1, <1>2, <1>3 DEF Queued

LEMMA TakenClient ==
  ASSUME Shape, Linked, NEW c \in Clients, Start(c) \/ ClientStep(c) \/ Leave(c) PROVE Taken'
<1> SUFFICES ASSUME NEW d \in Clients, pc'[d] = "ui" \/ (pc'[d] = "sent" /\ on'[d] \in replies'),
                    srv'[on'[d][1]].at # "none"
             PROVE  srv'[on'[d][1]].controllersock = on'[d] /\ srv'[on'[d][1]].haveui
  BY DEF Taken, Attached
<1>1. \A e \in Clients \ {c} : pc'[e] = pc[e] /\ retries'[e] = retries[e] /\ on'[e] = on[e]
  BY ClientIsLocal
<1>2. on'[d] = on[d] /\ on[d] \in Connections /\ Attached(d)
  <2>1. CASE d # c
    <3>1. pc'[d] = pc[d] /\ on'[d] = on[d]
      BY <1>1, <2>1
    <3>2. on'[d] \in replies' => on[d] \in replies
      BY <3>1, UnreadClient
    <3> QED
      BY <3>1, <3>2 DEF Linked, Taken, Numbered, HasConnection
  <2>2. CASE d = c /\ pc'[c] = "ui"
    <3>1. Reply(c)
      BY <2>2 DEF Shape, Goto, Retry, ClientStep, Start, Lock, NotRunning, Spawn, Spawned, SpawnFails, Busy, AwaitLock,
                  Unlocked, AwaitTimesOut, Connect, ConnectFails, NoReply, Leave
    <3>2. pc[c] = "sent" /\ on[c] \in replies /\ on'[c] = on[c]
      BY <2>2, <3>1 DEF Reply, Goto, Shape
    <3> QED
      BY <2>2, <3>2 DEF Linked, Taken, Numbered, HasConnection
  <2>3. CASE d = c /\ on'[c] \in replies'
    <3>1. on'[c][2] = c
      BY <2>3, UnreadClient, NumberedClient DEF Numbered, HasConnection
    <3> QED
      BY <2>3, <3>1, UnreadClient
  <2> QED
    BY <2>1, <2>2, <2>3
<1>3. on[d][1] \in Servers /\ on[d] # None
  BY <1>2, ConnectionParts
<1> QED
  BY <1>2, <1>3, ServersOfClient DEF Attached

LEMMA LinkedClient ==
  ASSUME Shape, Linked, NEW c \in Clients, Start(c) \/ ClientStep(c) \/ Leave(c) PROVE Linked'
<1>1. Unread'
  BY UnreadClient DEF Linked, Unread, Open
<1> QED
  BY <1>1, NumberedClient, SpawnersClient, QueuesClient, TakenClient DEF Linked

LEMMA LinkedInit == Init => Linked
<1> SUFFICES ASSUME Init PROVE Linked
  OBVIOUS
<1>1. \A s \in Servers : srv[s] = Absent /\ << >> \in Seq(Own(s))
  BY DEF Init
<1>2. Absent.at = "none" /\ Absent.backlog = << >> /\ Absent.newconnections = << >> /\ Absent.controllersock = None
  BY DEF Absent
<1>3. Queues /\ Spawners
  BY <1>1, <1>2 DEF Queues, Queued, Spawners
<1> QED
  BY <1>3 DEF Init, Linked, Numbered, HasConnection, Unread, Taken

(* A client that runs its user interface is the one its server serves,     *)
(* whoever connected before and gave up, or waits in the queue.            *)
THEOREM Attends == Spec => []ServedClient
<1>1. Shape /\ Linked /\ [Next]_vars => Linked'
  <2> SUFFICES ASSUME Shape, Linked, [Next]_vars PROVE Linked'
    OBVIOUS
  <2>1. CASE UNCHANGED vars
    BY <2>1 DEF vars, Linked, Numbered, HasConnection, Unread, Open, Spawners, Spawner, Queues, Taken, Attached
  <2>2. CASE Next
    BY <2>2, LinkedServer, LinkedClient DEF Next
  <2> QED
    BY <2>1, <2>2
<1>2. Shape /\ Linked => ServedClient
  BY DEF Linked, Taken, Attached, ServedClient
<1> QED
  BY <1>1, <1>2, LinkedInit, Election, PTL DEF Spec

=============================================================================
