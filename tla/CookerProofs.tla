---------------------------- MODULE CookerProofs ----------------------------
(***************************************************************************)
(* Proofs about Cooker, for any number of UIs, commands, stops, signals    *)
(* and edits: a command is ended once, a busy server has work, a build is  *)
(* current, and a stop reaches it.                                         *)
(***************************************************************************)
EXTENDS Cooker, TLAPS

Counted ==
  /\ count \in [commands : 0..MaxCommands, stops : Nat, terms : Nat]
  /\ edits \in [Files -> Nat]

(* Commands are numbered as they are accepted, and the current one was. *)
Numbered ==
  /\ Counted
  /\ answers \in [Ids -> Nat]
  /\ \A n \in Ids : n > count.commands => answers[n] = 0
  /\ cmd # None => cmd.n \in 1..count.commands

(* BusyHasWork, and what holds inside a turn of runCommands(). *)
Working ==
  /\ BusyHasWork
  /\ pc \in {"update", "parse"} =>
       /\ cmd # None
       /\ idle = {"inotify", "runCommands"}
       /\ todo = {"runCommands"}
  /\ pc = "tick" => todo \subseteq idle

Inv == Numbered /\ AnsweredOnce /\ Working

(* The ways a step leaves the commands. *)
Same ==
  /\ UNCHANGED <<cmd, answers, count.commands>>
  /\ Counted'

Finished ==
  /\ cmd # None
  /\ cmd' = None
  /\ answers' = [answers EXCEPT ![cmd.n] = @ + 1]
  /\ UNCHANGED <<count, edits>>

Accepted ==
  /\ cmd = None /\ cmd' # None
  /\ cmd'.n = count.commands + 1
  /\ count' = [count EXCEPT !.commands = @ + 1] /\ count.commands < MaxCommands
  /\ UNCHANGED <<answers, edits>>

----------------------------------------------------------------------------
(* Commands and answers.                                                   *)

LEMMA SameKeeps == ASSUME Numbered, AnsweredOnce, Same PROVE (Numbered /\ AnsweredOnce)'
BY DEF Numbered, AnsweredOnce, Same

LEMMA FinishedKeeps == ASSUME Numbered, AnsweredOnce, Finished PROVE (Numbered /\ AnsweredOnce)'
<1>1. cmd.n \in 1..count.commands /\ cmd.n \in Ids
  BY CookerAssumption DEF Finished, Numbered, Counted, Ids
<1>2. answers[cmd.n] = 0
  BY <1>1 DEF Finished, AnsweredOnce
<1>3. Numbered'
  BY <1>1, CookerAssumption DEF Finished, Numbered, Counted, Ids
<1>4. AnsweredOnce'
  <2> SUFFICES ASSUME NEW n \in 1..count.commands PROVE answers'[n] = 1
    BY DEF Finished, AnsweredOnce
  <2>1. n \in Ids
    BY CookerAssumption DEF Numbered, Counted, Ids
  <2>2. CASE n = cmd.n
    BY <1>1, <1>2, <2>2 DEF Finished, Numbered, Counted
  <2>3. CASE n # cmd.n
    BY <2>1, <2>3 DEF Finished, Numbered, Counted, AnsweredOnce
  <2> QED
    BY <2>2, <2>3
<1> QED
  BY <1>3, <1>4

LEMMA AcceptedKeeps == ASSUME Numbered, AnsweredOnce, Accepted PROVE (Numbered /\ AnsweredOnce)'
<1>1. /\ count' \in [commands : 0..MaxCommands, stops : Nat, terms : Nat]
      /\ count'.commands = count.commands + 1 /\ count.commands \in 0..MaxCommands
  BY CookerAssumption DEF Accepted, Numbered, Counted
<1>2. count'.commands \in Ids
  BY <1>1, CookerAssumption DEF Accepted, Ids
<1>3. Numbered'
  BY <1>1, <1>2, CookerAssumption DEF Accepted, Numbered, Counted, Ids
<1>4. AnsweredOnce'
  BY <1>1, <1>2, CookerAssumption DEF Accepted, Numbered, Ids, AnsweredOnce
<1> QED
  BY <1>3, <1>4

LEMMA FinishIsFinished ==
  ASSUME NEW c, FinishAsyncCommand(c), cmd # None, UNCHANGED <<count, edits>> PROVE Finished
BY DEF FinishAsyncCommand, Finished

(* The steps of runCommands() are taken with a command. *)
LEMMA RunsWithCommand ==
  ASSUME Working, RunsCommands PROVE cmd # None /\ idle = {"inotify", "runCommands"} /\ todo = {"runCommands"}
BY DEF Working, BusyHasWork, RunsCommands

LEMMA BuildsWithCommand ==
  ASSUME Working, BuildTurn PROVE cmd # None /\ idle = {"inotify", "build"} /\ todo = {"build"}
BY DEF Working, BusyHasWork, BuildTurn

----------------------------------------------------------------------------
(* The steps.                                                              *)

(* Requests. *)
LEMMA StartsCommand ==
  ASSUME Inv, NEW u, NEW kind \in Kinds, AsyncCommand(u, kind) PROVE Inv'
<1>1. PICK first \in InitConfigdata(ck) :
        IF first.fails \/ Busy
        THEN Serve(idle) /\ UNCHANGED <<idle, cmd, count>>
        ELSE /\ Serve(idle \cup {"runCommands"})
             /\ cmd' = [n |-> count.commands + 1, kind |-> kind, edits |-> edits]
             /\ count' = [count EXCEPT !.commands = count.commands + 1]
             /\ idle' = idle \cup {"runCommands"}
  BY DEF AsyncCommand
<1>2. CASE first.fails \/ Busy
  <2>1. Same
    BY <1>1, <1>2 DEF AsyncCommand, Same, Inv, Numbered, Counted
  <2>2. Working'
    BY <1>1, <1>2 DEF Serve, Inv, Working, BusyHasWork
  <2> QED
    BY <2>1, <2>2, SameKeeps DEF Inv
<1>3. CASE ~(first.fails \/ Busy)
  <2>1. count.commands \in Nat /\ edits \in [Files -> Nat]
    BY CookerAssumption DEF Inv, Numbered, Counted
  <2>2. cmd' \in [n : Nat, kind : AllKinds, edits : [Files -> Nat]]
    BY <1>1, <1>3, <2>1, CookerAssumption
  <2>3. Accepted
    BY <1>1, <1>3, <2>2, CookerAssumption DEF AsyncCommand, Busy, Accepted
  <2>4. Working'
    BY <1>1, <1>3, <2>3 DEF Serve, Inv, Working, BusyHasWork, Accepted
  <2> QED
    BY <2>3, <2>4, AcceptedKeeps DEF Inv
<1> QED
  BY <1>2, <1>3

(* What leaves the loop, its commands and its idle functions alone. *)
LEMMA Aside ==
  ASSUME Inv, Counted', UNCHANGED <<pc, todo, idle, cmd, answers, count.commands>> PROVE Inv'
<1>1. Same
  BY DEF Same
<1>2. Working'
  BY DEF Inv, Working, BusyHasWork
<1> QED
  BY <1>1, <1>2, SameKeeps DEF Inv

(* The requests that register nothing. *)
LEMMA Requests ==
  ASSUME Inv, NEW u,
         NoRequest \/ Connect(u) \/ Disconnect(u) \/ (\E results : Sets(u, results)) \/ SyncCommand(u) \/ StopCommand(u)
  PROVE  Inv'
<1>1. UNCHANGED <<idle, cmd, answers, edits>>
  BY DEF NoRequest, Connect, Disconnect, Sets, SyncCommand, StopCommand, events, clients
<1>2. UNCHANGED count \/ count' = [count EXCEPT !.stops = @ + 1]
  BY DEF NoRequest, Connect, Disconnect, Sets, SyncCommand, StopCommand, clients
<1>3. pc = "serve" /\ ((pc' = "tick" /\ todo' = idle) \/ pc' = "exit")
  BY DEF NoRequest, Connect, Disconnect, Sets, SyncCommand, StopCommand, Serve
<1>4. Same
  BY <1>1, <1>2 DEF Same, Inv, Numbered, Counted
<1>5. Working'
  BY <1>1, <1>3 DEF Inv, Working, BusyHasWork
<1> QED
  BY <1>4, <1>5, SameKeeps DEF Inv

LEMMA SetsKeeps == ASSUME Inv, NEW u, SetFeatures(u) \/ UpdateConfig(u) PROVE Inv'
<1>1. \E results : Sets(u, results)
  BY DEF SetFeatures, UpdateConfig
<1> QED
  BY <1>1, Requests

LEMMA WatchKeeps == ASSUME Inv, AddFilewatch PROVE Inv'
<1>1. UNCHANGED <<pc, todo, idle, cmd, answers, count, edits>>
  BY DEF AddFilewatch, server, events, clients
<1>2. Counted' /\ UNCHANGED count.commands
  BY <1>1 DEF Inv, Numbered, Counted
<1> QED
  BY <1>1, <1>2, Aside

(* The steps of runCommands() that do not end the command. *)
LEMMA RunGoesOn ==
  ASSUME Inv, RunUpdates \/ ParseMore \/ ParseComplete \/ RunStartsBuild PROVE Inv'
<1>1. UNCHANGED <<cmd, answers, count, edits>>
  BY DEF RunUpdates, ParseMore, ParseComplete, RunStartsBuild, events, clients
<1>2. Same
  BY <1>1 DEF Same, Inv, Numbered, Counted
<1>3. ASSUME RunUpdates PROVE Working'
  BY <1>1, <1>3, RunsWithCommand DEF RunUpdates, Inv, Working, BusyHasWork
<1>4. ASSUME ParseMore \/ ParseComplete PROVE Working'
  BY <1>1, <1>4 DEF ParseMore, ParseComplete, Called, Inv, Working, BusyHasWork
<1>5. ASSUME RunStartsBuild PROVE Working'
  <2>1. cmd # None /\ idle = {"inotify", "runCommands"} /\ todo = {"runCommands"} /\ pc = "tick"
    BY <1>5, RunsWithCommand DEF RunStartsBuild, Runs, RunsCommands, Inv
  <2>2. pc' = "tick" /\ idle' = {"inotify", "build"} /\ todo' = {}
    BY <1>5, <2>1 DEF RunStartsBuild
  <2> QED
    BY <1>1, <2>1, <2>2 DEF Working, BusyHasWork
<1>6. Working'
  BY <1>3, <1>4, <1>5
<1> QED
  BY <1>2, <1>6, SameKeeps DEF Inv

(* A step that ends the command takes its idle function away. *)
LEMMA Ends ==
  ASSUME Inv, Finished, NEW f, idle = {"inotify", f}, f # "inotify", todo = {f},
         Called(f, FALSE), pc' = "tick"
  PROVE  Inv'
<1>1. idle' = {"inotify"} /\ todo' = {} /\ cmd' = None
  BY DEF Called, Finished
<1>2. Working'
  BY <1>1 DEF Working, BusyHasWork
<1> QED
  BY <1>2, FinishedKeeps DEF Inv

LEMMA RunEnds ==
  ASSUME Inv, RunStopped \/ RunCompletes \/ RunClientComplete \/ RunTriggerEvent PROVE Inv'
<1>1. cmd # None /\ idle = {"inotify", "runCommands"} /\ todo = {"runCommands"}
  BY RunsWithCommand DEF Inv, RunStopped, RunCompletes, RunClientComplete, RunTriggerEvent, Runs, RunsCommands
<1>2. Called("runCommands", FALSE) /\ pc' = "tick" /\ UNCHANGED <<count, edits>>
  BY DEF RunStopped, RunCompletes, RunClientComplete, RunTriggerEvent, Runs, RunsCommands, clients
<1>3. /\ cmd' = None
      /\ answers' = [answers EXCEPT ![cmd.n] = @ + 1]
  BY DEF RunStopped, RunCompletes, RunClientComplete, RunTriggerEvent, FinishAsyncCommand
<1>4. Finished
  BY <1>1, <1>2, <1>3 DEF Finished
<1> QED
  BY <1>1, <1>2, <1>4, Ends

LEMMA UpdateSteps == ASSUME Inv, Update \/ ParseFails PROVE Inv'
<1>1. cmd # None /\ idle = {"inotify", "runCommands"} /\ todo = {"runCommands"} /\ pc \in {"update", "parse"}
  BY DEF Inv, Working, Update, ParseFails
<1>2. \/ (cmd' = None /\ answers' = [answers EXCEPT ![cmd.n] = @ + 1]) /\ Called("runCommands", FALSE) /\ pc' = "tick"
      \/ pc' = "parse" /\ UNCHANGED <<todo, idle, cmd, answers>>
  <2>1. CASE ParseFails
    BY <2>1 DEF ParseFails, FinishAsyncCommand
  <2>2. CASE Update
    <3>1. (\E c : FinishAsyncCommand(c) /\ Called("runCommands", FALSE) /\ pc' = "tick")
          \/ (pc' = "parse" /\ UNCHANGED <<todo, idle, cmd, events>>)
      BY <2>2, Zenon DEF Update
    <3> QED
      BY <3>1 DEF FinishAsyncCommand, events
  <2> QED
    BY <2>1, <2>2
<1>3. UNCHANGED <<count, edits>>
  BY DEF Update, ParseFails, clients
<1>4. CASE (cmd' = None /\ answers' = [answers EXCEPT ![cmd.n] = @ + 1]) /\ Called("runCommands", FALSE) /\ pc' = "tick"
  <2>1. Finished
    BY <1>1, <1>3, <1>4 DEF Finished
  <2> QED
    BY <1>1, <1>4, <2>1, Ends
<1>5. CASE pc' = "parse" /\ UNCHANGED <<todo, idle, cmd, answers>>
  <2>1. Same
    BY <1>3, <1>5 DEF Same, Inv, Numbered, Counted
  <2>2. Working'
    BY <1>1, <1>5 DEF Working, BusyHasWork
  <2> QED
    BY <2>1, <2>2, SameKeeps DEF Inv
<1> QED
  BY <1>2, <1>4, <1>5

LEMMA BuildSteps == ASSUME Inv, BuildContinues \/ BuildEnds \/ BuildRaises PROVE Inv'
<1>1. cmd # None /\ idle = {"inotify", "build"} /\ todo = {"build"} /\ pc = "tick"
  BY BuildsWithCommand DEF Inv, BuildContinues, BuildEnds, BuildRaises, BuildTurn
<1>2. UNCHANGED <<count, edits>>
  BY DEF BuildContinues, BuildEnds, BuildRaises, clients
<1>3. CASE BuildEnds
  <2>1. Called("build", FALSE) /\ pc' = "tick"
    BY <1>1, <1>3 DEF BuildEnds
  <2>2. Finished
    BY <1>1, <1>2, <1>3 DEF BuildEnds, FinishAsyncCommand, Finished
  <2> QED
    BY <1>1, <2>1, <2>2, Ends
<1>4. CASE BuildContinues \/ BuildRaises
  <2>1. Same
    BY <1>2, <1>4 DEF BuildContinues, BuildRaises, events, Same, Inv, Numbered, Counted
  <2>2. Working'
    BY <1>1, <1>4 DEF BuildContinues, BuildRaises, Called, Working, BusyHasWork, events
  <2> QED
    BY <2>1, <2>2, SameKeeps DEF Inv
<1> QED
  BY <1>3, <1>4

LEMMA OtherSteps ==
  ASSUME Inv, Inotify \/ TickEnds \/ Exit PROVE Inv'
<1>1. UNCHANGED <<idle, cmd, answers, count, edits>>
  BY DEF Inotify, TickEnds, Exit, events, clients
<1>2. Same
  BY <1>1 DEF Same, Inv, Numbered, Counted
<1>3. Working'
  BY <1>1 DEF Inotify, TickEnds, Exit, Inv, Working, BusyHasWork
<1> QED
  BY <1>2, <1>3, SameKeeps DEF Inv

LEMMA WorldSteps ==
  ASSUME Inv, NEW u, NEW f, Take(u) \/ Leave(u) \/ Edit(f) \/ Sigterm PROVE Inv'
<1>1. UNCHANGED <<pc, todo, idle, cmd, answers>>
  BY DEF Take, Leave, Edit, Sigterm, server, events
<1>2. \/ UNCHANGED <<count, edits>>
      \/ edits' = [edits EXCEPT ![f] = @ + 1] /\ UNCHANGED count
      \/ count' = [count EXCEPT !.terms = @ + 1] /\ UNCHANGED edits
  BY DEF Take, Leave, Edit, Sigterm
<1>3. Counted' /\ UNCHANGED count.commands
  BY <1>2 DEF Inv, Numbered, Counted
<1> QED
  BY <1>1, <1>3, Aside

LEMMA InvInit == Init => Inv
<1> SUFFICES ASSUME Init PROVE Inv
  OBVIOUS
<1>1. Counted
  BY CookerAssumption DEF Init, Counted
<1>2. Numbered /\ AnsweredOnce
  BY <1>1, CookerAssumption DEF Init, Numbered, AnsweredOnce, Ids
<1>3. Working
  BY DEF Init, Working, BusyHasWork
<1> QED
  BY <1>2, <1>3 DEF Inv

LEMMA InvNext == Inv /\ [Next]_vars => Inv'
<1> SUFFICES ASSUME Inv, [Next]_vars PROVE Inv'
  OBVIOUS
<1>1. CASE UNCHANGED vars
  <2>1. Counted' /\ UNCHANGED <<pc, todo, idle, cmd, answers, count.commands>>
    BY <1>1 DEF vars, Inv, Numbered, Counted
  <2> QED
    BY <2>1, Aside
<1>2. CASE ServerStep
  BY <1>2, WatchKeeps, Requests, RunGoesOn, RunEnds, UpdateSteps, BuildSteps, OtherSteps DEF ServerStep, RunCommands
<1>3. ASSUME NEW u \in UIs, Request(u) PROVE Inv'
  BY <1>3, Requests, SetsKeeps, StartsCommand DEF Request
<1>4. ASSUME NEW u \in UIs, Take(u) \/ Leave(u) PROVE Inv'
  BY <1>4, WorldSteps
<1>5. ASSUME NEW f \in Files, Edit(f) PROVE Inv'
  BY <1>5, WorldSteps
<1>6. CASE Sigterm
  BY <1>6, WorldSteps
<1> QED
  BY <1>1, <1>2, <1>3, <1>4, <1>5, <1>6 DEF Next

LEMMA Invariance == Spec => []Inv
<1> QED
  BY InvInit, InvNext, PTL DEF Spec

(* Every command that was accepted is ended by exactly one event, unless   *)
(* it is still the current one.                                            *)
THEOREM Answers == Spec => []AnsweredOnce
<1>1. Inv => AnsweredOnce
  BY DEF Inv
<1> QED
  BY <1>1, Invariance, PTL

(* A server that is busy has the one idle function that will end its       *)
(* command, and one that is not busy has none.                             *)
THEOREM Works == Spec => []BusyHasWork
<1>1. Inv => BusyHasWork
  BY DEF Inv, Working
<1> QED
  BY <1>1, Invariance, PTL

----------------------------------------------------------------------------
(* What the cooker has read.                                               *)

CookerRecord ==
  [state : {"initial", "parsing", "running"} \cup Stopped,
   config : {"none", "valid", "invalid"}, cache : BOOLEAN,
   parser : {"none", "busy", "done", "stopped", "failed"}, read : [Files -> Nat],
   statements : {None} \cup Nat, mtime : {None} \cup Nat,
   modified : SUBSET {"class", "recipe"}, missed : SUBSET Files,
   watch : {"off", "late", "on"}, rwatch : {"off", "some", "all"}]

(* An edit since a configuration, a cache, or a cached version of a file   *)
(* was read has left one of the notifications, or is one that is missed.   *)
Tracks(c, notes) ==
  /\ c \in CookerRecord
  /\ \A f \in Files : c.read[f] <= edits[f]
  /\ c.statements # None => c.read["class"] <= c.statements /\ c.statements <= edits["class"]
  /\ c.config = "valid" =>
       \A f \in {"config", "class"} : c.read[f] = edits[f] \/ f \in notes \cup c.missed
  /\ c.statements # None => c.statements = edits["class"] \/ "class" \in notes \cup c.modified \cup c.missed
  /\ c.cache => c.read["recipe"] = edits["recipe"] \/ "recipe" \in notes \cup c.missed
  /\ c.mtime # None => /\ c.mtime <= edits["recipe"]
                       /\ c.mtime = edits["recipe"] \/ "recipe" \in notes \cup c.modified \cup c.missed
  /\ c.config = "none" => ~c.cache /\ c.mtime = None

(* What was read of f was read after the command was accepted, was current *)
(* at that moment, or is what BuildIsCurrent excepts.                      *)
FreshFor(f) == ck.read[f] >= cmd.edits[f] \/ f \in ck.missed

Fresh ==
  /\ edits \in [Files -> Nat]
  /\ Tracks(ck, pending)
  /\ cmd # None =>
       /\ cmd \in [n : Nat, kind : AllKinds, edits : [Files -> Nat]]
       /\ \A f \in Files : cmd.edits[f] <= edits[f]
  /\ ck.state \in {"parsing", "running"} => cmd # None /\ NeedCache /\ \A f \in Files : FreshFor(f)
  /\ pc = "update" =>
       /\ ck.state # "running" /\ cmd # None /\ NeedCache
       /\ ck.config = "valid" => FreshFor("config") /\ FreshFor("class")
       /\ ck.cache => FreshFor("recipe")
  /\ pc = "parse" => cmd # None /\ NeedCache /\ \A f \in Files : FreshFor(f)

(* c comes from d by steps that notice changes and never parse.            *)
Follows(c, d) ==
  /\ c.state \in {d.state, "initial"} \cup Stopped
  /\ \A f \in Files : \/ c.read[f] >= edits[f]
                      \/ c.read[f] >= d.read[f] /\ (f \in d.missed => f \in c.missed)

(* More notifications do no harm. *)
LEMMA TracksMore == ASSUME NEW c, NEW P, NEW Q, Tracks(c, P), P \subseteq Q PROVE Tracks(c, Q)
BY DEF Tracks

LEMMA FollowsSame ==
  ASSUME NEW c, NEW d, d \in CookerRecord, c.state \in {d.state, "initial"} \cup Stopped,
         c.read = d.read, d.missed \subseteq c.missed
  PROVE  Follows(c, d)
<1>1. d.read \in [Files -> Nat]
  BY DEF CookerRecord
<1> QED
  BY <1>1 DEF Follows

LEMMA FollowsBoth ==
  ASSUME NEW a, NEW b, NEW c, a \in CookerRecord, b \in CookerRecord, c \in CookerRecord,
         edits \in [Files -> Nat], Follows(b, a), Follows(c, b)
  PROVE  Follows(c, a)
<1>1. a.read \in [Files -> Nat] /\ b.read \in [Files -> Nat] /\ c.read \in [Files -> Nat]
  BY DEF CookerRecord
<1> QED
  BY <1>1 DEF Follows

LEMMA NotifiedTracks ==
  ASSUME NEW c, Tracks(c, pending), edits \in [Files -> Nat]
  PROVE  /\ Tracks(Notified(c), {}) /\ Follows(Notified(c), c)
         /\ Notified(c).state = c.state /\ Notified(c).read = c.read /\ Notified(c).missed = c.missed
<1>1. c \in CookerRecord
  BY DEF Tracks
<1>2. Notified(c) \in CookerRecord
  BY <1>1 DEF Notified, CookerRecord
<1>3. /\ Notified(c).state = c.state /\ Notified(c).read = c.read /\ Notified(c).missed = c.missed
      /\ Notified(c).statements = c.statements /\ Notified(c).mtime = c.mtime
      /\ Notified(c).modified = c.modified \cup (pending \cap {"class", "recipe"})
      /\ Notified(c).config = IF c.config = "valid" /\ pending \cap {"config", "class"} # {} THEN "invalid"
                              ELSE c.config
      /\ Notified(c).cache = (c.cache /\ "recipe" \notin pending)
  BY <1>1 DEF Notified, CookerRecord
<1>4. Follows(Notified(c), c)
  BY <1>1, <1>3, FollowsSame
<1>5. Tracks(Notified(c), {})
  <2>1. Notified(c).config = "valid" =>
          \A f \in {"config", "class"} : c.read[f] = edits[f] \/ f \in c.missed
    BY <1>3 DEF Tracks
  <2> QED
    BY <1>2, <1>3, <2>1 DEF Tracks
<1> QED
  BY <1>3, <1>4, <1>5

(* initConfigurationData(): a notification that is passed over is none     *)
(* from then on, but the edit is one that is missed.                       *)
LEMMA InitTracks ==
  ASSUME NEW c, NEW P, NEW passed, Tracks(c, P), edits \in [Files -> Nat],
         "class" \in c.modified => "class" \in passed, c.config = "valid" => P = {},
         NEW r \in InitConfigurationData(c, passed)
  PROVE  /\ Tracks(r.ck, P \ (passed \cap {"config", "class"}))
         /\ Follows(r.ck, c)
         /\ r.ck.state = "initial" /\ ("recipe" \in r.ck.modified => "recipe" \in c.modified)
         /\ r.fails \in BOOLEAN
         /\ r.fails => r.ck.config = c.config /\ r.ck.cache = c.cache
         /\ ~r.fails => r.ck.config = "valid" /\ ~r.ck.cache
<1> DEFINE version == IF c.statements = None THEN edits["class"] ELSE c.statements
           ms == Missed(c, "class", version, passed)
           Q == P \ (passed \cap {"config", "class"})
<1>1. c \in CookerRecord /\ c.read \in [Files -> Nat] /\ c.missed \subseteq Files /\ edits["class"] \in Nat
  BY DEF Tracks, CookerRecord, Files
<1>2. /\ version \in Nat /\ c.read["class"] <= version /\ version <= edits["class"]
      /\ c.statements # None => c.statements = version
  BY <1>1 DEF Tracks, CookerRecord, Files
<1>3. ms = IF version = edits["class"] THEN c.missed \ {"class"} ELSE c.missed \cup (passed \cap {"class"})
  BY DEF Missed
<1>4. version = edits["class"] \/ "class" \in Q \cup ms
  BY <1>3 DEF Tracks
<1>5. ms \subseteq Files
  BY <1>1, <1>3 DEF Files
<1>6. r \in {[fails |-> FALSE,
              ck |-> [c EXCEPT !.state = "initial", !.config = "valid", !.cache = FALSE, !.watch = "late",
                               !.read["config"] = edits["config"], !.read["class"] = version,
                               !.statements = version, !.missed = ms \ {"config"}]]}
       \/ \E cached \in {c.statements, version} :
            r = [fails |-> TRUE, ck |-> [c EXCEPT !.state = "initial", !.watch = "off", !.statements = cached,
                                                  !.missed = c.missed \cup ms]]
  BY DEF InitConfigurationData
<1>a. "recipe" \in P => "recipe" \in Q
  OBVIOUS
<1>b. P = {} => Q = {}
  OBVIOUS
<1> HIDE DEF version, ms, Q
<1>7. CASE r = [fails |-> FALSE,
                ck |-> [c EXCEPT !.state = "initial", !.config = "valid", !.cache = FALSE, !.watch = "late",
                                 !.read["config"] = edits["config"], !.read["class"] = version,
                                 !.statements = version, !.missed = ms \ {"config"}]]
  <2>0. r.fails = FALSE
    BY <1>7
  <2>1. ~r.fails /\ r.fails \in BOOLEAN
    BY <2>0, Zenon
  <2>2. /\ r.ck.state = "initial" /\ r.ck.config = "valid" /\ ~r.ck.cache
        /\ r.ck.read = [[c.read EXCEPT !["config"] = edits["config"]] EXCEPT !["class"] = version]
        /\ r.ck.statements = version /\ r.ck.missed = ms \ {"config"}
        /\ r.ck.mtime = c.mtime /\ r.ck.modified = c.modified
    BY <1>1, <1>7 DEF CookerRecord
  <2>3. r.ck.read["config"] = edits["config"] /\ r.ck.read["class"] = version /\ r.ck.read["recipe"] = c.read["recipe"]
    BY <1>1, <2>2 DEF Files
  <2>4. r.ck \in CookerRecord
    <3> DEFINE rd == [[c.read EXCEPT !["config"] = edits["config"]] EXCEPT !["class"] = version]
           ms1 == ms \ {"config"}
    <3>1. rd \in [Files -> Nat] /\ ms1 \in SUBSET Files /\ version \in {None} \cup Nat
      BY <1>1, <1>2, <1>5 DEF Files
    <3>2. r.ck = [c EXCEPT !.state = "initial", !.config = "valid", !.cache = FALSE, !.watch = "late",
                           !.read = rd, !.statements = version, !.missed = ms1]
      BY <1>1, <1>7 DEF CookerRecord
    <3> HIDE DEF rd, ms1
    <3> QED
      BY <1>1, <3>1, <3>2 DEF CookerRecord
  <2>5. Follows(r.ck, c)
    <3>1. "class" \in c.missed => version >= edits["class"] \/ "class" \in r.ck.missed
      BY <1>1, <1>2, <1>3, <2>2
    <3>2. "recipe" \in c.missed => "recipe" \in r.ck.missed
      BY <1>3, <2>2
    <3> QED
      BY <1>1, <1>2, <2>2, <2>3, <3>1, <3>2 DEF Follows, Files
  <2>6. Tracks(r.ck, Q)
    <3>1. \A f \in Files : r.ck.read[f] <= edits[f]
      BY <1>2, <2>3 DEF Tracks, Files
    <3>2. \A f \in {"config", "class"} : r.ck.read[f] = edits[f] \/ f \in Q \cup r.ck.missed
      BY <1>4, <2>2, <2>3
    <3>3. r.ck.mtime # None => /\ r.ck.mtime <= edits["recipe"]
                               /\ r.ck.mtime = edits["recipe"] \/ "recipe" \in Q \cup r.ck.modified \cup r.ck.missed
      BY <1>3, <1>a, <2>2 DEF Tracks
    <3>4. r.ck.statements <= edits["class"] /\ r.ck.read["class"] <= r.ck.statements
      BY <1>2, <2>2, <2>3
    <3>5. r.ck.statements = edits["class"] \/ "class" \in Q \cup r.ck.modified \cup r.ck.missed
      BY <1>4, <2>2
    <3> QED
      BY <2>2, <2>4, <3>1, <3>2, <3>3, <3>4, <3>5 DEF Tracks
  <2> QED
    BY <2>1, <2>2, <2>5, <2>6 DEF Q
<1>8. ASSUME NEW cached \in {c.statements, version},
             r = [fails |-> TRUE, ck |-> [c EXCEPT !.state = "initial", !.watch = "off", !.statements = cached,
                                                   !.missed = c.missed \cup ms]]
      PROVE  /\ Tracks(r.ck, Q) /\ Follows(r.ck, c) /\ r.fails /\ r.fails \in BOOLEAN
             /\ r.ck.state = "initial" /\ r.ck.modified = c.modified
             /\ r.ck.config = c.config /\ r.ck.cache = c.cache
  <2>0. r.fails = TRUE
    BY <1>8
  <2>1. r.fails /\ r.fails \in BOOLEAN
    BY <2>0, Zenon
  <2>2. /\ r.ck.state = "initial" /\ r.ck.config = c.config /\ r.ck.cache = c.cache /\ r.ck.read = c.read
        /\ r.ck.statements = cached /\ r.ck.missed = c.missed \cup ms
        /\ r.ck.mtime = c.mtime /\ r.ck.modified = c.modified
    BY <1>1, <1>8 DEF CookerRecord
  <2>3. cached \in {None} \cup Nat
    BY <1>1, <1>2 DEF CookerRecord
  <2>4. r.ck \in CookerRecord
    BY <1>1, <1>5, <1>8, <2>3 DEF CookerRecord
  <2>5. Follows(r.ck, c)
    BY <1>1, <2>2, FollowsSame
  <2>6. cached # None => cached = version
    BY <1>2
  <2>7. r.ck.statements # None =>
          /\ r.ck.read["class"] <= r.ck.statements /\ r.ck.statements <= edits["class"]
          /\ r.ck.statements = edits["class"] \/ "class" \in Q \cup r.ck.modified \cup r.ck.missed
    BY <1>2, <1>4, <2>2, <2>6
  <2>8. Tracks(r.ck, Q)
    <3>1. r.ck.config = "valid" =>
            \A f \in {"config", "class"} : r.ck.read[f] = edits[f] \/ f \in Q \cup r.ck.missed
      BY <2>2 DEF Tracks
    <3>2. r.ck.mtime # None => /\ r.ck.mtime <= edits["recipe"]
                               /\ r.ck.mtime = edits["recipe"] \/ "recipe" \in Q \cup r.ck.modified \cup r.ck.missed
      BY <1>a, <2>2 DEF Tracks
    <3>3. r.ck.cache => r.ck.read["recipe"] = edits["recipe"] \/ "recipe" \in Q \cup r.ck.missed
      BY <1>a, <2>2 DEF Tracks
    <3> QED
      BY <2>2, <2>4, <2>7, <3>1, <3>2, <3>3 DEF Tracks
  <2> QED
    BY <2>1, <2>2, <2>5, <2>8
<1> QED
  BY <1>6, <1>7, <1>8 DEF Q

LEMMA ResetTracks ==
  ASSUME NEW c, Tracks(c, {}), edits \in [Files -> Nat], NEW r \in Reset(c)
  PROVE  Tracks(r.ck, {}) /\ Follows(r.ck, c) /\ r.ck.state = "initial"
<1> DEFINE P == {}
<1>1. PICK passed : r \in InitConfigurationData(c, passed) /\ ("class" \in c.modified => "class" \in passed)
  BY DEF Reset
<1>2. Tracks(c, P) /\ (c.config = "valid" => P = {})
  OBVIOUS
<1>3. P \ (passed \cap {"config", "class"}) = {}
  OBVIOUS
<1> HIDE DEF P
<1>4. Tracks(r.ck, P \ (passed \cap {"config", "class"})) /\ Follows(r.ck, c) /\ r.ck.state = "initial"
  BY <1>1, <1>2, InitTracks
<1> QED
  BY <1>3, <1>4

LEMMA InitConfigdataTracks ==
  ASSUME NEW c, Tracks(c, pending), edits \in [Files -> Nat], NEW r \in InitConfigdata(c)
  PROVE  /\ Tracks(r.ck, pending)
         /\ Follows(r.ck, c)
         /\ r.fails \in BOOLEAN
         /\ r.fails => Tracks(r.ck, {})
<1>1. CASE c.config = "none"
  <2> DEFINE passed == c.modified \cup pending
  <2>1. r \in InitConfigurationData(c, passed)
    BY <1>1 DEF InitConfigdata
  <2>2. "class" \in c.modified => "class" \in passed
    OBVIOUS
  <2>3. /\ Tracks(r.ck, pending \ (passed \cap {"config", "class"}))
        /\ Follows(r.ck, c) /\ r.fails \in BOOLEAN /\ (r.fails => r.ck.config = c.config)
    BY <1>1, <2>1, <2>2, InitTracks
  <2>4. Tracks(r.ck, pending)
    <3>1. pending \ (passed \cap {"config", "class"}) \subseteq pending
      OBVIOUS
    <3> HIDE DEF passed
    <3> QED
      BY <2>3, <3>1, TracksMore
  <2>5. ASSUME r.fails PROVE Tracks(r.ck, {})
    <3>1. "class" \notin pending \ (passed \cap {"config", "class"})
      OBVIOUS
    <3>2. r.ck.config = "none"
      BY <1>1, <2>3, <2>5
    <3> HIDE DEF passed
    <3> QED
      BY <2>3, <3>1, <3>2 DEF Tracks
  <2> QED
    BY <2>3, <2>4, <2>5
<1>2. CASE c.config # "none"
  <2>0. r.ck = c /\ r.fails = FALSE
    BY <1>2 DEF InitConfigdata, Unchanged
  <2>1. r.ck = c /\ ~r.fails /\ r.fails \in BOOLEAN
    BY <2>0, Zenon
  <2> QED
    BY <2>1, FollowsSame DEF Tracks
<1> QED
  BY <1>1, <1>2

LEMMA UpdateCachesTracks ==
  ASSUME NEW c, NEW P, Tracks(c, P), edits \in [Files -> Nat]
  PROVE  /\ Tracks(UpdateCaches(c), P) /\ Follows(UpdateCaches(c), c)
         /\ UpdateCaches(c).state = c.state /\ UpdateCaches(c).config = c.config
         /\ UpdateCaches(c).cache = c.cache
         /\ "class" \notin UpdateCaches(c).modified /\ "recipe" \notin UpdateCaches(c).modified
         /\ UpdateCaches(c).read = c.read /\ UpdateCaches(c).missed = c.missed
<1>1. c \in CookerRecord
  BY DEF Tracks
<1>2. edits["recipe"] \in Nat
  BY DEF Files
<1>3. UpdateCaches(c) \in CookerRecord
  BY <1>1, <1>2 DEF UpdateCaches, CookerRecord
<1>4. /\ UpdateCaches(c).state = c.state /\ UpdateCaches(c).config = c.config
      /\ UpdateCaches(c).cache = c.cache /\ UpdateCaches(c).modified = {}
      /\ UpdateCaches(c).read = c.read /\ UpdateCaches(c).missed = c.missed
      /\ UpdateCaches(c).statements = IF "class" \in c.modified THEN None ELSE c.statements
      /\ UpdateCaches(c).mtime = IF "recipe" \in c.modified /\ c.mtime # None THEN edits["recipe"] ELSE c.mtime
  BY <1>1 DEF UpdateCaches, CookerRecord
<1>5. Follows(UpdateCaches(c), c)
  BY <1>1, <1>4, FollowsSame
<1>6. Tracks(UpdateCaches(c), P)
  BY <1>2, <1>3, <1>4 DEF Tracks
<1> QED
  BY <1>4, <1>5, <1>6

(* updateCacheSync() of a cooker that need not read the configuration, and *)
(* of one that does.                                                       *)
LEMMA SyncKeeps ==
  ASSUME NEW c, NEW P, NEW unread, Tracks(c, P), edits \in [Files -> Nat],
         c.state = "running" \/ c.config = "valid", NEW r \in UpdateCacheSync(c, unread)
  PROVE  /\ ~r.fails /\ r.fails \in BOOLEAN
         /\ Tracks(r.ck, P) /\ Follows(r.ck, c)
         /\ r.ck.state = c.state /\ r.ck.config = c.config /\ r.ck.cache = c.cache
         /\ r.ck.read = c.read /\ r.ck.missed = c.missed
         /\ c.state # "running" => "recipe" \notin r.ck.modified
<1>1. r.fails = FALSE /\ r.ck = IF c.state = "running" THEN c ELSE UpdateCaches(c)
  BY DEF UpdateCacheSync, Unchanged
<1>2. ~r.fails /\ r.fails \in BOOLEAN
  BY <1>1, Zenon
<1>3. c \in CookerRecord
  BY DEF Tracks
<1>4. CASE c.state = "running"
  BY <1>1, <1>2, <1>3, <1>4, FollowsSame
<1>5. CASE c.state # "running"
  BY <1>1, <1>2, <1>5, UpdateCachesTracks
<1> QED
  BY <1>4, <1>5

LEMMA SyncReads ==
  ASSUME NEW c, NEW P, NEW unread, Tracks(c, P), edits \in [Files -> Nat],
         c.state # "running", c.config # "valid", NEW r \in UpdateCacheSync(c, unread)
  PROVE  /\ Tracks(r.ck, P \ (unread \cap {"config", "class"})) /\ Follows(r.ck, c)
         /\ r.fails \in BOOLEAN /\ r.ck.state = "initial" /\ "recipe" \notin r.ck.modified
         /\ r.fails => r.ck.config = c.config /\ r.ck.cache = c.cache
         /\ ~r.fails => r.ck.config = "valid" /\ ~r.ck.cache
<1> DEFINE d == UpdateCaches(c)
<1>1. Tracks(d, P) /\ Follows(d, c) /\ d.config = c.config /\ d.cache = c.cache
  BY UpdateCachesTracks
<1>b. "class" \notin d.modified /\ "recipe" \notin d.modified
  BY UpdateCachesTracks
<1>2. r \in InitConfigurationData(d, unread)
  BY DEF UpdateCacheSync
<1>a. ("class" \in d.modified => "class" \in unread) /\ d.config # "valid"
  BY <1>1, <1>b
<1> HIDE DEF d
<1>3. /\ Tracks(r.ck, P \ (unread \cap {"config", "class"})) /\ Follows(r.ck, d)
      /\ r.fails \in BOOLEAN /\ r.ck.state = "initial"
      /\ r.fails => r.ck.config = d.config /\ r.ck.cache = d.cache
      /\ ~r.fails => r.ck.config = "valid" /\ ~r.ck.cache
  BY <1>1, <1>2, <1>a, InitTracks
<1>c. "recipe" \in r.ck.modified => "recipe" \in d.modified
  BY <1>1, <1>2, <1>a, InitTracks
<1>4. Follows(r.ck, c)
  BY <1>1, <1>3, FollowsBoth DEF Tracks
<1> QED
  BY <1>1, <1>b, <1>c, <1>3, <1>4

LEMMA SyncValid ==
  ASSUME NEW c, NEW P, NEW unread, Tracks(c, P), edits \in [Files -> Nat], c.state # "running",
         NEW r \in UpdateCacheSync(c, unread), ~r.fails
  PROVE  r.ck.config = "valid"
<1>1. CASE c.config = "valid"
  BY <1>1, SyncKeeps
<1>2. CASE c.config # "valid"
  BY <1>2, SyncReads
<1> QED
  BY <1>1, <1>2

(* With no notification left unread. *)
LEMMA SyncTracks ==
  ASSUME NEW c, Tracks(c, {}), edits \in [Files -> Nat], NEW r \in UpdateCacheSync(c, {})
  PROVE  /\ Tracks(r.ck, {}) /\ Follows(r.ck, c) /\ r.fails \in BOOLEAN
         /\ ~r.fails /\ c.state # "running" => r.ck.config = "valid"
<1>1. CASE c.state = "running" \/ c.config = "valid"
  BY <1>1, SyncKeeps
<1>2. CASE c.state # "running" /\ c.config # "valid"
  <2> DEFINE none == {}
  <2>0. none \ (none \cap {"config", "class"}) = {}
    OBVIOUS
  <2>1. Tracks(c, none) /\ r \in UpdateCacheSync(c, none)
    OBVIOUS
  <2> HIDE DEF none
  <2>2. Tracks(r.ck, none \ (none \cap {"config", "class"})) /\ Follows(r.ck, c) /\ r.fails \in BOOLEAN
    BY <1>2, <2>1, SyncReads
  <2>3. ~r.fails => r.ck.config = "valid"
    BY <1>2, SyncValid
  <2> QED
    BY <2>0, <2>2, <2>3
<1> QED
  BY <1>1, <1>2

LEMMA SyncedTracks ==
  ASSUME Tracks(ck, pending), edits \in [Files -> Nat], NEW r \in Synced
  PROVE  Tracks(r.ck, {}) /\ Follows(r.ck, ck)
<1>1. PICK s \in InitConfigdata(ck) :
        r \in IF s.fails THEN {s} ELSE UpdateCacheSync(Notified(s.ck), {})
  BY DEF Synced
<1>2. Tracks(s.ck, pending) /\ Follows(s.ck, ck) /\ (s.fails => Tracks(s.ck, {}))
  BY InitConfigdataTracks
<1>3. CASE s.fails
  BY <1>1, <1>2, <1>3
<1>4. CASE ~s.fails
  <2> DEFINE d == Notified(s.ck)
  <2>1. Tracks(d, {}) /\ Follows(d, s.ck)
    BY <1>2, NotifiedTracks
  <2>2. r \in UpdateCacheSync(d, {})
    BY <1>1, <1>4
  <2> HIDE DEF d
  <2>3. Tracks(r.ck, {}) /\ Follows(r.ck, d)
    BY <2>1, <2>2, SyncTracks
  <2>4. Follows(d, ck)
    BY <1>2, <2>1, FollowsBoth DEF Tracks
  <2>5. Follows(r.ck, ck)
    BY <2>1, <2>3, <2>4, FollowsBoth DEF Tracks
  <2> QED
    BY <2>3, <2>5
<1> QED
  BY <1>3, <1>4

(* buildFile() reads what it builds. *)
LEMMA BuildsFileTracks ==
  ASSUME Tracks(ck, pending), edits \in [Files -> Nat], ck.state # "running", NEW r \in BuildsFile
  PROVE  Tracks(r.ck, {}) /\ Follows(r.ck, ck) /\ r.fails \in BOOLEAN /\ (~r.fails => r.ck.config = "valid")
<1> DEFINE d == Notified(ck)
<1>1. Tracks(d, {}) /\ Follows(d, ck) /\ d.state = ck.state
  BY NotifiedTracks
<1>2. PICK s \in UpdateCacheSync(d, {}) :
        r = IF s.fails THEN s
            ELSE [s EXCEPT !.ck.cache = FALSE, !.ck.mtime = IF @ = None THEN edits["recipe"] ELSE @]
  BY DEF BuildsFile
<1> HIDE DEF d
<1>3. /\ Tracks(s.ck, {}) /\ Follows(s.ck, d) /\ s.fails \in BOOLEAN
      /\ ~s.fails => s.ck.config = "valid"
  BY <1>1, <1>2, SyncTracks
<1>4. Follows(s.ck, ck)
  BY <1>1, <1>3, FollowsBoth DEF Tracks
<1>5. CASE s.fails
  BY <1>2, <1>3, <1>4, <1>5
<1>6. CASE ~s.fails
  <2>1. s \in [fails : BOOLEAN, ck : CookerRecord] /\ edits["recipe"] \in Nat
    <3>1. \E f, x : s = [fails |-> f, ck |-> x]
      BY <1>2 DEF UpdateCacheSync, Unchanged, InitConfigurationData
    <3>2. s.ck \in CookerRecord /\ s.fails \in BOOLEAN
      BY <1>3 DEF Tracks
    <3> QED
      BY <3>1, <3>2 DEF Files
  <2>2. /\ r.fails = s.fails
        /\ r.ck = [s.ck EXCEPT !.cache = FALSE, !.mtime = IF @ = None THEN edits["recipe"] ELSE @]
    BY <1>2, <1>6, <2>1 DEF CookerRecord
  <2>3. s.ck \in CookerRecord
    BY <2>1
  <2>4. /\ r.ck \in CookerRecord
        /\ r.ck.state = s.ck.state /\ r.ck.config = s.ck.config /\ r.ck.read = s.ck.read /\ ~r.ck.cache
        /\ r.ck.statements = s.ck.statements /\ r.ck.modified = s.ck.modified /\ r.ck.missed = s.ck.missed
        /\ r.ck.mtime = IF s.ck.mtime = None THEN edits["recipe"] ELSE s.ck.mtime
    BY <2>1, <2>2, <2>3 DEF CookerRecord
  <2>5. Tracks(r.ck, {})
    BY <1>3, <1>6, <2>1, <2>4 DEF Tracks
  <2>6. Follows(r.ck, s.ck)
    BY <2>3, <2>4, FollowsSame
  <2>7. Follows(r.ck, ck)
    BY <1>4, <2>3, <2>4, <2>6, FollowsBoth DEF Tracks
  <2> QED
    BY <1>3, <1>6, <2>2, <2>4, <2>5, <2>7
<1> QED
  BY <1>5, <1>6

LEMMA ShutDownTracks ==
  ASSUME NEW d, NEW P, Tracks(d, P), edits \in [Files -> Nat], NEW c \in ShutDown(d)
  PROVE  Tracks(c, P) /\ Follows(c, d) /\ c.state = d.state
<1>1. PICK p \in {"busy", "stopped", d.parser} : c = [d EXCEPT !.parser = p] /\ (p # d.parser => d.parser = "busy")
  BY DEF ShutDown
<1>2. d \in CookerRecord
  BY DEF Tracks
<1>3. /\ c \in CookerRecord /\ c.state = d.state /\ c.read = d.read /\ c.config = d.config /\ c.cache = d.cache
      /\ c.statements = d.statements /\ c.mtime = d.mtime /\ c.modified = d.modified /\ c.missed = d.missed
  BY <1>1, <1>2 DEF CookerRecord
<1>4. Tracks(c, P)
  BY <1>3 DEF Tracks
<1> QED
  BY <1>2, <1>3, <1>4, FollowsSame

(* A new state of the cooker alone. *)
LEMMA StateTracks ==
  ASSUME NEW d, NEW P, Tracks(d, P), NEW s \in {"initial", "parsing", "running"} \cup Stopped
  PROVE  /\ Tracks([d EXCEPT !.state = s], P)
         /\ [d EXCEPT !.state = s].state = s
         /\ [d EXCEPT !.state = s].read = d.read /\ [d EXCEPT !.state = s].missed = d.missed
         /\ [d EXCEPT !.state = s].config = d.config /\ [d EXCEPT !.state = s].cache = d.cache
<1>1. d \in CookerRecord
  BY DEF Tracks
<1> DEFINE c == [d EXCEPT !.state = s]
<1>2. /\ c \in CookerRecord /\ c.state = s
      /\ c.read = d.read /\ c.config = d.config /\ c.cache = d.cache
      /\ c.statements = d.statements /\ c.mtime = d.mtime /\ c.modified = d.modified /\ c.missed = d.missed
  BY <1>1 DEF CookerRecord
<1> HIDE DEF c
<1>3. Tracks(c, P)
  BY <1>2 DEF Tracks
<1> QED
  BY <1>2, <1>3 DEF c

LEMMA ClientCompleteTracks ==
  ASSUME NEW c, NEW P, Tracks(c, P)
  PROVE  Tracks(ClientComplete(c), P) /\ Follows(ClientComplete(c), c) /\ ClientComplete(c).state = "initial"
<1>1. c \in CookerRecord
  BY DEF Tracks
<1> DEFINE d == ClientComplete(c)
<1>2. /\ d \in CookerRecord /\ d.state = "initial" /\ d.read = c.read /\ ~d.cache
      /\ d.config = IF c.config = "none" THEN "none" ELSE "invalid"
      /\ d.statements = c.statements /\ d.mtime = c.mtime /\ d.modified = c.modified /\ d.missed = c.missed
  BY <1>1 DEF CookerRecord, ClientComplete
<1> HIDE DEF d
<1>3. Tracks(d, P)
  BY <1>2 DEF Tracks
<1>4. Follows(d, c)
  BY <1>1, <1>2, FollowsSame
<1> QED
  BY <1>2, <1>3, <1>4 DEF d

(* A parser is started: what its watcher passes over is missed.            *)
LEMMA SetupTracks ==
  ASSUME NEW c, NEW P, Tracks(c, P), edits \in [Files -> Nat], P \subseteq pending, "recipe" \notin c.modified,
         ~c.cache, c.config # "none"
  PROVE  /\ Tracks(SetupParser(c), P \ {"recipe"})
         /\ SetupParser(c).read = c.read /\ SetupParser(c).config = c.config
         /\ \A f \in {"config", "class"} : f \in SetupParser(c).missed <=> f \in c.missed
         /\ SetupParser(c).mtime \in Nat /\ SetupParser(c).mtime <= edits["recipe"]
         /\ SetupParser(c).mtime = edits["recipe"] \/ "recipe" \in SetupParser(c).missed
<1> DEFINE version == IF c.mtime = None THEN edits["recipe"] ELSE c.mtime
           ms == Missed(c, "recipe", version, pending)
           d == SetupParser(c)
<1>1. c \in CookerRecord /\ edits["recipe"] \in Nat /\ c.missed \subseteq Files
  BY DEF Tracks, CookerRecord, Files
<1>2. /\ version \in Nat /\ version <= edits["recipe"]
  BY <1>1 DEF Tracks, CookerRecord
<1>3. ms = IF version = edits["recipe"] THEN c.missed \ {"recipe"} ELSE c.missed \cup (pending \cap {"recipe"})
  BY DEF Missed
<1>4. version = edits["recipe"] \/ "recipe" \in ms
  BY <1>3 DEF Tracks
<1>5. ms \subseteq Files
  BY <1>1, <1>3 DEF Files
<1>6. d = [c EXCEPT !.rwatch = "some", !.mtime = version, !.missed = ms]
  BY DEF SetupParser
<1> HIDE DEF version, ms, d
<1>7. /\ d \in CookerRecord /\ d.read = c.read /\ d.config = c.config /\ d.cache = c.cache
      /\ d.statements = c.statements /\ d.modified = c.modified /\ d.mtime = version /\ d.missed = ms
  BY <1>1, <1>2, <1>5, <1>6 DEF CookerRecord
<1>8. \A f \in {"config", "class"} : f \in ms <=> f \in c.missed
  BY <1>3
<1>9. Tracks(d, P \ {"recipe"})
  <2>1. d.config = "valid" =>
          \A f \in {"config", "class"} : d.read[f] = edits[f] \/ f \in (P \ {"recipe"}) \cup d.missed
    BY <1>7, <1>8 DEF Tracks
  <2>2. d.statements # None =>
          d.statements = edits["class"] \/ "class" \in (P \ {"recipe"}) \cup d.modified \cup d.missed
    BY <1>7, <1>8 DEF Tracks
  <2>3. d.mtime <= edits["recipe"] /\ (d.mtime = edits["recipe"] \/ "recipe" \in d.missed)
    BY <1>2, <1>4, <1>7
  <2> QED
    BY <1>7, <2>1, <2>2, <2>3 DEF Tracks
<1> QED
  BY <1>2, <1>4, <1>7, <1>8, <1>9 DEF d

----------------------------------------------------------------------------
(* What a command finds read.                                              *)

(* Steps that read nothing and take nothing back. *)
LEMMA Kept ==
  ASSUME Fresh, UNCHANGED <<pc, cmd>>, edits' \in [Files -> Nat], \A f \in Files : edits'[f] >= edits[f],
         Tracks(ck, pending)', ck'.state \in {ck.state} \cup Stopped,
         ck'.read = ck.read, ck'.config = ck.config, ck'.cache = ck.cache, ck.missed \subseteq ck'.missed
  PROVE  Fresh'
<1>1. \A f \in Files : FreshFor(f) => FreshFor(f)'
  BY DEF FreshFor
<1>2. ck'.state \in {"parsing", "running"} => cmd' # None /\ NeedCache' /\ \A f \in Files : FreshFor(f)'
  BY <1>1 DEF Fresh, NeedCache, Stopped
<1>3. cmd # None => /\ cmd \in [n : Nat, kind : AllKinds, edits : [Files -> Nat]]
                    /\ \A g \in Files : cmd.edits[g] <= edits'[g]
  BY DEF Fresh
<1>4. pc = "update" => /\ ck'.state # "running" /\ cmd' # None /\ NeedCache'
                       /\ ck'.config = "valid" => FreshFor("config")' /\ FreshFor("class")'
                       /\ ck'.cache => FreshFor("recipe")'
  BY <1>1 DEF Fresh, NeedCache, Stopped, Files
<1>5. pc = "parse" => cmd' # None /\ NeedCache' /\ \A f \in Files : FreshFor(f)'
  BY <1>1 DEF Fresh, NeedCache
<1> QED
  BY <1>2, <1>3, <1>4, <1>5 DEF Fresh

(* Steps within a command, or without one, that do not parse. *)
LEMMA Calm ==
  ASSUME Fresh, UNCHANGED <<cmd, edits>>, Tracks(ck', pending'), Follows(ck', ck), pc' \notin {"update", "parse"}
  PROVE  Fresh'
<1>1. Tracks(ck, pending)'
  BY DEF Tracks
<1>2. ck'.read \in [Files -> Nat] /\ ck.read \in [Files -> Nat]
  BY DEF Fresh, Tracks, CookerRecord
<1>3. ASSUME ck'.state \in {"parsing", "running"} PROVE cmd' # None /\ NeedCache' /\ \A f \in Files : FreshFor(f)'
  <2>1. ck.state \in {"parsing", "running"}
    BY <1>3 DEF Follows, Stopped
  <2>2. /\ cmd # None /\ NeedCache
        /\ \A f \in Files : FreshFor(f) /\ cmd.edits[f] \in Nat /\ cmd.edits[f] <= edits[f] /\ edits[f] \in Nat
    BY <2>1 DEF Fresh
  <2> QED
    BY <1>2, <2>2 DEF NeedCache, FreshFor, Follows
<1> QED
  BY <1>1, <1>3 DEF Fresh

(* The end of a command. *)
LEMMA Over ==
  ASSUME Fresh, cmd' = None, UNCHANGED edits, Tracks(ck', pending'),
         ck'.state \notin {"parsing", "running"}, pc' \notin {"update", "parse"}
  PROVE  Fresh'
<1>1. Tracks(ck, pending)'
  BY DEF Tracks
<1> QED
  BY <1>1 DEF Fresh

LEMMA FinishIsOver ==
  ASSUME Fresh, NEW c, Tracks(c, pending'), FinishAsyncCommand(c), UNCHANGED edits, pc' \notin {"update", "parse"}
  PROVE  Fresh'
<1>1. cmd' = None /\ ck' = [c EXCEPT !.state = "initial"]
  BY DEF FinishAsyncCommand
<1>2. Tracks(ck', pending') /\ ck'.state = "initial"
  BY <1>1, StateTracks
<1> QED
  BY <1>1, <1>2, Over

LEMMA NowNotified ==
  ASSUME Fresh PROVE Tracks(Notified(ck), {}) /\ Follows(Notified(ck), ck) /\ Notified(ck).state = ck.state
BY NotifiedTracks DEF Fresh

LEMMA Self == ASSUME Fresh PROVE Tracks(ck, pending) /\ Follows(ck, ck)
BY FollowsSame DEF Fresh, Tracks

LEMMA StopsTracks ==
  ASSUME Tracks(ck, pending), edits \in [Files -> Nat], NEW force \in BOOLEAN, NEW s \in StopsCooker(force)
  PROVE  Tracks(s.ck, {}) /\ Follows(s.ck, ck) /\ (~s.fails => s.ck.state \in Stopped)
<1>1. PICK r \in Synced :
        s \in IF r.fails THEN {r}
              ELSE {[fails |-> FALSE,
                     ck |-> [c EXCEPT !.state = IF force THEN "forceshutdown" ELSE "shutdown"]] :
                       c \in ShutDown(r.ck)}
  BY DEF StopsCooker
<1>2. Tracks(r.ck, {}) /\ Follows(r.ck, ck)
  BY SyncedTracks
<1>3. CASE r.fails
  BY <1>1, <1>2, <1>3
<1>4. CASE ~r.fails
  <2>1. PICK c \in ShutDown(r.ck) :
          s = [fails |-> FALSE, ck |-> [c EXCEPT !.state = IF force THEN "forceshutdown" ELSE "shutdown"]]
    BY <1>1, <1>4
  <2> DEFINE st == IF force THEN "forceshutdown" ELSE "shutdown"
  <2>2. s.ck = [c EXCEPT !.state = st]
    BY <2>1
  <2>3. st \in Stopped
    BY DEF Stopped
  <2>4. Tracks(c, {}) /\ Follows(c, r.ck)
    BY <1>2, ShutDownTracks
  <2> HIDE DEF st
  <2>5. Tracks(s.ck, {}) /\ s.ck.state = st /\ s.ck.read = c.read /\ s.ck.missed = c.missed
    BY <2>2, <2>3, <2>4, StateTracks
  <2>6. Follows(c, ck)
    BY <1>2, <2>4, FollowsBoth DEF Tracks
  <2> QED
    BY <2>3, <2>5, <2>6 DEF Follows
<1> QED
  BY <1>3, <1>4

(* setFeatures and updateConfig. *)
LEMMA FreshSets == ASSUME Fresh, NEW u, SetFeatures(u) \/ UpdateConfig(u) PROVE Fresh'
<1> DEFINE d == Notified(ck)
<1>1. Tracks(d, {}) /\ Follows(d, ck) /\ edits \in [Files -> Nat]
  BY NowNotified DEF Fresh
<1>2. PICK results : Sets(u, results) /\ \A r \in results : r.ck = d \/ r \in Reset(d)
  BY DEF SetFeatures, UpdateConfig, Unchanged
<1>3. /\ UNCHANGED <<cmd, edits>> /\ pc' = "tick" /\ pending' = {}
      /\ ck' = d \/ \E r \in Reset(d) : ck' = r.ck
  BY <1>2 DEF Sets, Serve
<1> HIDE DEF d
<1>4. CASE ck' = d
  BY <1>1, <1>3, <1>4, Calm
<1>5. ASSUME NEW r \in Reset(d), ck' = r.ck PROVE Fresh'
  <2>1. Tracks(ck', {}) /\ Follows(ck', d)
    BY <1>1, <1>5, ResetTracks
  <2>2. Follows(ck', ck)
    BY <1>1, <2>1, FollowsBoth DEF Fresh, Tracks
  <2> QED
    BY <1>3, <2>1, <2>2, Calm
<1> QED
  BY <1>3, <1>4, <1>5

LEMMA FreshRequests ==
  ASSUME Fresh, NEW u, NoRequest \/ Connect(u) \/ Disconnect(u) \/ SyncCommand(u) \/ StopCommand(u)
  PROVE  Fresh'
<1>1. UNCHANGED <<cmd, edits>> /\ pc' \in {"tick", "exit"}
  BY DEF NoRequest, Connect, Disconnect, SyncCommand, StopCommand, clients, Serve
<1>2. CASE NoRequest \/ Connect(u)
  <2>1. UNCHANGED <<ck, pending>>
    BY <1>2 DEF NoRequest, Connect
  <2> QED
    BY <1>1, <2>1, Self, Calm
<1>3. CASE Disconnect(u)
  <2>1. ck' = ClientComplete(ck) /\ pending' = pending
    BY <1>3 DEF Disconnect
  <2> QED
    BY <1>1, <2>1, Self, ClientCompleteTracks, Calm
<1>4. CASE SyncCommand(u)
  <2>1. PICK r \in Synced : ck' = r.ck /\ pending' = {}
    BY <1>4 DEF SyncCommand
  <2> QED
    BY <1>1, <2>1, SyncedTracks, Calm DEF Fresh
<1>5. CASE StopCommand(u)
  <2>1. PICK force \in BOOLEAN : \E s \in StopsCooker(force) : ck' = s.ck /\ pending' = {}
    BY <1>5 DEF StopCommand
  <2>2. PICK s \in StopsCooker(force) : ck' = s.ck
    BY <2>1
  <2>3. Tracks(s.ck, {}) /\ Follows(s.ck, ck)
    BY StopsTracks DEF Fresh
  <2> QED
    BY <1>1, <2>1, <2>2, <2>3, Calm
<1> QED
  BY <1>2, <1>3, <1>4, <1>5

LEMMA FreshCommand ==
  ASSUME Inv, Fresh, NEW u, NEW kind \in Kinds, AsyncCommand(u, kind) PROVE Fresh'
<1>1. PICK first \in InitConfigdata(ck) :
        /\ ck' = first.ck
        /\ pc' = "tick" /\ UNCHANGED <<pending, edits>>
        /\ \/ cmd' = cmd
           \/ cmd = None /\ cmd' = [n |-> count.commands + 1, kind |-> kind, edits |-> edits]
  BY DEF AsyncCommand, Serve, Busy
<1>2. Tracks(ck', pending') /\ Follows(ck', ck)
  BY <1>1, InitConfigdataTracks DEF Fresh
<1>3. CASE cmd' = cmd
  BY <1>1, <1>2, <1>3, Calm
<1>4. CASE cmd = None /\ cmd' = [n |-> count.commands + 1, kind |-> kind, edits |-> edits]
  <2>1. ck'.state \notin {"parsing", "running"}
    BY <1>2, <1>4 DEF Fresh, Follows, Stopped
  <2>2. count.commands \in Nat /\ kind \in AllKinds
    BY CookerAssumption DEF Inv, Numbered, Counted
  <2>3. cmd' \in [n : Nat, kind : AllKinds, edits : [Files -> Nat]] /\ cmd'.edits = edits
    BY <1>4, <2>2 DEF Fresh
  <2>4. Tracks(ck, pending)'
    BY <1>1, <1>2 DEF Tracks
  <2> QED
    BY <1>1, <2>1, <2>3, <2>4 DEF Fresh
<1> QED
  BY <1>1, <1>3, <1>4

LEMMA FreshUpdates == ASSUME Inv, Fresh, RunUpdates PROVE Fresh'
<1>1. /\ Tracks(Notified(ck), {}) /\ Notified(ck).state = ck.state
      /\ Notified(ck).read = ck.read /\ Notified(ck).missed = ck.missed
      /\ ck' = Notified(ck) /\ pending' = {} /\ pc' = "update" /\ UNCHANGED <<cmd, edits>>
      /\ ck.state \notin Stopped \cup {"running"} /\ NeedCache
  BY NotifiedTracks DEF RunUpdates, clients, Fresh
<1>2. cmd # None
  BY RunsWithCommand DEF Inv, RunUpdates
<1>3. Tracks(ck, pending)'
  BY <1>1 DEF Tracks
<1>4. \A f \in Files : cmd.edits[f] <= edits[f] /\ cmd.edits[f] \in Nat /\ edits[f] \in Nat
  BY <1>2 DEF Fresh
<1>5. ck'.config = "valid" => FreshFor("config")' /\ FreshFor("class")'
  BY <1>1, <1>4 DEF Tracks, FreshFor, Files
<1>6. ck'.cache => FreshFor("recipe")'
  BY <1>1, <1>4 DEF Tracks, FreshFor, Files
<1>7. ck'.state = "parsing" => \A f \in Files : FreshFor(f)'
  BY <1>1 DEF Fresh, FreshFor
<1> QED
  BY <1>1, <1>2, <1>3, <1>5, <1>6, <1>7 DEF Fresh, NeedCache

(* updateCache() *)
LEMMA FreshUpdate == ASSUME Fresh, Update PROVE Fresh'
<1> DEFINE P(r) == ck.state # "parsing" /\ ~r.fails /\ ~r.ck.cache
           C(r) == IF P(r) THEN SetupParser(r.ck) ELSE r.ck
           Reads == ck.state # "parsing" /\ ck.config # "valid"
           Left == IF Reads THEN pending \ {"config", "class"} ELSE pending
<1>1. PICK r \in IF ck.state = "parsing" THEN Unchanged(ck) ELSE UpdateCacheSync(ck, pending), fails \in BOOLEAN :
        /\ IF r.fails \/ (P(r) /\ fails)
           THEN FinishAsyncCommand(C(r)) /\ pc' = "tick"
           ELSE /\ \E version \in {edits["recipe"], C(r).mtime} :
                     ck' = IF P(r)
                           THEN [C(r) EXCEPT !.state = "parsing", !.cache = TRUE, !.parser = "busy",
                                             !.read["recipe"] = version]
                           ELSE [C(r) EXCEPT !.state = "parsing"]
                /\ pc' = "parse"
                /\ UNCHANGED cmd
        /\ pending' = pending \ ((IF P(r) THEN {"recipe"} ELSE {})
                                 \cup (IF ck.state = "parsing" \/ ck.config = "valid" THEN {}
                                       ELSE {"config", "class"}))
  BY DEF Update
<1>2. UNCHANGED edits /\ pc = "update" /\ edits \in [Files -> Nat] /\ cmd # None /\ NeedCache /\ ck.state # "running"
  BY DEF Update, clients, Fresh
<1>3. pending' = IF P(r) THEN Left \ {"recipe"} ELSE Left
  BY <1>1
<1>4. /\ cmd.edits \in [Files -> Nat] /\ \A f \in Files : cmd.edits[f] <= edits[f]
      /\ Tracks(ck, pending)
  BY <1>2 DEF Fresh
<1>5. /\ Tracks(r.ck, Left) /\ r.fails \in BOOLEAN
      /\ ~r.fails => /\ \A f \in {"config", "class"} : r.ck.read[f] >= cmd.edits[f] \/ f \in r.ck.missed
                     /\ r.ck.cache \/ ck.state = "parsing" =>
                          r.ck.read["recipe"] >= cmd.edits["recipe"] \/ "recipe" \in r.ck.missed
      /\ P(r) => "recipe" \notin r.ck.modified /\ r.ck.config = "valid"
  <2>1. CASE ck.state = "parsing"
    <3>1. r.ck = ck /\ r.fails = FALSE
      BY <1>1, <2>1 DEF Unchanged
    <3>2. r.ck = ck /\ ~r.fails /\ r.fails \in BOOLEAN
      BY <3>1, Zenon
    <3> QED
      BY <1>4, <2>1, <3>2 DEF Fresh, FreshFor, Files
  <2>2. CASE ck.state # "parsing" /\ ck.config = "valid"
    <3>1. r \in UpdateCacheSync(ck, pending)
      BY <1>1, <2>2
    <3>2. /\ ~r.fails /\ r.fails \in BOOLEAN /\ Tracks(r.ck, pending)
          /\ r.ck.config = ck.config /\ r.ck.cache = ck.cache /\ r.ck.read = ck.read /\ r.ck.missed = ck.missed
          /\ "recipe" \notin r.ck.modified
      BY <1>2, <1>4, <2>2, <3>1, SyncKeeps
    <3>3. FreshFor("config") /\ FreshFor("class") /\ (ck.cache => FreshFor("recipe"))
      BY <1>2, <2>2 DEF Fresh
    <3> QED
      BY <2>2, <3>2, <3>3 DEF FreshFor
  <2>3. CASE Reads
    <3>1. r \in UpdateCacheSync(ck, pending)
      BY <1>1, <2>3
    <3>2. /\ Tracks(r.ck, pending \ (pending \cap {"config", "class"})) /\ r.fails \in BOOLEAN
          /\ "recipe" \notin r.ck.modified
      BY <1>2, <1>4, <2>3, <3>1, SyncReads
    <3>3. ~r.fails => r.ck.config = "valid" /\ ~r.ck.cache
      BY <1>2, <1>4, <2>3, <3>1, SyncReads
    <3>4. pending \ (pending \cap {"config", "class"}) = Left
      BY <2>3
    <3>5. Tracks(r.ck, Left)
      BY <3>2, <3>4
    <3>6. "config" \notin Left /\ "class" \notin Left
      BY <2>3
    <3> HIDE DEF Left
    <3>7. ~r.fails => \A f \in {"config", "class"} : r.ck.read[f] >= cmd.edits[f] \/ f \in r.ck.missed
      BY <1>2, <1>4, <3>3, <3>5, <3>6 DEF Tracks, Files
    <3> QED
      BY <2>3, <3>2, <3>3, <3>5, <3>7
  <2> QED
    BY <2>1, <2>2, <2>3
<1>6. Left \subseteq pending
  OBVIOUS
<1> HIDE DEF Left
<1>7. CASE P(r)
  <2> DEFINE c == SetupParser(r.ck)
  <2>1. C(r) = c
    BY <1>7
  <2>2. "recipe" \notin r.ck.modified /\ ~r.ck.cache /\ r.ck.config = "valid" /\ r.ck.config # "none"
    BY <1>5, <1>7
  <2>3. /\ Tracks(c, Left \ {"recipe"}) /\ c.read = r.ck.read /\ c.config = r.ck.config
        /\ \A f \in {"config", "class"} : f \in c.missed <=> f \in r.ck.missed
        /\ c.mtime \in Nat /\ c.mtime <= edits["recipe"]
        /\ c.mtime = edits["recipe"] \/ "recipe" \in c.missed
    BY <1>2, <1>5, <1>6, <2>2, SetupTracks
  <2>4. Tracks(c, pending')
    BY <1>3, <1>7, <2>3
  <2> HIDE DEF c
  <2>5. CASE fails
    <3>1. FinishAsyncCommand(c) /\ pc' = "tick"
      BY <1>1, <1>7, <2>1, <2>5
    <3> QED
      BY <1>2, <2>4, <3>1, FinishIsOver
  <2>6. CASE ~fails
    <3>1. PICK version \in {edits["recipe"], c.mtime} :
            ck' = [c EXCEPT !.state = "parsing", !.cache = TRUE, !.parser = "busy", !.read["recipe"] = version]
      BY <1>1, <1>7, <2>1, <2>6
    <3>2. pc' = "parse" /\ UNCHANGED cmd
      BY <1>1, <1>7, <2>6
    <3>3. /\ c \in CookerRecord /\ c.read \in [Files -> Nat]
          /\ version \in Nat /\ version <= edits["recipe"] /\ (version = edits["recipe"] \/ "recipe" \in c.missed)
          /\ edits["recipe"] \in Nat
      BY <1>2, <2>3 DEF Tracks, CookerRecord, Files
    <3>4. /\ ck' \in CookerRecord /\ ck'.config = c.config /\ ck'.state = "parsing"
          /\ ck'.read = [c.read EXCEPT !["recipe"] = version]
          /\ ck'.statements = c.statements /\ ck'.mtime = c.mtime
          /\ ck'.modified = c.modified /\ ck'.missed = c.missed
      BY <3>1, <3>3 DEF CookerRecord, Files
    <3>5. ck'.read["recipe"] = version /\ \A f \in {"config", "class"} : ck'.read[f] = c.read[f]
      BY <3>3, <3>4 DEF Files
    <3>6. Tracks(ck', pending')
      <4>1. \A f \in Files : ck'.read[f] <= edits[f]
        BY <2>4, <3>3, <3>5 DEF Tracks, Files
      <4>2. ck'.config = "valid" =>
              \A f \in {"config", "class"} : ck'.read[f] = edits[f] \/ f \in pending' \cup ck'.missed
        BY <2>4, <3>4, <3>5 DEF Tracks
      <4>3. ck'.statements # None =>
              /\ ck'.read["class"] <= ck'.statements /\ ck'.statements <= edits["class"]
              /\ ck'.statements = edits["class"] \/ "class" \in pending' \cup ck'.modified \cup ck'.missed
        BY <2>4, <3>4, <3>5 DEF Tracks
      <4>4. ck'.read["recipe"] = edits["recipe"] \/ "recipe" \in pending' \cup ck'.missed
        BY <3>3, <3>4, <3>5
      <4>5. /\ ck'.mtime <= edits["recipe"]
            /\ ck'.mtime = edits["recipe"] \/ "recipe" \in pending' \cup ck'.modified \cup ck'.missed
        BY <2>3, <3>4
      <4>6. ck'.config # "none"
        BY <2>2, <2>3, <3>4
      <4> QED
        BY <3>4, <4>1, <4>2, <4>3, <4>4, <4>5, <4>6 DEF Tracks
    <3>7. Tracks(ck, pending)'
      BY <1>2, <3>6 DEF Tracks
    <3>8. \A f \in Files : FreshFor(f)'
      <4>1. FreshFor("recipe")'
        BY <1>4, <3>2, <3>3, <3>4, <3>5 DEF FreshFor, Files
      <4>2. ~r.fails
        BY <1>7
      <4>3. \A f \in {"config", "class"} : FreshFor(f)'
        BY <1>5, <4>2, <2>3, <3>2, <3>4, <3>5 DEF FreshFor
      <4> QED
        BY <4>1, <4>3 DEF Files
    <3> QED
      BY <1>2, <1>4, <3>2, <3>7, <3>8 DEF Fresh, NeedCache
  <2> QED
    BY <2>5, <2>6
<1>8. CASE ~P(r)
  <2>1. C(r) = r.ck /\ Tracks(r.ck, pending')
    BY <1>3, <1>5, <1>8
  <2>2. CASE r.fails
    <3>1. FinishAsyncCommand(r.ck) /\ pc' = "tick"
      BY <1>1, <2>1, <2>2
    <3> QED
      BY <1>2, <2>1, <3>1, FinishIsOver
  <2>3. CASE ~r.fails
    <3>1. ck' = [r.ck EXCEPT !.state = "parsing"] /\ pc' = "parse" /\ UNCHANGED cmd
      BY <1>1, <1>8, <2>1, <2>3
    <3>2. Tracks(ck', pending') /\ ck'.read = r.ck.read /\ ck'.missed = r.ck.missed
      BY <2>1, <3>1, StateTracks
    <3>3. r.ck.cache \/ ck.state = "parsing"
      BY <1>8, <2>3
    <3>4. \A f \in Files : FreshFor(f)'
      BY <1>5, <2>3, <3>1, <3>2, <3>3 DEF FreshFor, Files
    <3>5. Tracks(ck, pending)'
      BY <1>2, <3>2 DEF Tracks
    <3> QED
      BY <1>2, <1>4, <3>1, <3>4, <3>5 DEF Fresh, NeedCache
  <2> QED
    BY <1>5, <2>2, <2>3
<1> QED
  BY <1>7, <1>8

LEMMA FreshParses == ASSUME Fresh, ParseMore \/ ParseComplete \/ ParseFails PROVE Fresh'
<1>1. UNCHANGED <<pending, edits>> /\ pc = "parse" /\ pc' = "tick" /\ edits \in [Files -> Nat]
  BY DEF ParseMore, ParseComplete, ParseFails, clients, Fresh
<1>2. CASE ParseMore
  <2>1. UNCHANGED <<ck, cmd>>
    BY <1>2 DEF ParseMore
  <2> QED
    BY <1>1, <2>1, Self, Calm
<1>3. CASE ParseComplete
  <2>1. ck' = [ck EXCEPT !.parser = "done", !.state = "running", !.rwatch = "all"] /\ UNCHANGED cmd
    BY <1>3 DEF ParseComplete
  <2>2. ck \in CookerRecord
    BY DEF Fresh, Tracks
  <2>3. /\ ck' \in CookerRecord /\ ck'.read = ck.read /\ ck'.config = ck.config /\ ck'.cache = ck.cache
        /\ ck'.statements = ck.statements /\ ck'.mtime = ck.mtime
        /\ ck'.modified = ck.modified /\ ck'.missed = ck.missed
    BY <2>1, <2>2 DEF CookerRecord
  <2>4. Tracks(ck, pending)'
    BY <1>1, <2>3 DEF Fresh, Tracks
  <2>5. cmd' # None /\ NeedCache' /\ \A f \in Files : FreshFor(f)'
    BY <1>1, <2>1, <2>3 DEF Fresh, FreshFor, NeedCache
  <2> QED
    BY <1>1, <2>1, <2>4, <2>5 DEF Fresh
<1>4. CASE ParseFails
  <2> DEFINE c == [ck EXCEPT !.parser = "failed"]
  <2>1. FinishAsyncCommand(c)
    BY <1>4 DEF ParseFails
  <2>2. ck \in CookerRecord
    BY DEF Fresh, Tracks
  <2>3. /\ c \in CookerRecord /\ c.read = ck.read /\ c.config = ck.config /\ c.cache = ck.cache
        /\ c.statements = ck.statements /\ c.mtime = ck.mtime
        /\ c.modified = ck.modified /\ c.missed = ck.missed
    BY <2>2 DEF CookerRecord
  <2> HIDE DEF c
  <2>4. Tracks(c, pending')
    BY <1>1, <2>3 DEF Fresh, Tracks
  <2> QED
    BY <1>1, <2>1, <2>4, FinishIsOver
<1> QED
  BY <1>2, <1>3, <1>4

LEMMA FreshRunEnds ==
  ASSUME Inv, Fresh, RunStopped \/ RunCompletes \/ RunClientComplete \/ RunTriggerEvent PROVE Fresh'
<1> DEFINE d == Notified(ck)
<1>1. UNCHANGED edits /\ pending' = {} /\ pc' = "tick" /\ edits \in [Files -> Nat]
  BY DEF RunStopped, RunCompletes, RunClientComplete, RunTriggerEvent, Runs, RunsCommands, clients, Fresh
<1>2. Tracks(d, {}) /\ d.state = ck.state
  BY NowNotified
<1>3. CASE RunStopped
  <2>1. PICK c \in ShutDown(d) : FinishAsyncCommand(c)
    BY <1>3 DEF RunStopped
  <2> HIDE DEF d
  <2>2. Tracks(c, {})
    BY <1>1, <1>2, ShutDownTracks
  <2> QED
    BY <1>1, <2>1, <2>2, FinishIsOver
<1>4. CASE RunCompletes
  <2>1. PICK r \in IF cmd.kind = "reset" THEN Reset(d)
                   ELSE IF cmd.kind = "file" THEN BuildsFile ELSE Unchanged(d) : FinishAsyncCommand(r.ck)
    BY <1>4 DEF RunCompletes
  <2>2. CASE r \in Reset(d)
    <3> HIDE DEF d
    <3>1. Tracks(r.ck, {})
      BY <1>1, <1>2, <2>2, ResetTracks
    <3> QED
      BY <1>1, <2>1, <3>1, FinishIsOver
  <2>3. CASE r \in BuildsFile /\ cmd.kind = "file"
    <3>1. ck.state # "running"
      BY <2>3 DEF Fresh, NeedCache
    <3>2. Tracks(r.ck, {})
      BY <1>1, <2>3, <3>1, BuildsFileTracks DEF Fresh
    <3> QED
      BY <1>1, <2>1, <3>2, FinishIsOver
  <2>4. CASE r \in Unchanged(d)
    <3>1. r.ck = d
      BY <2>4 DEF Unchanged
    <3> HIDE DEF d
    <3> QED
      BY <1>1, <1>2, <2>1, <3>1, FinishIsOver
  <2> QED
    BY <2>1, <2>2, <2>3, <2>4
<1>5. CASE RunClientComplete
  <2>1. FinishAsyncCommand(ClientComplete(d))
    BY <1>5 DEF RunClientComplete
  <2> HIDE DEF d
  <2> QED
    BY <1>1, <1>2, <2>1, ClientCompleteTracks, FinishIsOver
<1>6. CASE RunTriggerEvent
  <2>1. cmd' = None /\ ck' = d /\ cmd.kind = "trigger"
    BY <1>6 DEF RunTriggerEvent, Runs
  <2>2. ck'.state \notin {"parsing", "running"}
    BY <1>2, <2>1 DEF Fresh, NeedCache
  <2> HIDE DEF d
  <2> QED
    BY <1>1, <1>2, <2>1, <2>2, Over
<1> QED
  BY <1>3, <1>4, <1>5, <1>6

LEMMA StartsBuildTracks ==
  ASSUME Inv, Fresh, RunStartsBuild
  PROVE  /\ Fresh'
         /\ cmd # None
         /\ \A f \in {"config", "class"} \cup (IF cmd.kind = "build" THEN {"recipe"} ELSE {}) :
              ck'.read[f] >= cmd.edits[f] \/ f \in ck'.missed
<1>1. /\ cmd # None /\ cmd.edits \in [Files -> Nat] /\ \A f \in Files : cmd.edits[f] <= edits[f]
      /\ edits \in [Files -> Nat]
  BY RunsWithCommand DEF Inv, Fresh, RunStartsBuild, Runs
<1>2. /\ UNCHANGED <<cmd, edits>> /\ pc' \notin {"update", "parse"} /\ pending' = {}
      /\ cmd.kind \in {"build", "file"} /\ (NeedCache => ck.state = "running")
  BY DEF RunStartsBuild, Runs, RunsCommands, clients
<1>3. CASE cmd.kind = "file"
  <2>1. PICK r \in BuildsFile : ~r.fails /\ ck' = r.ck
    BY <1>3 DEF RunStartsBuild
  <2>2. ck.state # "running"
    BY <1>3 DEF Fresh, NeedCache
  <2>3. Tracks(ck', {}) /\ Follows(ck', ck) /\ ck'.config = "valid"
    BY <1>1, <2>1, <2>2, BuildsFileTracks DEF Fresh
  <2>4. Fresh'
    BY <1>2, <2>3, Calm
  <2>5. \A f \in {"config", "class"} : ck'.read[f] = edits[f] \/ f \in ck'.missed
    BY <2>3 DEF Tracks
  <2>6. \A f \in {"config", "class"} : ck'.read[f] >= cmd.edits[f] \/ f \in ck'.missed
    BY <1>1, <2>5 DEF Files
  <2> QED
    BY <1>1, <1>3, <2>4, <2>6
<1>4. CASE cmd.kind = "build"
  <2>1. ck' = Notified(ck)
    BY <1>4 DEF RunStartsBuild, Unchanged
  <2>2. Tracks(ck', {}) /\ Follows(ck', ck) /\ ck'.read = ck.read /\ ck'.missed = ck.missed
    BY <2>1, NotifiedTracks DEF Fresh
  <2>3. Fresh'
    BY <1>2, <2>2, Calm
  <2>4. \A f \in Files : FreshFor(f)
    BY <1>2, <1>4 DEF NeedCache, Fresh
  <2> QED
    BY <1>1, <2>2, <2>3, <2>4 DEF FreshFor, Files
<1> QED
  BY <1>2, <1>3, <1>4

LEMMA FreshBuildSteps == ASSUME Inv, Fresh, BuildContinues \/ BuildEnds \/ BuildRaises PROVE Fresh'
<1>1. UNCHANGED <<edits, pending>> /\ pc' \notin {"update", "parse"}
  BY DEF BuildContinues, BuildEnds, BuildRaises, BuildTurn, clients
<1>2. CASE BuildContinues \/ BuildRaises
  <2>1. UNCHANGED <<ck, cmd>>
    BY <1>2 DEF BuildContinues, BuildRaises
  <2> QED
    BY <1>1, <2>1, Self, Calm
<1>3. CASE BuildEnds
  <2> DEFINE c == [ck EXCEPT !.cache = FALSE]
  <2>1. FinishAsyncCommand(c) \/ FinishAsyncCommand(ck)
    BY <1>3 DEF BuildEnds
  <2>2. ck \in CookerRecord
    BY DEF Fresh, Tracks
  <2>3. /\ c \in CookerRecord /\ c.read = ck.read /\ c.config = ck.config /\ ~c.cache
        /\ c.statements = ck.statements /\ c.mtime = ck.mtime
        /\ c.modified = ck.modified /\ c.missed = ck.missed
    BY <2>2 DEF CookerRecord
  <2> HIDE DEF c
  <2>4. Tracks(c, pending') /\ Tracks(ck, pending')
    BY <1>1, <2>3 DEF Fresh, Tracks
  <2> QED
    BY <1>1, <2>1, <2>4, FinishIsOver
<1> QED
  BY <1>2, <1>3

LEMMA FreshOtherSteps == ASSUME Inv, Fresh, Inotify \/ TickEnds \/ Exit PROVE Fresh'
<1>1. UNCHANGED <<cmd, edits>> /\ pc' \notin {"update", "parse"}
  BY DEF Inotify, TickEnds, Exit, clients
<1>2. CASE Inotify
  <2>1. ck' = Notified(ck) /\ pending' = {}
    BY <1>2 DEF Inotify
  <2> QED
    BY <1>1, <2>1, NowNotified, Calm
<1>3. CASE TickEnds
  <2>1. UNCHANGED <<ck, pending>>
    BY <1>3 DEF TickEnds
  <2> QED
    BY <1>1, <2>1, Self, Calm
<1>4. CASE Exit
  <2>1. PICK c \in ShutDown(ck) : ck' = [c EXCEPT !.state = "forceshutdown"] /\ pending' = pending
    BY <1>4 DEF Exit
  <2>2. Tracks(c, pending) /\ Follows(c, ck)
    BY ShutDownTracks DEF Fresh
  <2> DEFINE st == "forceshutdown"
  <2>a. st \in Stopped /\ st \in {"initial", "parsing", "running"} \cup Stopped
    BY DEF Stopped
  <2>b. ck' = [c EXCEPT !.state = st]
    BY <2>1
  <2> HIDE DEF st
  <2>3. Tracks(ck', pending) /\ ck'.state = st
    BY <2>a, <2>b, <2>2, StateTracks
  <2>4. ck'.read = c.read /\ ck'.missed = c.missed
    BY <2>a, <2>b, <2>2, StateTracks
  <2>5. Follows(ck', ck)
    BY <2>2, <2>3, <2>4, <2>a DEF Follows
  <2> QED
    BY <1>1, <2>1, <2>3, <2>5, Calm
<1> QED
  BY <1>2, <1>3, <1>4

(* The rest of the world, and what sets a watch. *)
LEMMA FreshWorldSteps ==
  ASSUME Fresh, NEW u, NEW f \in Files, AddFilewatch \/ Take(u) \/ Leave(u) \/ Edit(f) \/ Sigterm PROVE Fresh'
<1>1. UNCHANGED <<pc, cmd>>
  BY DEF AddFilewatch, Take, Leave, Edit, Sigterm, server, events
<1>2. ck \in CookerRecord /\ edits \in [Files -> Nat]
  BY DEF Fresh, Tracks
<1>3. CASE Take(u) \/ Leave(u)
  <2>1. UNCHANGED <<ck, pending, edits>>
    BY <1>3 DEF Take, Leave
  <2> QED
    BY <1>1, <2>1 DEF Fresh, Tracks, FreshFor, NeedCache
<1>4. CASE AddFilewatch
  <2>1. ck' = [ck EXCEPT !.watch = "on"] /\ UNCHANGED <<pending, edits>>
    BY <1>4 DEF AddFilewatch, clients
  <2>2. /\ ck' \in CookerRecord /\ ck'.read = ck.read /\ ck'.config = ck.config /\ ck'.cache = ck.cache
        /\ ck'.statements = ck.statements /\ ck'.mtime = ck.mtime
        /\ ck'.modified = ck.modified /\ ck'.missed = ck.missed /\ ck'.state = ck.state
    BY <1>2, <2>1 DEF CookerRecord
  <2>3. Tracks(ck, pending)'
    BY <2>1, <2>2 DEF Fresh, Tracks
  <2>4. \A g \in Files : edits'[g] >= edits[g]
    BY <1>2, <2>1
  <2> QED
    BY <1>1, <1>2, <2>1, <2>2, <2>3, <2>4, Kept
<1>5. CASE Sigterm
  <2>1. ck' = [ck EXCEPT !.state = "forceshutdown"] /\ UNCHANGED <<pending, edits>>
    BY <1>5 DEF Sigterm
  <2>2. /\ ck' \in CookerRecord /\ ck'.read = ck.read /\ ck'.config = ck.config /\ ck'.cache = ck.cache
        /\ ck'.statements = ck.statements /\ ck'.mtime = ck.mtime
        /\ ck'.modified = ck.modified /\ ck'.missed = ck.missed /\ ck'.state \in Stopped
    BY <1>2, <2>1 DEF CookerRecord, Stopped
  <2>3. Tracks(ck, pending)'
    BY <2>1, <2>2 DEF Fresh, Tracks
  <2>4. \A g \in Files : edits'[g] >= edits[g]
    BY <1>2, <2>1
  <2> QED
    BY <1>1, <1>2, <2>1, <2>2, <2>3, <2>4, Kept
<1>6. CASE Edit(f)
  <2>1. /\ edits' = [edits EXCEPT ![f] = @ + 1]
        /\ \/ pending' = pending \cup {f} /\ ck' = ck
           \/ pending' = pending /\ ck' = [ck EXCEPT !.missed = @ \cup {f}]
    BY <1>6 DEF Edit
  <2>2. edits' \in [Files -> Nat] /\ \A g \in Files : edits'[g] >= edits[g] /\ (g # f => edits'[g] = edits[g])
    BY <1>2, <2>1
  <2>3. /\ ck' \in CookerRecord /\ ck'.read = ck.read /\ ck'.config = ck.config /\ ck'.cache = ck.cache
        /\ ck'.statements = ck.statements /\ ck'.mtime = ck.mtime
        /\ ck'.modified = ck.modified /\ ck'.state = ck.state
        /\ ck.missed \subseteq ck'.missed /\ pending \subseteq pending' /\ f \in pending' \cup ck'.missed
    BY <1>2, <2>1 DEF CookerRecord
  <2>4. Tracks(ck, pending)'
    <3>1. ck.read \in [Files -> Nat] /\ \A g \in Files : ck.read[g] <= edits'[g]
      BY <1>2, <2>2 DEF Fresh, Tracks, CookerRecord
    <3>2. \A g \in Files : edits'[g] = edits[g] \/ g \in pending' \cup ck'.missed
      BY <2>2, <2>3
    <3>3. ck'.config = "valid" =>
            \A g \in {"config", "class"} : ck'.read[g] = edits'[g] \/ g \in pending' \cup ck'.missed
      BY <2>3, <3>2 DEF Fresh, Tracks, Files
    <3>4. ck'.statements # None =>
            /\ ck'.read["class"] <= ck'.statements /\ ck'.statements <= edits'["class"]
            /\ ck'.statements = edits'["class"] \/ "class" \in pending' \cup ck'.modified \cup ck'.missed
      <4>1. edits["class"] \in Nat /\ edits'["class"] \in Nat /\ ck.statements \in {None} \cup Nat
        BY <1>2, <2>2 DEF CookerRecord, Files
      <4> QED
        BY <2>2, <2>3, <3>2, <4>1 DEF Fresh, Tracks, Files
    <3>5. ck'.cache => ck'.read["recipe"] = edits'["recipe"] \/ "recipe" \in pending' \cup ck'.missed
      BY <2>3, <3>2 DEF Fresh, Tracks, Files
    <3>6. ck'.mtime # None => /\ ck'.mtime <= edits'["recipe"]
                              /\ ck'.mtime = edits'["recipe"] \/ "recipe" \in pending' \cup ck'.modified \cup ck'.missed
      <4>1. edits["recipe"] \in Nat /\ edits'["recipe"] \in Nat /\ ck.mtime \in {None} \cup Nat
        BY <1>2, <2>2 DEF CookerRecord, Files
      <4> QED
        BY <2>2, <2>3, <3>2, <4>1 DEF Fresh, Tracks, Files
    <3> QED
      BY <2>3, <3>1, <3>3, <3>4, <3>5, <3>6 DEF Fresh, Tracks
  <2> QED
    BY <1>1, <2>2, <2>3, <2>4, Kept
<1> QED
  BY <1>3, <1>4, <1>5, <1>6

LEMMA FreshInit == Init => Fresh
<1> SUFFICES ASSUME Init PROVE Fresh
  OBVIOUS
<1>1. ck \in CookerRecord /\ edits \in [Files -> Nat]
  BY DEF Init, CookerRecord
<1> QED
  BY <1>1 DEF Init, Fresh, Tracks

LEMMA FreshNext == Inv /\ Fresh /\ [Next]_vars => Fresh'
<1> SUFFICES ASSUME Inv, Fresh, [Next]_vars PROVE Fresh'
  OBVIOUS
<1>1. CASE UNCHANGED vars
  BY <1>1 DEF vars, Fresh, Tracks, FreshFor, NeedCache
<1>2. CASE AddFilewatch
  BY <1>2, FreshWorldSteps DEF Files
<1>3. CASE ServerStep /\ ~AddFilewatch
  BY <1>3, FreshRequests, FreshUpdates, FreshUpdate, FreshParses, FreshRunEnds, StartsBuildTracks,
     FreshBuildSteps, FreshOtherSteps DEF ServerStep, RunCommands
<1>4. ASSUME NEW u \in UIs, Request(u) PROVE Fresh'
  BY <1>4, FreshRequests, FreshSets, FreshCommand DEF Request
<1>5. ASSUME NEW u \in UIs, Take(u) \/ Leave(u) PROVE Fresh'
  BY <1>5, FreshWorldSteps DEF Files
<1>6. ASSUME NEW f \in Files, Edit(f) PROVE Fresh'
  BY <1>6, FreshWorldSteps
<1>7. CASE Sigterm
  BY <1>7, FreshWorldSteps DEF Files
<1> QED
  BY <1>1, <1>2, <1>3, <1>4, <1>5, <1>6, <1>7 DEF Next

LEMMA FreshInvariance == Spec => [](Inv /\ Fresh)
BY Invariance, FreshInit, FreshNext, PTL DEF Spec

(* A build uses the configuration, its classes and the recipes as they     *)
(* were when it was asked for, or newer, although changes are only noticed *)
(* through inotify and files are read through caches, except for edits     *)
(* that go unnoticed or whose notification was passed over.                *)
THEOREM Current == Spec => BuildIsCurrent
<1> DEFINE Step == rq = "none" /\ rq' = "running" =>
                     \A f \in {"config", "class"} \cup (IF cmd.kind = "build" THEN {"recipe"} ELSE {}) :
                       ck'.read[f] >= cmd.edits[f] \/ f \in ck'.missed
<1>1. ASSUME Inv, Fresh, [Next]_vars PROVE [Step]_vars
  <2> SUFFICES ASSUME rq = "none", rq' = "running", Next PROVE Step
    BY <1>1
  <2>1. RunStartsBuild
    BY DEF Next, ServerStep, RunCommands, Request, NoRequest, Connect, Disconnect, SetFeatures, UpdateConfig, Sets,
           SyncCommand, StopCommand, AsyncCommand, AddFilewatch, Inotify, RunStopped, RunUpdates, Update, ParseMore,
           ParseComplete, ParseFails, RunCompletes, RunClientComplete, RunTriggerEvent, BuildContinues, BuildEnds,
           BuildRaises, TickEnds, Exit, Take, Leave, Edit, Sigterm, server
  <2> QED
    BY <1>1, <2>1, StartsBuildTracks
<1> QED
  BY <1>1, FreshInvariance, PTL DEF Spec, BuildIsCurrent

----------------------------------------------------------------------------
(* Stops.                                                                  *)

(* A build that was asked to stop has been told, or is told in this tick:  *)
(* the state that tells it stays until then.                               *)
StopOnItsWay ==
  "build" \in idle =>
    /\ rq \in {"running", "stopping", "killed"}
    /\ stopping => \/ rq \in {"stopping", "killed"}
                   \/ pc = "tick" /\ "build" \in todo /\ ck.state \in Stopped

LEMMA StopRequests ==
  ASSUME Inv, Fresh, StopOnItsWay, NEW u,
         NoRequest \/ Connect(u) \/ Disconnect(u) \/ (\E results : Sets(u, results)) \/ SyncCommand(u) \/ StopCommand(u)
  PROVE  StopOnItsWay'
<1>1. UNCHANGED <<idle, rq>> /\ pc = "serve"
  BY DEF NoRequest, Connect, Disconnect, Sets, SyncCommand, StopCommand, Serve
<1>2. CASE UNCHANGED stopping
  BY <1>1, <1>2 DEF StopOnItsWay
<1>3. CASE StopCommand(u)
  <2>1. PICK force \in BOOLEAN : \E s \in StopsCooker(force) :
          ck' = s.ck /\ stopping' = (stopping \/ (~s.fails /\ "build" \in idle))
    BY <1>3 DEF StopCommand
  <2>2. PICK s \in StopsCooker(force) : ck' = s.ck /\ stopping' = (stopping \/ (~s.fails /\ "build" \in idle))
    BY <2>1
  <2>3. ~s.fails => s.ck.state \in Stopped
    BY StopsTracks DEF Fresh
  <2>4. pc' = "tick" /\ todo' = idle
    BY <1>3 DEF StopCommand, Serve
  <2> QED
    BY <1>1, <2>2, <2>3, <2>4 DEF StopOnItsWay
<1> QED
  BY <1>2, <1>3 DEF NoRequest, Connect, Disconnect, Sets, SyncCommand

LEMMA StopSets == ASSUME Inv, Fresh, StopOnItsWay, NEW u, SetFeatures(u) \/ UpdateConfig(u) PROVE StopOnItsWay'
<1>1. \E results : Sets(u, results)
  BY DEF SetFeatures, UpdateConfig
<1> QED
  BY <1>1, StopRequests

LEMMA StopServerSteps ==
  ASSUME Inv, Fresh, StopOnItsWay, ServerStep, \A u \in UIs : ~Disconnect(u), ~NoRequest, ~AddFilewatch
  PROVE  StopOnItsWay'
<1>1. CASE RunCommands
  <2>1. cmd # None /\ idle = {"inotify", "runCommands"}
    BY <1>1, RunsWithCommand
       DEF Inv, Working, RunCommands, RunStopped, RunUpdates, Update, ParseMore, ParseComplete, ParseFails,
           RunCompletes, RunClientComplete, RunTriggerEvent, RunStartsBuild, Runs
  <2>2. CASE RunStartsBuild
    BY <2>2 DEF RunStartsBuild, StopOnItsWay
  <2>3. CASE ~RunStartsBuild
    <3>1. RunUpdates \/ Update => idle' = idle \/ idle' = idle \ {"runCommands"}
      BY DEF RunUpdates, Update, Called
    <3>2. ParseMore \/ ParseComplete \/ ParseFails => idle' = idle \/ idle' = idle \ {"runCommands"}
      BY DEF ParseMore, ParseComplete, ParseFails, Called
    <3>3. RunStopped \/ RunCompletes \/ RunClientComplete \/ RunTriggerEvent =>
            idle' = idle \/ idle' = idle \ {"runCommands"}
      BY DEF RunStopped, RunCompletes, RunClientComplete, RunTriggerEvent, Called
    <3>4. idle' = idle \/ idle' = idle \ {"runCommands"}
      BY <1>1, <2>3, <3>1, <3>2, <3>3 DEF RunCommands
    <3> QED
      BY <2>1, <3>4 DEF StopOnItsWay
  <2> QED
    BY <2>2, <2>3
<1>2. CASE BuildContinues
  <2>1. /\ idle' = idle /\ stopping' = stopping
        /\ rq' = CASE ck.state = "forceshutdown" -> "killed"
                   [] ck.state = "shutdown" /\ rq = "running" -> "stopping"
                   [] OTHER -> rq
    BY <1>2 DEF BuildContinues, Called
  <2>2. rq' = "killed" \/ (rq' = "stopping" /\ rq = "running") \/ rq' = rq
    BY <2>1
  <2>3. ck.state \in Stopped => rq' = "killed" \/ (rq = "running" /\ rq' = "stopping") \/ (rq # "running" /\ rq' = rq)
    BY <2>1 DEF Stopped
  <2> QED
    BY <2>1, <2>2, <2>3 DEF StopOnItsWay
<1>3. CASE BuildEnds \/ BuildRaises
  BY <1>3 DEF BuildEnds, BuildRaises, Called, StopOnItsWay
<1>4. CASE Inotify
  <2>1. Notified(ck).state = ck.state
    BY NowNotified
  <2> QED
    BY <1>4, <2>1 DEF Inotify, StopOnItsWay
<1>5. CASE TickEnds \/ Exit
  BY <1>5 DEF TickEnds, Exit, StopOnItsWay
<1> QED
  BY <1>1, <1>2, <1>3, <1>4, <1>5 DEF ServerStep

LEMMA StopNext == Inv /\ Fresh /\ StopOnItsWay /\ [Next]_vars => StopOnItsWay'
<1> SUFFICES ASSUME Inv, Fresh, StopOnItsWay, [Next]_vars PROVE StopOnItsWay'
  OBVIOUS
<1>1. CASE UNCHANGED vars
  BY <1>1 DEF vars, StopOnItsWay
<1>2. CASE ServerStep
  <2>1. CASE AddFilewatch
    <3>1. ck \in CookerRecord /\ ck' = [ck EXCEPT !.watch = "on"] /\ UNCHANGED server
      BY <2>1 DEF AddFilewatch, Fresh, Tracks
    <3>2. ck'.state = ck.state
      BY <3>1 DEF CookerRecord
    <3> QED
      BY <3>1, <3>2 DEF server, StopOnItsWay
  <2>2. CASE ~AddFilewatch
    <3>1. CASE NoRequest \/ \E u \in UIs : Disconnect(u)
      BY <3>1, StopRequests
    <3>2. CASE ~(NoRequest \/ \E u \in UIs : Disconnect(u))
      BY <1>2, <2>2, <3>2, StopServerSteps
    <3> QED
      BY <3>1, <3>2
  <2> QED
    BY <2>1, <2>2
<1>3. ASSUME NEW u \in UIs, Request(u) PROVE StopOnItsWay'
  <2>1. ASSUME NEW kind \in Kinds, AsyncCommand(u, kind) PROVE StopOnItsWay'
    <3>1. pc = "serve" /\ UNCHANGED <<rq, stopping>> /\ ("build" \in idle' => "build" \in idle)
      BY <2>1 DEF AsyncCommand, Serve
    <3> QED
      BY <3>1 DEF StopOnItsWay
  <2> QED
    BY <1>3, <2>1, StopRequests, StopSets DEF Request
<1>4. ASSUME NEW u \in UIs, Take(u) \/ Leave(u) PROVE StopOnItsWay'
  BY <1>4 DEF Take, Leave, server, StopOnItsWay
<1>5. ASSUME NEW f \in Files, Edit(f) PROVE StopOnItsWay'
  <2>1. /\ ck \in CookerRecord /\ UNCHANGED server
        /\ ck' = ck \/ ck' = [ck EXCEPT !.missed = @ \cup {f}]
    BY <1>5 DEF Edit, Fresh, Tracks
  <2>2. ck'.state = ck.state
    BY <2>1 DEF CookerRecord
  <2> QED
    BY <2>1, <2>2 DEF server, StopOnItsWay
<1>6. CASE Sigterm
  <2>1. ck \in CookerRecord
    BY DEF Fresh, Tracks
  <2>2. ck'.state \in Stopped
    BY <1>6, <2>1 DEF Sigterm, CookerRecord, Stopped
  <2> QED
    BY <1>6, <2>2 DEF Sigterm, server, StopOnItsWay
<1> QED
  BY <1>1, <1>2, <1>3, <1>4, <1>5, <1>6 DEF Next

(* Before the server serves the next request, the run queue of a build     *)
(* that a UI asked to stop has been told.                                  *)
THEOREM Stops == Spec => []StopReachesBuild
<1>1. Init => StopOnItsWay
  BY DEF Init, StopOnItsWay
<1>2. StopOnItsWay => StopReachesBuild
  BY DEF StopOnItsWay, StopReachesBuild
<1> QED
  BY <1>1, <1>2, StopNext, FreshInvariance, PTL DEF Spec

=============================================================================
