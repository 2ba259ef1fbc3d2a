------------------------------- MODULE Cooker -------------------------------
(***************************************************************************)
(* The commands of the bitbake server: the loop of ProcessServer.main(),   *)
(* its idle functions, Command, the states of BBCooker and the events that *)
(* tell a UI that its command has ended (server/process.py, command.py,    *)
(* cooker.py, event.py).                                                   *)
(*                                                                         *)
(* The server is one thread.  Each turn of its loop serves at most one     *)
(* request ("serve") and then calls the idle functions ("tick"): the one   *)
(* that reads inotify, runCommands() while a command was accepted and not  *)
(* started, and the one of the build that was started.  updateCache() is   *)
(* split where SIGTERM can change the state under it ("update", "parse").  *)
(*                                                                         *)
(* UIs are served one after the other.  The run queue of a build is what   *)
(* RunQueue shows it to be: something that ends, at once when forced to.   *)
(* The configuration fails to parse only because it was edited.            *)
(*                                                                         *)
(* A file stands for all that are read and watched alike: "config" for the *)
(* .conf files, "class" for the classes of the configuration, which go     *)
(* through a cache, "recipe" for what is parsed by updateCache().          *)
(***************************************************************************)
EXTENDS Naturals, Sequences

CONSTANTS
  UIs,
  None,
  Kinds,        \* the kinds of asynchronous commands the UIs send
  MayLeave,     \* whether a UI may go while its command is under way
  MaxCommands, MaxStops, MaxTerms, MaxEdits,   \* bounds
  MaxTroubles   \* bound on stops, signals and edits together

(* Those of command.py, by what they need and do: buildTargets; buildFile; *)
(* one that needs the cache; one that does not; triggerEvent; resetCooker; *)
(* clientComplete.                                                         *)
AllKinds == {"build", "file", "query", "plain", "trigger", "reset", "complete"}

Files == {"config", "class", "recipe"}
Stopped == {"shutdown", "forceshutdown"}

ASSUME CookerAssumption ==
  /\ None \notin UIs \cup Nat \cup [n : Nat, kind : AllKinds, edits : [Files -> Nat]]
  /\ Kinds \subseteq AllKinds
  /\ MayLeave \in BOOLEAN
  /\ {MaxCommands, MaxStops, MaxTerms, MaxEdits, MaxTroubles} \subseteq Nat

VARIABLES
  pc,        \* where the server loop is
  todo,      \* the idle functions that this tick has yet to call
  idle,      \* _idlefuns
  ck,        \* BBCooker: state, baseconfig_valid, parsecache_valid, the parser;
             \*  read: the version of each file it goes by;
             \*  statements: that of the class in cached_statements, or None;
             \*  mtime: that of the recipe in __mtime_cache, or None;
             \*  modified: inotify_modified_files;
             \*  watch, rwatch: how far configwatcher and watcher are set up;
             \*  missed: files with an edit nobody notices, and not read since
  cmd,       \* currentAsyncCommand: its number, kind, and the edits before it
  rq,        \* the run queue of the build
  pending,   \* inotify notifications not read
  uiready,   \* _uiready: the UI events go to
  ui_queue,  \* events that wait for one
  ui,        \* [UIs -> what a UI is doing, which command it waits for, which
             \*  event ended the wait]
  inbox,     \* [UIs -> events sent to it]
  count,     \* commands accepted, stop requests, signals
  edits,     \* [Files -> edits so far]
  answers,   \* [commands -> number of events that told its end; of a triggerEvent,
             \*  how often it fired]
  stopping   \* a UI has asked for the build under way to stop

vars == <<pc, todo, idle, ck, cmd, rq, pending, uiready, ui_queue, ui, inbox, count, edits,
          answers, stopping>>
server == <<pc, todo, idle, cmd, rq, stopping>>
events == <<ui_queue, inbox, answers>>
clients == <<uiready, ui, count, edits>>

(* The events: the end of command n, and CookerExit. *)
CookerExit == 0

Edits == edits["config"] + edits["class"] + edits["recipe"]
Troubles == count.stops + count.terms + Edits

Init ==
  /\ pc = "serve"
  /\ todo = {}
  /\ idle = {"inotify"}
  /\ ck = [state |-> "initial", config |-> "none", cache |-> FALSE, parser |-> "none",
           read |-> [f \in Files |-> 0], statements |-> None, mtime |-> None, modified |-> {},
           watch |-> "off", rwatch |-> "off", missed |-> {}]
  /\ cmd = None
  /\ rq = "none"
  /\ pending = {}
  /\ uiready = None
  /\ ui_queue = << >>
  /\ ui = [u \in UIs |-> [at |-> "away", asked |-> 0, told |-> 0]]
  /\ inbox = [u \in UIs |-> << >>]
  /\ count = [commands |-> 0, stops |-> 0, terms |-> 0]
  /\ edits = [f \in Files |-> 0]
  /\ answers = [n \in 1..MaxCommands |-> 0]
  /\ stopping = FALSE

----------------------------------------------------------------------------
(* Events.                                                                 *)

(* fire(): events wait until there is a UI, and are lost on one that has   *)
(* died.                                                                   *)
Fire(seq) ==
  IF uiready = None
  THEN ui_queue' = ui_queue \o seq /\ UNCHANGED inbox
  ELSE /\ ui_queue' = << >>
       /\ inbox' = IF ui[uiready].at = "gone" THEN inbox
                   ELSE [inbox EXCEPT ![uiready] = @ \o ui_queue \o seq]

(* The end of a turn of the idle function f, which goes on to be called if *)
(* it stays.                                                               *)
Called(f, stays) ==
  /\ todo' = todo \ {f}
  /\ idle' = IF stays THEN idle ELSE idle \ {f}

(* finishAsyncCommand(): CommandCompleted, CommandFailed or CommandExit,   *)
(* and the cooker is back in its initial state.                            *)
FinishAsyncCommand(c) ==
  /\ Fire(<<cmd.n>>)
  /\ answers' = [answers EXCEPT ![cmd.n] = @ + 1]
  /\ cmd' = None
  /\ ck' = [c EXCEPT !.state = "initial"]

----------------------------------------------------------------------------
(* The configuration.                                                      *)

(* process_inotify_updates(). *)
Notified(c) ==
  [c EXCEPT !.config = IF @ = "valid" /\ pending \cap {"config", "class"} # {} THEN "invalid" ELSE @,
            !.cache = @ /\ "recipe" \notin pending,
            !.modified = @ \cup (pending \cap {"class", "recipe"})]

(* What the cached version of f stands for is read: no edit is missed if   *)
(* it is the last one, and those are whose notifications are passed over.  *)
Missed(c, f, version, passed) ==
  IF version = edits[f] THEN c.missed \ {f} ELSE c.missed \cup (passed \cap {f})

(* initConfigurationData(): what it may leave behind, and whether it       *)
(* fails.  The class is read through cached_statements, whatever the       *)
(* notifications [passed] over say; the old configwatcher is closed, and   *)
(* AddFilewatch sets the new one after the files were read.                *)
InitConfigurationData(c, passed) ==
  LET class == IF c.statements = None THEN edits["class"] ELSE c.statements IN
  {[fails |-> FALSE,
    ck |-> [c EXCEPT !.state = "initial", !.config = "valid", !.cache = FALSE, !.watch = "late",
                     !.read["config"] = edits["config"], !.read["class"] = class, !.statements = class,
                     !.missed = Missed(c, "class", class, passed) \ {"config"}]]}
  \cup {[fails |-> TRUE,
         ck |-> [c EXCEPT !.state = "initial", !.watch = "off", !.statements = cached,
                          !.missed = c.missed \cup Missed(c, "class", class, passed)]] :
           cached \in IF edits["config"] > c.read["config"] \/ class > c.read["class"]
                      THEN {c.statements, class} ELSE {}}

Unchanged(c) == {[fails |-> FALSE, ck |-> c]}

(* reset(): cached_statements stays as it is. *)
Reset(c) == InitConfigurationData(c, c.modified)

(* init_configdata() *)
InitConfigdata(c) ==
  IF c.config = "none" THEN InitConfigurationData(c, c.modified \cup pending) ELSE Unchanged(c)

\* Mutant: cached_statements stays as it is.
UpdateCaches_KeepsStatements(c) ==
  [c EXCEPT !.mtime = IF "recipe" \in c.modified /\ @ # None THEN edits["recipe"] ELSE @,
            !.modified = {}]

(* The loop of updateCacheSync() over inotify_modified_files. *)
UpdateCaches(c) ==
  [c EXCEPT !.statements = IF "class" \in c.modified THEN None ELSE @,
            !.mtime = IF "recipe" \in c.modified /\ @ # None THEN edits["recipe"] ELSE @,
            !.modified = {}]

(* updateCacheSync(), with notifications that were not read before *)
UpdateCacheSync(c, unread) ==
  IF c.state = "running" THEN Unchanged(c)
  ELSE IF c.config = "valid" THEN Unchanged(UpdateCaches(c))
  ELSE InitConfigurationData(UpdateCaches(c), unread)

(* The end of initConfigurationData(): what was read is watched from here. *)
AddFilewatch ==
  /\ ck.watch = "late"
  /\ ck' = [ck EXCEPT !.watch = "on"]
  /\ UNCHANGED <<server, pending, events, clients>>

(* CookerParser.shutdown(): a parser that has not finished cannot go on,   *)
(* unless it had nothing to parse.                                         *)
ShutDown(c) == {[c EXCEPT !.parser = p] :
                  p \in IF c.parser = "busy" THEN {"busy", "stopped"} ELSE {c.parser}}

(* BBCooker.clientComplete() *)
ClientComplete(c) ==
  [c EXCEPT !.state = "initial", !.cache = FALSE,
            !.config = IF @ = "none" THEN @ ELSE "invalid"]

----------------------------------------------------------------------------
(* Requests.                                                               *)

(* Every turn of the loop ends with a tick, which calls the idle functions *)
(* registered by then.                                                     *)
Serve(fs) ==
  /\ pc = "serve"
  /\ pc' = "tick"
  /\ todo' = fs

NoRequest ==
  /\ Serve(idle)
  /\ UNCHANGED <<idle, ck, cmd, rq, pending, stopping, events, clients>>

Goes(u) ==
  /\ ui' = [ui EXCEPT ![u] = [at |-> "gone", asked |-> 0, told |-> 0]]
  /\ inbox' = [inbox EXCEPT ![u] = << >>]

(* A UI sends its file descriptors and becomes the main UI. *)
Connect(u) ==
  /\ Serve(idle)
  /\ uiready = None /\ ui[u].at = "away"
  /\ uiready' = u
  /\ ui' = [ui EXCEPT ![u].at = "connected"]
  /\ UNCHANGED <<idle, ck, cmd, rq, pending, stopping, events, count, edits>>

(* disconnect_client(): the server stays if it has a timeout or someone    *)
(* waits to be connected.                                                  *)
Disconnect(u) ==
  /\ uiready = u /\ ui[u].at = "gone"
  /\ uiready' = None
  /\ ck' = ClientComplete(ck)
  /\ Serve(idle) \/ (pc = "serve" /\ pc' = "exit" /\ UNCHANGED todo)
  /\ UNCHANGED <<idle, cmd, rq, pending, stopping, events, ui, count, edits>>

Attended(u) == uiready = u /\ ui[u].at \in {"connected", "waiting"}

(* A UI whose settings are refused gives up. *)
Sets(u, results) ==
  /\ Serve(idle)
  /\ uiready = u /\ ui[u].at = "connected"
  /\ \E r \in results :
       /\ ck' = r.ck
       /\ IF r.fails THEN Goes(u) ELSE UNCHANGED <<ui, inbox>>
  /\ pending' = {}
  /\ UNCHANGED <<idle, cmd, rq, stopping, ui_queue, answers, uiready, count, edits>>

(* setFeatures: a change resets a cooker that has a configuration. *)
SetFeatures(u) ==
  LET c == Notified(ck) IN
  Sets(u, IF c.state \notin {"initial"} \cup Stopped THEN {[fails |-> TRUE, ck |-> c]}
          ELSE IF c.config = "none" THEN Unchanged(c) ELSE Reset(c))

(* updateConfig: another environment or prefile resets any cooker. *)
UpdateConfig(u) == Sets(u, Unchanged(Notified(ck)) \cup Reset(Notified(ck)))

(* runCommand() before it calls the method of a synchronous command. *)
Synced == UNION {IF r.fails THEN {r} ELSE UpdateCacheSync(Notified(r.ck), {}) : r \in InitConfigdata(ck)}

(* The synchronous commands that read the configuration. *)
SyncCommand(u) ==
  /\ Serve(idle)
  /\ Attended(u)
  /\ \E r \in Synced : ck' = r.ck
  /\ pending' = {}
  /\ UNCHANGED <<idle, cmd, rq, stopping, events, clients>>

\* Mutant: the configuration is looked at afterwards.
StopsCooker_ConfigLast(force) ==
  {[r EXCEPT !.fails = FALSE] :
     r \in UNION {UpdateCacheSync([c EXCEPT !.state = IF force THEN "forceshutdown" ELSE "shutdown"], {}) :
                    c \in ShutDown(Notified(ck))}}

(* BBCooker.shutdown(), if the configuration can be read. *)
StopsCooker(force) ==
  UNION {IF r.fails THEN {r}
         ELSE {[fails |-> FALSE,
                ck |-> [c EXCEPT !.state = IF force THEN "forceshutdown" ELSE "shutdown"]] :
                  c \in ShutDown(r.ck)} :
         r \in Synced}

(* stateShutdown and stateForceShutdown. *)
StopCommand(u) ==
  /\ Serve(idle)
  /\ Attended(u)
  /\ count.stops < MaxStops /\ Troubles < MaxTroubles
  /\ count' = [count EXCEPT !.stops = @ + 1]
  /\ \E force \in BOOLEAN : \E r \in StopsCooker(force) :
       /\ ck' = r.ck
       /\ stopping' = (stopping \/ (~r.fails /\ "build" \in idle))
  /\ pending' = {}
  /\ UNCHANGED <<idle, cmd, rq, events, uiready, ui, edits>>

\* Mutant: any number of commands at a time.
Busy_Never == FALSE

Busy == cmd # None

(* runCommand() with an asynchronous command.  What ends triggerEvent is   *)
(* no event, and no UI waits for it.                                       *)
AsyncCommand(u, kind) ==
  /\ uiready = u /\ ui[u].at = "connected"
  /\ count.commands < MaxCommands
  /\ \E first \in InitConfigdata(ck) :
       /\ ck' = first.ck
       /\ IF first.fails \/ Busy
          THEN /\ Serve(idle)
               /\ Goes(u)
               /\ UNCHANGED <<idle, cmd, count>>
          ELSE LET n == count.commands + 1
               IN  /\ Serve(idle \cup {"runCommands"})
                   /\ cmd' = [n |-> n, kind |-> kind, edits |-> edits]
                   /\ count' = [count EXCEPT !.commands = n]
                   /\ idle' = idle \cup {"runCommands"}
                   /\ ui' = IF kind = "trigger" THEN ui
                            ELSE [ui EXCEPT ![u] = [at |-> "waiting", asked |-> n, told |-> 0]]
                   /\ UNCHANGED inbox
  /\ UNCHANGED <<rq, pending, stopping, ui_queue, answers, uiready, edits>>

----------------------------------------------------------------------------
(* The tick.                                                               *)

Inotify ==
  /\ pc = "tick" /\ "inotify" \in todo
  /\ todo' = todo \ {"inotify"}
  /\ ck' = Notified(ck)
  /\ pending' = {}
  /\ UNCHANGED <<pc, idle, cmd, rq, stopping, events, clients>>

(* runAsyncCommand(). *)
RunsCommands == pc = "tick" /\ "inotify" \notin todo /\ "runCommands" \in todo

\* Mutant: the command is not ended.
RunStopped_Silent ==
  /\ RunsCommands
  /\ ck.state \in Stopped
  /\ Called("runCommands", FALSE)
  /\ \E c \in ShutDown(Notified(ck)) : ck' = [c EXCEPT !.state = "initial"]
  /\ pending' = {}
  /\ UNCHANGED <<pc, cmd, rq, stopping, events, clients>>

(* The cooker is stopping: updateCache() shuts the parser down and raises. *)
RunStopped ==
  /\ RunsCommands
  /\ ck.state \in Stopped
  /\ Called("runCommands", FALSE)
  /\ \E c \in ShutDown(Notified(ck)) : FinishAsyncCommand(c)
  /\ pending' = {}
  /\ UNCHANGED <<pc, rq, stopping, clients>>

NeedCache == cmd.kind \in {"build", "query"}

(* updateCache() *)
RunUpdates ==
  /\ RunsCommands
  /\ ck.state \notin Stopped \cup {"running"}
  /\ NeedCache
  /\ pc' = "update"
  /\ ck' = Notified(ck)
  /\ pending' = {}
  /\ UNCHANGED <<todo, idle, cmd, rq, stopping, events, clients>>

(* setupParserWatcher(), and the directories of the recipes.  Whether a    *)
(* recipe has changed since the last parser, is seen from __mtime_cache.   *)
SetupParser(c) ==
  LET version == IF c.mtime = None THEN edits["recipe"] ELSE c.mtime IN
  [c EXCEPT !.rwatch = "some", !.mtime = version, !.missed = Missed(c, "recipe", version, pending)]

(* Up to state.parsing: the configuration is read again if it has changed, *)
(* and a new parser is started if the cache is not valid; both may fail.   *)
(* New watchers replace the old ones, unread notifications go with these.  *)
Update ==
  /\ pc = "update"
  /\ \E r \in IF ck.state = "parsing" THEN Unchanged(ck) ELSE UpdateCacheSync(ck, pending), fails \in BOOLEAN :
       LET parses == ck.state # "parsing" /\ ~r.fails /\ ~r.ck.cache
           c == IF parses THEN SetupParser(r.ck) ELSE r.ck
       IN  /\ IF r.fails \/ (parses /\ fails)
              THEN /\ FinishAsyncCommand(c)
                   /\ Called("runCommands", FALSE)
                   /\ pc' = "tick"
              ELSE /\ \E version \in {edits["recipe"], c.mtime} :
                        ck' = IF parses
                              THEN [c EXCEPT !.state = "parsing", !.cache = TRUE, !.parser = "busy",
                                             !.read["recipe"] = version]
                              ELSE [c EXCEPT !.state = "parsing"]
                   /\ pc' = "parse"
                   /\ UNCHANGED <<todo, idle, cmd, events>>
           /\ pending' = pending \ ((IF parses THEN {"recipe"} ELSE {})
                                   \cup (IF ck.state = "parsing" \/ ck.config = "valid" THEN {}
                                         ELSE {"config", "class"}))
  /\ UNCHANGED <<rq, stopping, clients>>

(* parse_next(): more to come; complete, with all that was read watched    *)
(* once its result is here (add_info()); or an error, which a parser that  *)
(* was shut down and one that failed before always ends in.                *)
ParseMore ==
  /\ pc = "parse"
  /\ ck.parser \in {"busy", "stopped"}
  /\ Called("runCommands", TRUE)
  /\ pc' = "tick"
  /\ UNCHANGED <<ck, cmd, rq, pending, stopping, events, clients>>

ParseComplete ==
  /\ pc = "parse"
  /\ ck.parser \in {"busy", "done"}
  /\ ck' = [ck EXCEPT !.parser = "done", !.state = "running", !.rwatch = "all"]
  /\ Called("runCommands", TRUE)
  /\ pc' = "tick"
  /\ UNCHANGED <<cmd, rq, pending, stopping, events, clients>>

\* Mutant: the command is not ended.
ParseFails_Silent ==
  /\ pc = "parse"
  /\ ck.parser # "done"
  /\ ck' = [ck EXCEPT !.parser = "failed", !.state = "initial"]
  /\ Called("runCommands", FALSE)
  /\ pc' = "tick"
  /\ UNCHANGED <<cmd, rq, pending, stopping, events, clients>>

ParseFails ==
  /\ pc = "parse"
  /\ ck.parser # "done"
  /\ FinishAsyncCommand([ck EXCEPT !.parser = "failed"])
  /\ Called("runCommands", FALSE)
  /\ pc' = "tick"
  /\ UNCHANGED <<rq, pending, stopping, clients>>

(* The method of the command is called. *)
Runs(kinds) ==
  /\ RunsCommands
  /\ ck.state \notin Stopped
  /\ cmd.kind \in kinds
  /\ NeedCache => ck.state = "running"
  /\ pending' = {}

(* buildFile() parses the configuration and its recipe itself. *)
BuildsFile ==
  {IF r.fails THEN r
   ELSE [r EXCEPT !.ck.cache = FALSE, !.ck.mtime = IF @ = None THEN edits["recipe"] ELSE @] :
     r \in UpdateCacheSync(Notified(ck), {})}

(* It fails, or has nothing left to do. *)
RunCompletes ==
  /\ Runs(Kinds \ {"complete"})
  /\ Called("runCommands", FALSE)
  /\ \E r \in IF cmd.kind = "reset" THEN Reset(Notified(ck))
              ELSE IF cmd.kind = "file" THEN BuildsFile ELSE Unchanged(Notified(ck)) :
       FinishAsyncCommand(r.ck)
  /\ UNCHANGED <<pc, rq, stopping, clients>>

RunClientComplete ==
  /\ Runs({"complete"})
  /\ Called("runCommands", FALSE)
  /\ FinishAsyncCommand(ClientComplete(Notified(ck)))
  /\ UNCHANGED <<pc, rq, stopping, clients>>

RunTriggerEvent ==
  /\ Runs({"trigger"})
  /\ Called("runCommands", FALSE)
  /\ Fire(<< >>)
  /\ answers' = [answers EXCEPT ![cmd.n] = @ + 1]
  /\ cmd' = None
  /\ ck' = Notified(ck)
  /\ UNCHANGED <<pc, rq, stopping, clients>>

(* buildTargets() and buildFile() start a build. *)
RunStartsBuild ==
  /\ Runs({"build", "file"})
  /\ todo' = todo \ {"runCommands"}
  /\ idle' = (idle \ {"runCommands"}) \cup {"build"}
  /\ rq' = "running"
  /\ stopping' = FALSE
  /\ \E r \in IF cmd.kind = "file" THEN BuildsFile ELSE Unchanged(Notified(ck)) :
       /\ ~r.fails
       /\ ck' = r.ck
  /\ UNCHANGED <<pc, cmd, events, clients>>

(* buildTargetsIdle() and buildFileIdle(). *)
BuildTurn == pc = "tick" /\ "inotify" \notin todo /\ "build" \in todo

BuildContinues ==
  /\ BuildTurn
  /\ Called("build", TRUE)
  /\ rq' = CASE ck.state = "forceshutdown" -> "killed"
             [] ck.state = "shutdown" /\ rq = "running" -> "stopping"
             [] OTHER -> rq
  /\ UNCHANGED <<pc, ck, cmd, pending, stopping, events, clients>>

BuildEnds ==
  /\ BuildTurn
  /\ Called("build", FALSE)
  /\ rq' = "none"
  /\ FinishAsyncCommand(IF cmd.kind = "file" THEN [ck EXCEPT !.cache = FALSE] ELSE ck)
  /\ UNCHANGED <<pc, pending, stopping, clients>>

(* Any other exception ends the server. *)
BuildRaises ==
  /\ BuildTurn
  /\ Called("build", FALSE)
  /\ pc' = "exit"
  /\ rq' = "none"
  /\ UNCHANGED <<ck, cmd, pending, stopping, events, clients>>

(* The tick ends, once a second with a heartbeat, which like any event     *)
(* brings out those that wait.                                             *)
TickEnds ==
  /\ pc = "tick" /\ todo = {}
  /\ pc' = "serve"
  /\ Fire(<< >>) \/ UNCHANGED <<ui_queue, inbox>>
  /\ UNCHANGED <<todo, idle, ck, cmd, rq, pending, stopping, answers, clients>>

(* The loop has ended: post_serve(). *)
Exit ==
  /\ pc = "exit"
  /\ pc' = "ended"
  /\ \E c \in ShutDown(ck) : ck' = [c EXCEPT !.state = "forceshutdown"]
  /\ IF ck.config = "none" THEN UNCHANGED <<ui_queue, inbox>> ELSE Fire(<<CookerExit>>)
  /\ UNCHANGED <<todo, idle, cmd, rq, pending, stopping, answers, clients>>

----------------------------------------------------------------------------
(* The rest of the world.                                                  *)

(* A UI takes the first event that tells of an end as the end of its       *)
(* command.                                                                *)
Take(u) ==
  /\ ui[u].at = "waiting"
  /\ inbox[u] # << >>
  /\ ui' = [ui EXCEPT ![u].at = "connected", ![u].told = Head(inbox[u])]
  /\ inbox' = [inbox EXCEPT ![u] = Tail(@)]
  /\ UNCHANGED <<server, ck, pending, uiready, ui_queue, count, edits, answers>>

(* A UI goes, or is killed. *)
Leave(u) ==
  /\ ui[u].at = "connected" \/ (MayLeave /\ ui[u].at = "waiting")
  /\ Goes(u)
  /\ UNCHANGED <<server, ck, pending, uiready, ui_queue, answers, count, edits>>

(* A file is edited.  While recipes are parsed, only those directories are *)
(* watched that were searched for them.                                    *)
Edit(f) ==
  /\ Edits < MaxEdits /\ Troubles < MaxTroubles
  /\ edits' = [edits EXCEPT ![f] = @ + 1]
  /\ \/ /\ IF f = "recipe" THEN ck.rwatch # "off" ELSE ck.watch = "on"
        /\ pending' = pending \cup {f}
        /\ UNCHANGED ck
     \/ /\ IF f = "recipe" THEN ck.rwatch # "all" ELSE ck.watch # "on"
        /\ ck' = [ck EXCEPT !.missed = @ \cup {f}]
        /\ UNCHANGED pending
  /\ UNCHANGED <<server, uiready, events, ui, count>>

(* sigterm_exception(), at any moment. *)
Sigterm ==
  /\ pc # "ended"
  /\ count.terms < MaxTerms /\ Troubles < MaxTroubles
  /\ count' = [count EXCEPT !.terms = @ + 1]
  /\ ck' = [ck EXCEPT !.state = "forceshutdown"]
  /\ UNCHANGED <<server, pending, uiready, events, ui, edits>>

----------------------------------------------------------------------------
RunCommands ==
  \/ RunStopped \/ RunUpdates \/ Update \/ ParseMore \/ ParseComplete \/ ParseFails
  \/ RunCompletes \/ RunClientComplete \/ RunTriggerEvent \/ RunStartsBuild

(* The server does nothing else before it has set its watches. *)
ServerStep ==
  \/ AddFilewatch
  \/ /\ ck.watch # "late"
     /\ \/ NoRequest
        \/ \E u \in UIs : Disconnect(u)
        \/ Inotify \/ RunCommands \/ BuildContinues \/ BuildEnds \/ BuildRaises
        \/ TickEnds \/ Exit

Request(u) ==
  /\ ck.watch # "late"
  /\ \/ Connect(u) \/ SetFeatures(u) \/ UpdateConfig(u) \/ SyncCommand(u) \/ StopCommand(u)
     \/ \E kind \in Kinds : AsyncCommand(u, kind)

Next ==
  \/ ServerStep
  \/ \E u \in UIs : Request(u) \/ Take(u) \/ Leave(u)
  \/ \E f \in Files : Edit(f)
  \/ Sigterm

Spec == Init /\ [][Next]_vars

(* The loop turns, parsing and building come to an end (RunQueue is where  *)
(* the second is shown), and a UI reads its events.                        *)
FairSpec ==
  /\ Spec
  /\ WF_vars(ServerStep)
  /\ SF_vars(ParseComplete \/ ParseFails)
  /\ SF_vars(BuildEnds \/ BuildRaises)
  /\ \A u \in UIs : WF_vars(Take(u))

----------------------------------------------------------------------------
(* Type correctness.                                                       *)

Ids == 1..MaxCommands

CookerType ==
  [state : {"initial", "parsing", "running"} \cup Stopped,
   config : {"none", "valid", "invalid"}, cache : BOOLEAN,
   parser : {"none", "busy", "done", "stopped", "failed"}, read : [Files -> 0..MaxEdits],
   statements : {None} \cup 0..MaxEdits, mtime : {None} \cup 0..MaxEdits,
   modified : SUBSET {"class", "recipe"}, missed : SUBSET Files,
   watch : {"off", "late", "on"}, rwatch : {"off", "some", "all"}]

(* Every variable holds what the code can put into it. *)
TypeOK ==
  /\ pc \in {"serve", "tick", "update", "parse", "exit", "ended"}
  /\ idle \subseteq {"inotify", "runCommands", "build"} /\ todo \subseteq idle
  /\ ck \in CookerType
  /\ cmd \in {None} \cup [n : Ids, kind : Kinds, edits : [Files -> 0..MaxEdits]]
  /\ rq \in {"none", "running", "stopping", "killed"}
  /\ pending \subseteq Files
  /\ uiready \in {None} \cup UIs
  /\ ui_queue \in Seq({CookerExit} \cup Ids)
  /\ ui \in [UIs -> [at : {"away", "connected", "waiting", "gone"},
                     asked : {0} \cup Ids, told : {CookerExit} \cup Ids]]
  /\ inbox \in [UIs -> Seq({CookerExit} \cup Ids)]
  /\ count \in [commands : 0..MaxCommands, stops : 0..MaxStops, terms : 0..MaxTerms]
  /\ edits \in [Files -> 0..MaxEdits]
  /\ answers \in [Ids -> Nat]
  /\ stopping \in BOOLEAN

----------------------------------------------------------------------------
(* Safety.                                                                 *)

(* A command the server accepted is current until exactly one event tells  *)
(* its end, whichever of the many ways out of runAsyncCommand(), the idle  *)
(* functions and a stop it takes.                                          *)
AnsweredOnce ==
  \A n \in 1..count.commands :
    answers[n] = IF cmd # None /\ cmd.n = n THEN 0 ELSE 1

(* A server that says "Busy" is busy: an idle function is registered that  *)
(* will end the current command, and only one; without a command there is  *)
(* none, so that no two builds run at a time.                              *)
BusyHasWork ==
  pc \in {"serve", "tick"} =>
    idle \in IF cmd = None THEN {{"inotify"}}
             ELSE {{"inotify", "runCommands"}, {"inotify", "build"}}

(* A build uses the configuration, its classes and the recipes as they     *)
(* were when it was asked for, or newer, although changes are only noticed *)
(* through inotify, only acted on in some states of the cooker, and some   *)
(* files are read through caches.  The exceptions are edits that go        *)
(* unnoticed: before what was read is watched, while a failure left no     *)
(* watch, whose notification was not read when its watcher was replaced,   *)
(* and those of classes whose notification a reset passed over.            *)
BuildIsCurrent ==
  [][rq = "none" /\ rq' = "running" =>
       \A f \in {"config", "class"} \cup (IF cmd.kind = "build" THEN {"recipe"} ELSE {}) :
         ck'.read[f] >= cmd.edits[f] \/ f \in ck'.missed]_vars

(* Before the server serves the next request, the run queue of a build     *)
(* that a UI asked to stop has been told, whatever else reset the state of *)
(* the cooker.                                                             *)
StopReachesBuild ==
  pc = "serve" /\ stopping /\ "build" \in idle => rq \in {"stopping", "killed"}

(* "in order to receive the results of asynchronous commands you will need *)
(* to [...] listen for the result using wait_event()" (tinfoil.py): the    *)
(* end a UI is told of is that of its own command, or of the server.       *)
ToldOfOwn ==
  \A u \in UIs : ui[u].told \in {CookerExit, ui[u].asked}

----------------------------------------------------------------------------
(* Liveness.                                                               *)

(* A UI that waits for its command is told of an end, unless it goes; they *)
(* are served, and wait, one at a time.                                    *)
UiAnswered == (\E u \in UIs : ui[u].at = "waiting") ~> (\A u \in UIs : ui[u].at # "waiting")

=============================================================================
