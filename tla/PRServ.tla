------------------------------- MODULE PRServ -------------------------------
(***************************************************************************)
(* The PR server: package revisions, "no history" (prserv/db.py and        *)
(* prserv/serv.py).                                                        *)
(*                                                                         *)
(* The rows of one (version, pkgarch): a value for each checksum seen.     *)
(* Several servers may have the same file open; each has one connection,   *)
(* which SQLite keeps out while another holds the exclusive lock.  A       *)
(* handler of the asyncio server runs without a pause, so it is split only *)
(* where it touches the file: SELECT ("up"), INSERT ("insert"), COMMIT     *)
(* ("sync") and BEGIN EXCLUSIVE ("begin", and "raise" after an exception). *)
(* The answer is written before the COMMIT.                                *)
(***************************************************************************)
EXTENDS Integers

CONSTANTS
  Servers,
  Checksums,
  None,
  CrashAt,     \* the statements before which a server may die
  Imports,     \* values that are imported
  MaxValue     \* bound

Statements == {"up", "insert", "sync", "begin", "raise"}

ASSUME PRServAssumption ==
  /\ None \notin Servers \cup Checksums
  /\ CrashAt \subseteq Statements
  /\ MaxValue \in Nat
  /\ Imports \subseteq 0..MaxValue

VARIABLES
  db,        \* [Checksums -> value, or Absent], committed
  holder,    \* the server in a transaction, or None
  work,      \* the rows as it sees them
  at,        \* [Servers -> the statement a server is before]
  query,     \* [Servers -> the checksum it is asked for]
  dirty,     \* [Servers -> PRTable.dirty]
  told,      \* [values -> the checksums it was the answer for]
  last,      \* the value answered last
  imported   \* values that were imported

vars == <<db, holder, work, at, query, dirty, told, last, imported>>

Absent == -1
Values == 0..MaxValue

Init ==
  /\ db = [c \in Checksums |-> Absent]
  /\ holder = None
  /\ work = db
  /\ at = [s \in Servers |-> "down"]
  /\ query = [s \in Servers |-> None]
  /\ dirty = [s \in Servers |-> FALSE]
  /\ told = [v \in Values |-> {}]
  /\ last = Absent
  /\ imported = {}

Rows(s) == IF holder = s THEN work ELSE db

(* _execute() asks again for 20 s, then raises. *)
Locked(s) == holder \notin {None, s}

IsHighest(rows, v) ==
  /\ \A c \in Checksums : rows[c] <= v
  /\ \E c \in Checksums : rows[c] = v

Answer(c, v) ==
  /\ told' = [told EXCEPT ![v] = @ \cup {c}]
  /\ last' = v

(* sync_if_dirty() *)
Ended(s, d) == IF d THEN "sync" ELSE "up"

(* CREATE TABLE IF NOT EXISTS *)
Start(s) ==
  /\ at[s] = "down" /\ ~Locked(s)
  /\ at' = [at EXCEPT ![s] = "up"]
  /\ UNCHANGED <<db, holder, work, query, dirty, told, last, imported>>

\* Mutant: the value of an earlier build, as with history.
GetValue_Historical(s, c) ==
  /\ at[s] = "up" /\ ~Locked(s)
  /\ IF Rows(s)[c] # Absent
     THEN /\ Answer(c, Rows(s)[c])
          /\ at' = [at EXCEPT ![s] = Ended(s, dirty[s])]
          /\ UNCHANGED query
     ELSE /\ at' = [at EXCEPT ![s] = "insert"]
          /\ query' = [query EXCEPT ![s] = c]
          /\ UNCHANGED <<told, last>>
  /\ UNCHANGED <<db, holder, work, dirty, imported>>

(* _getValueNohist(): the row, if it is the highest. *)
GetValue(s, c) ==
  /\ at[s] = "up" /\ ~Locked(s)
  /\ IF Rows(s)[c] # Absent /\ IsHighest(Rows(s), Rows(s)[c])
     THEN /\ Answer(c, Rows(s)[c])
          /\ at' = [at EXCEPT ![s] = Ended(s, dirty[s])]
          /\ UNCHANGED query
     ELSE /\ at' = [at EXCEPT ![s] = "insert"]
          /\ query' = [query EXCEPT ![s] = c]
          /\ UNCHANGED <<told, last>>
  /\ UNCHANGED <<db, holder, work, dirty, imported>>

(* INSERT OR REPLACE of the highest value and one, in a transaction. *)
Insert(s) ==
  /\ at[s] = "insert" /\ ~Locked(s)
  /\ \E v \in Values :
       /\ IsHighest(Rows(s), v - 1)
       /\ work' = [Rows(s) EXCEPT ![query[s]] = v]
       /\ Answer(query[s], v)
  /\ holder' = s
  /\ dirty' = [dirty EXCEPT ![s] = TRUE]
  /\ at' = [at EXCEPT ![s] = "sync"]
  /\ query' = [query EXCEPT ![s] = None]
  /\ UNCHANGED <<db, imported>>

(* "database is locked": the answer is null. *)
GetFails(s) ==
  /\ at[s] \in {"up", "insert"} /\ Locked(s)
  /\ at' = [at EXCEPT ![s] = Ended(s, dirty[s])]
  /\ query' = [query EXCEPT ![s] = None]
  /\ UNCHANGED <<db, holder, work, dirty, told, last, imported>>

(* _importNohist(): INSERT, or UPDATE of a lower value. *)
ImportOne(s, c, v) ==
  /\ at[s] = "up" /\ ~Locked(s)
  /\ work' = [Rows(s) EXCEPT ![c] = IF @ < v THEN v ELSE @]
  /\ holder' = s
  /\ imported' = imported \cup {v}
  /\ dirty' = [dirty EXCEPT ![s] = TRUE]
  /\ at' = [at EXCEPT ![s] = "sync"]
  /\ UNCHANGED <<db, query, told, last>>

(* What it raises is passed on after a sync(), which has nothing to commit. *)
ImportFails(s) ==
  /\ at[s] = "up" /\ Locked(s)
  /\ at' = [at EXCEPT ![s] = "raise"]
  /\ UNCHANGED <<db, holder, work, query, dirty, told, last, imported>>

(* sync(): COMMIT gives the lock away, BEGIN EXCLUSIVE takes it again. *)
Commit(s) ==
  /\ at[s] = "sync"
  /\ db' = Rows(s)
  /\ holder' = IF holder = s THEN None ELSE holder
  /\ at' = [at EXCEPT ![s] = "begin"]
  /\ UNCHANGED <<work, query, dirty, told, last, imported>>

Begin(s) ==
  /\ at[s] \in {"begin", "raise"} /\ ~Locked(s)
  /\ holder' = s
  /\ work' = db
  /\ dirty' = [dirty EXCEPT ![s] = @ /\ at[s] = "raise"]
  /\ at' = [at EXCEPT ![s] = "up"]
  /\ UNCHANGED <<db, query, told, last, imported>>

(* The connection to the client is closed, and the table remains dirty. *)
BeginFails(s) ==
  /\ at[s] \in {"begin", "raise"} /\ Locked(s)
  /\ at' = [at EXCEPT ![s] = "up"]
  /\ UNCHANGED <<db, holder, work, query, dirty, told, last, imported>>

Down(s) ==
  /\ holder' = IF holder = s THEN None ELSE holder
  /\ at' = [at EXCEPT ![s] = "down"]
  /\ query' = [query EXCEPT ![s] = None]
  /\ dirty' = [dirty EXCEPT ![s] = FALSE]
  /\ UNCHANGED <<work, told, last, imported>>

(* SIGTERM, between two handlers. *)
Stop(s) ==
  /\ at[s] = "up"
  /\ db' = Rows(s)
  /\ Down(s)

Crash(s) ==
  /\ at[s] \in CrashAt
  /\ UNCHANGED db
  /\ Down(s)

Next ==
  \E s \in Servers :
    \/ Start(s) \/ Insert(s) \/ GetFails(s) \/ ImportFails(s)
    \/ Commit(s) \/ Begin(s) \/ BeginFails(s) \/ Stop(s) \/ Crash(s)
    \/ \E c \in Checksums : GetValue(s, c)
    \/ \E c \in Checksums, v \in Imports : ImportOne(s, c, v)

Spec == Init /\ [][Next]_vars

----------------------------------------------------------------------------
(* Every variable holds what the code can put into it. *)
TypeOK ==
  /\ {db, work} \subseteq [Checksums -> Values \cup {Absent}]
  /\ holder \in Servers \cup {None}
  /\ at \in [Servers -> {"down"} \cup Statements]
  /\ query \in [Servers -> Checksums \cup {None}]
  /\ \A s \in Servers : at[s] = "insert" => query[s] # None
  /\ dirty \in [Servers -> BOOLEAN]
  /\ told \in [Values -> SUBSET Checksums]
  /\ last \in Values \cup {Absent}
  /\ imported \subseteq Values

(* "The PR value returned can NOT be decremented" (db.py): no answer is    *)
(* lower than one before it, whichever servers gave them.                  *)
NotDecremented == \A v \in Values : told[v] # {} => v <= last

(* Two builds that differ do not get the same revision, unless it came in  *)
(* from outside.                                                           *)
Unshared == \A v \in Values : v \in imported \/ \A c, d \in told[v] : c = d

(* Every answer is a revision at least as high as those before, and higher *)
(* if it is for another checksum, although servers share the file, fail on *)
(* its lock, are stopped and die.                                          *)
RevisionsGrow == NotDecremented /\ Unshared

=============================================================================
