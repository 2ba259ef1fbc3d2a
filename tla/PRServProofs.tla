---------------------------- MODULE PRServProofs ----------------------------
(***************************************************************************)
(* Proofs about PRServ: revisions grow as long as no server dies between   *)
(* an answer and the commit that makes it last.                            *)
(***************************************************************************)
EXTENDS PRServ, TLAPS

(* The rows that the next reader or writer sees. *)
Current == IF holder = None THEN db ELSE work

(* Only the server whose answer is not yet committed has rows of its own. *)
Clean ==
  holder # None =>
    /\ at[holder] \in {"up", "insert", "sync"}
    /\ at[holder] # "sync" => work = db

(* What was answered is no higher than the highest row. *)
Bounded == last # Absent => \E c \in Checksums : last <= Current[c]

(* A highest row that was not imported is that of one checksum, and nobody *)
(* was told its value for another.                                         *)
TopOwned ==
  \A v \in Values \ imported, c, d \in Checksums :
    IsHighest(Current, v) /\ Current[c] = v =>
      /\ Current[d] = v => c = d
      /\ d \in told[v] => c = d

Grown == Bounded /\ TopOwned /\ RevisionsGrow

----------------------------------------------------------------------------
(* Type correctness.                                                       *)

LEMMA RowsType == ASSUME TypeOK, NEW s PROVE Rows(s) \in [Checksums -> Values \cup {Absent}]
BY DEF TypeOK, Rows

LEMMA TypeInit == Init => TypeOK
BY PRServAssumption DEF Init, TypeOK, Values, Absent

LEMMA AnswerType ==
  ASSUME TypeOK, NEW c \in Checksums, NEW v \in Values, Answer(c, v)
  PROVE  told' \in [Values -> SUBSET Checksums] /\ last' \in Values \cup {Absent}
BY DEF TypeOK, Answer

LEMMA GetValueType ==
  ASSUME TypeOK, NEW s \in Servers, NEW c \in Checksums, GetValue(s, c) PROVE TypeOK'
<1>1. at' \in [Servers -> {"down"} \cup Statements]
  BY DEF TypeOK, GetValue, Ended, Statements
<1>2. /\ query' \in [Servers -> Checksums \cup {None}]
      /\ \A t \in Servers : at'[t] = "insert" => query'[t] # None
  BY PRServAssumption DEF TypeOK, GetValue, Ended
<1>3. told' \in [Values -> SUBSET Checksums] /\ last' \in Values \cup {Absent}
  <2>1. CASE Rows(s)[c] # Absent /\ IsHighest(Rows(s), Rows(s)[c])
    <3>1. Rows(s)[c] \in Values
      BY <2>1, RowsType
    <3> QED
      BY <2>1, <3>1, AnswerType DEF GetValue
  <2>2. CASE ~(Rows(s)[c] # Absent /\ IsHighest(Rows(s), Rows(s)[c]))
    BY <2>2 DEF GetValue, TypeOK
  <2> QED
    BY <2>1, <2>2
<1> QED
  BY <1>1, <1>2, <1>3 DEF TypeOK, GetValue

LEMMA InsertType == ASSUME TypeOK, NEW s \in Servers, Insert(s) PROVE TypeOK'
<1>1. PICK v \in Values : work' = [Rows(s) EXCEPT ![query[s]] = v] /\ Answer(query[s], v)
                          /\ IsHighest(Rows(s), v - 1)
  BY DEF Insert
<1>2. work' \in [Checksums -> Values \cup {Absent}]
  BY <1>1, RowsType
<1>3. query[s] \in Checksums
  BY DEF TypeOK, Insert
<1>4. told' \in [Values -> SUBSET Checksums] /\ last' \in Values \cup {Absent}
  BY <1>1, <1>3, AnswerType
<1> QED
  BY <1>2, <1>4 DEF TypeOK, Insert, Statements

LEMMA ImportType ==
  ASSUME TypeOK, NEW s \in Servers, NEW c \in Checksums, NEW v \in Imports, ImportOne(s, c, v)
  PROVE  TypeOK'
<1>1. v \in Values
  BY PRServAssumption DEF Values
<1>2. work' \in [Checksums -> Values \cup {Absent}]
  BY <1>1, RowsType DEF ImportOne
<1> QED
  BY <1>1, <1>2 DEF TypeOK, ImportOne, Statements

LEMMA DownType ==
  ASSUME TypeOK, NEW s \in Servers, Down(s), db' \in [Checksums -> Values \cup {Absent}]
  PROVE  TypeOK'
BY DEF TypeOK, Down, Statements

LEMMA TypeNext == TypeOK /\ [Next]_vars => TypeOK'
<1> SUFFICES ASSUME TypeOK, [Next]_vars PROVE TypeOK'
  OBVIOUS
<1>1. CASE UNCHANGED vars
  BY <1>1 DEF vars, TypeOK
<1>2. ASSUME NEW s \in Servers, Start(s) PROVE TypeOK'
  BY <1>2 DEF TypeOK, Start, Statements
<1>3. ASSUME NEW s \in Servers, GetFails(s) \/ ImportFails(s) PROVE TypeOK'
  BY <1>3 DEF TypeOK, GetFails, ImportFails, Ended, Statements
<1>4. ASSUME NEW s \in Servers, Commit(s) PROVE TypeOK'
  BY <1>4, RowsType DEF TypeOK, Commit, Statements
<1>5. ASSUME NEW s \in Servers, Begin(s) PROVE TypeOK'
  BY <1>5 DEF TypeOK, Begin, Statements
<1>6. ASSUME NEW s \in Servers, BeginFails(s) PROVE TypeOK'
  BY <1>6 DEF TypeOK, BeginFails, Statements
<1>7. ASSUME NEW s \in Servers, Stop(s) PROVE TypeOK'
  BY <1>7, RowsType, DownType DEF Stop
<1>8. ASSUME NEW s \in Servers, Crash(s) PROVE TypeOK'
  BY <1>8, DownType DEF Crash, TypeOK
<1> QED
  BY <1>1, <1>2, <1>3, <1>4, <1>5, <1>6, <1>7, <1>8, GetValueType, InsertType, ImportType DEF Next

(* Every step keeps the state well formed. *)
THEOREM TypeCorrect == Spec => []TypeOK
<1> QED
  BY TypeInit, TypeNext, PTL DEF Spec

----------------------------------------------------------------------------
(* Rows that are not committed.                                            *)

LEMMA CleanNext == TypeOK /\ Clean /\ [Next]_vars => Clean'
<1> SUFFICES ASSUME TypeOK, Clean, [Next]_vars PROVE Clean'
  OBVIOUS
<1> USE PRServAssumption
<1>1. CASE UNCHANGED vars
  BY <1>1 DEF vars, Clean
<1>2. ASSUME NEW s \in Servers, Start(s) PROVE Clean'
  BY <1>2 DEF TypeOK, Clean, Start
<1>3. ASSUME NEW s \in Servers, NEW c \in Checksums, GetValue(s, c) PROVE Clean'
  BY <1>3 DEF TypeOK, Clean, GetValue, Ended
<1>4. ASSUME NEW s \in Servers, Insert(s) PROVE Clean'
  BY <1>4 DEF TypeOK, Clean, Insert
<1>5. ASSUME NEW s \in Servers, GetFails(s) \/ ImportFails(s) PROVE Clean'
  BY <1>5 DEF TypeOK, Clean, GetFails, ImportFails, Ended, Locked
<1>6. ASSUME NEW s \in Servers, NEW c \in Checksums, NEW v \in Imports, ImportOne(s, c, v) PROVE Clean'
  BY <1>6 DEF TypeOK, Clean, ImportOne
<1>7. ASSUME NEW s \in Servers, Commit(s) PROVE Clean'
  BY <1>7 DEF TypeOK, Clean, Commit, Rows
<1>8. ASSUME NEW s \in Servers, Begin(s) PROVE Clean'
  BY <1>8 DEF TypeOK, Clean, Begin
<1>9. ASSUME NEW s \in Servers, BeginFails(s) PROVE Clean'
  BY <1>9 DEF TypeOK, Clean, BeginFails
<1>10. ASSUME NEW s \in Servers, Stop(s) PROVE Clean'
  BY <1>10 DEF TypeOK, Clean, Stop, Down, Rows
<1>11. ASSUME NEW s \in Servers, Crash(s) PROVE Clean'
  BY <1>11 DEF TypeOK, Clean, Crash, Down
<1> QED
  BY <1>1, <1>2, <1>3, <1>4, <1>5, <1>6, <1>7, <1>8, <1>9, <1>10, <1>11 DEF Next

(* A server that is not locked out sees the current rows. *)
LEMMA Seen == ASSUME NEW s \in Servers, ~Locked(s) PROVE Rows(s) = Current
BY PRServAssumption DEF Locked, Rows, Current

----------------------------------------------------------------------------
(* Revisions.                                                              *)

(* What neither answers nor changes the current rows keeps the rest. *)
LEMMA Kept ==
  ASSUME Grown, Current' = Current, UNCHANGED <<told, last, imported>> PROVE Grown'
BY DEF Grown, Bounded, TopOwned, RevisionsGrow, NotDecremented, Unshared, IsHighest

(* Commits, locks and deaths do not change the current rows, as no server  *)
(* dies with rows of its own.                                              *)
LEMMA CurrentKept ==
  ASSUME "sync" \notin CrashAt, TypeOK, Clean, NEW s \in Servers,
         Commit(s) \/ Begin(s) \/ Stop(s) \/ Crash(s)
  PROVE  Current' = Current /\ UNCHANGED <<told, last, imported>>
<1> USE PRServAssumption
<1>1. CASE Commit(s)
  BY <1>1 DEF Commit, Current, Rows, TypeOK
<1>2. CASE Begin(s)
  BY <1>2 DEF Begin, Current, Clean, Locked, TypeOK
<1>3. CASE Stop(s)
  BY <1>3 DEF Stop, Down, Current, Rows, Clean, TypeOK
<1>4. CASE Crash(s)
  BY <1>4 DEF Crash, Down, Current, Clean, TypeOK
<1> QED
  BY <1>1, <1>2, <1>3, <1>4

(* What was answered is no higher than a highest row. *)
LEMMA ToldBelow ==
  ASSUME TypeOK, Grown, NEW v \in Int, IsHighest(Current, v), NEW w \in Values, told[w] # {}
  PROVE  w <= last /\ last <= v
<1>1. w <= last /\ last \in Values
  BY DEF TypeOK, Grown, RevisionsGrow, NotDecremented, Values, Absent
<1>2. PICK c \in Checksums : last <= Current[c]
  BY <1>1 DEF Grown, Bounded, Values, Absent
<1>3. Current[c] \in Values \cup {Absent} /\ Current[c] <= v
  BY DEF IsHighest, Current, TypeOK
<1> QED
  BY <1>1, <1>2, <1>3 DEF Values, Absent

LEMMA GetValueGrown ==
  ASSUME TypeOK, Grown, NEW s \in Servers, NEW c \in Checksums, GetValue(s, c) PROVE Grown'
<1>1. Rows(s) = Current /\ Current' = Current /\ imported' = imported
  BY Seen DEF GetValue, Current
<1>2. CASE ~(Current[c] # Absent /\ IsHighest(Current, Current[c]))
  BY <1>1, <1>2, Kept DEF GetValue
<1>3. CASE Current[c] # Absent /\ IsHighest(Current, Current[c])
  <2> DEFINE v == Current[c]
  <2>1. v \in Values /\ v \in Int
    BY <1>3 DEF TypeOK, Current, Values, Absent
  <2>2. told' = [told EXCEPT ![v] = @ \cup {c}] /\ last' = v
    BY <1>1, <1>3 DEF GetValue, Answer
  <2>3. \A d \in told[v] : v \in imported \/ c = d
    BY <1>3, <2>1 DEF Grown, TopOwned, TypeOK
  <2>4. NotDecremented'
    <3> SUFFICES ASSUME NEW w \in Values, told'[w] # {} PROVE w <= v
      BY <2>2 DEF NotDecremented
    <3>1. CASE w = v
      BY <2>1, <3>1
    <3>2. CASE w # v
      <4>1. told[w] # {}
        BY <2>1, <2>2, <3>2 DEF TypeOK
      <4>2. w <= last /\ last <= v
        BY <1>3, <2>1, <4>1, ToldBelow
      <4> QED
        BY <2>1, <4>2 DEF TypeOK, Values, Absent
    <3> QED
      BY <3>1, <3>2
  <2>5. Unshared'
    <3> SUFFICES ASSUME NEW w \in Values, w \notin imported PROVE \A d, e \in told'[w] : d = e
      BY <1>1 DEF Unshared
    <3>1. CASE w = v
      BY <2>1, <2>2, <2>3, <3>1 DEF TypeOK
    <3>2. CASE w # v
      <4>1. told'[w] = told[w]
        BY <2>1, <2>2, <3>2 DEF TypeOK
      <4> QED
        BY <4>1 DEF Grown, RevisionsGrow, Unshared
    <3> QED
      BY <3>1, <3>2
  <2>6. Bounded'
    BY <1>1, <2>1, <2>2 DEF Bounded, Values
  <2>7. TopOwned'
    <3> SUFFICES ASSUME NEW w \in Values \ imported, NEW d \in Checksums, NEW e \in Checksums,
                        IsHighest(Current, w), Current[d] = w
                 PROVE  (Current[e] = w => d = e) /\ (e \in told'[w] => d = e)
      BY <1>1 DEF TopOwned, IsHighest
    <3>1. (Current[e] = w => d = e) /\ (e \in told[w] => d = e)
      BY DEF Grown, TopOwned
    <3>2. CASE w = v
      <4>1. d = c
        BY <3>2 DEF Grown, TopOwned
      <4> QED
        BY <2>1, <2>2, <3>1, <3>2, <4>1 DEF TypeOK
    <3>3. CASE w # v
      <4>1. told'[w] = told[w]
        BY <2>1, <2>2, <3>3 DEF TypeOK
      <4> QED
        BY <3>1, <4>1
    <3> QED
      BY <3>2, <3>3
  <2> QED
    BY <2>4, <2>5, <2>6, <2>7 DEF Grown, RevisionsGrow
<1> QED
  BY <1>2, <1>3

LEMMA InsertGrown ==
  ASSUME TypeOK, Grown, NEW s \in Servers, Insert(s) PROVE Grown'
<1> DEFINE c == query[s]
<1>1. PICK v \in Values : /\ IsHighest(Rows(s), v - 1)
                          /\ work' = [Rows(s) EXCEPT ![c] = v]
                          /\ Answer(c, v)
  BY DEF Insert
<1>2. IsHighest(Current, v - 1) /\ Current' = [Current EXCEPT ![c] = v] /\ imported' = imported
  BY <1>1, Seen, PRServAssumption DEF Insert, Current
<1>3. v \in Int /\ Current \in [Checksums -> Values \cup {Absent}]
  BY DEF Current, TypeOK, Values
<1>4. told' = [told EXCEPT ![v] = @ \cup {c}] /\ last' = v
  BY <1>1 DEF Answer
<1>5. ASSUME NEW w \in Values, told[w] # {} PROVE w < v
  <2>1. v - 1 \in Int
    BY <1>3
  <2>2. w <= last /\ last <= v - 1
    BY <1>2, <1>5, <2>1, ToldBelow
  <2> QED
    BY <1>3, <2>2 DEF TypeOK, Values, Absent
<1>6. told[v] = {}
  BY <1>3, <1>5
<1>7. ASSUME NEW d \in Checksums PROVE Current'[d] <= v /\ (Current'[d] = v => d = c)
  BY <1>2, <1>3 DEF IsHighest, Values, Absent
<1>8. c \in Checksums
  BY DEF TypeOK, Insert
<1>9. NotDecremented'
  <2> SUFFICES ASSUME NEW w \in Values, told'[w] # {} PROVE w <= v
    BY <1>4 DEF NotDecremented
  <2>1. CASE w = v
    BY <1>3, <2>1
  <2>2. CASE w # v
    <3>1. told[w] # {}
      BY <1>4, <2>2 DEF TypeOK
    <3> QED
      BY <1>3, <1>5, <3>1 DEF Values
  <2> QED
    BY <2>1, <2>2
<1>10. Unshared'
  <2> SUFFICES ASSUME NEW w \in Values, w \notin imported PROVE \A d, e \in told'[w] : d = e
    BY <1>2 DEF Unshared
  <2>1. CASE w = v
    BY <1>4, <1>6, <2>1 DEF TypeOK
  <2>2. CASE w # v
    <3>1. told'[w] = told[w]
      BY <1>4, <2>2 DEF TypeOK
    <3> QED
      BY <3>1 DEF Grown, RevisionsGrow, Unshared
  <2> QED
    BY <2>1, <2>2
<1>11. Bounded'
  <2>1. Current'[c] = v
    BY <1>2, <1>3, <1>8
  <2> QED
    BY <1>3, <1>4, <1>8, <2>1 DEF Bounded
<1>12. TopOwned'
  <2> SUFFICES ASSUME NEW w \in Values \ imported', NEW d \in Checksums, NEW e \in Checksums,
                      IsHighest(Current', w), Current'[d] = w
               PROVE  (Current'[e] = w => d = e) /\ (e \in told'[w] => d = e)
    BY DEF TopOwned, IsHighest
  <2>1. w = v
    <3>1. Current'[c] = v /\ v <= w
      BY <1>2, <1>3, <1>8 DEF IsHighest
    <3>2. w <= v
      BY <1>7
    <3> QED
      BY <1>3, <3>1, <3>2 DEF Values
  <2>2. d = c /\ (Current'[e] = w => e = c)
    BY <1>7, <2>1
  <2>3. told'[w] = {c}
    BY <1>4, <1>6, <2>1 DEF TypeOK
  <2> QED
    BY <2>2, <2>3
<1> QED
  BY <1>9, <1>10, <1>11, <1>12 DEF Grown, RevisionsGrow

LEMMA ImportGrown ==
  ASSUME TypeOK, Grown, NEW s \in Servers, NEW c \in Checksums, NEW v \in Imports,
         ImportOne(s, c, v)
  PROVE  Grown'
<1>1. /\ Current' = [Current EXCEPT ![c] = IF @ < v THEN v ELSE @]
      /\ imported' = imported \cup {v} /\ UNCHANGED <<told, last>>
  BY Seen, PRServAssumption DEF ImportOne, Current
<1>2. v \in Int /\ last \in Int /\ Current \in [Checksums -> Values \cup {Absent}]
  BY PRServAssumption DEF Current, TypeOK, Values, Absent
<1>3. NotDecremented'
  BY <1>1 DEF Grown, RevisionsGrow, NotDecremented
<1>4. Unshared'
  BY <1>1 DEF Grown, RevisionsGrow, Unshared
<1>5. ASSUME NEW d \in Checksums PROVE Current[d] <= Current'[d]
  BY <1>1, <1>2 DEF Values, Absent
<1>6. ASSUME NEW d \in Checksums PROVE Current[d] \in Int /\ Current'[d] \in Int
  BY <1>1, <1>2 DEF Values, Absent
<1>7. Bounded'
  <2> SUFFICES ASSUME last # Absent PROVE \E d \in Checksums : last <= Current'[d]
    BY <1>1 DEF Bounded
  <2>1. PICK d \in Checksums : last <= Current[d]
    BY DEF Grown, Bounded
  <2>2. last <= Current'[d]
    BY <1>2, <1>5, <1>6, <2>1
  <2> QED
    BY <2>2
<1>8. TopOwned'
  <2> SUFFICES ASSUME NEW w \in Values \ imported', NEW d \in Checksums, NEW e \in Checksums,
                      IsHighest(Current', w), Current'[d] = w
               PROVE  (Current'[e] = w => d = e) /\ (e \in told[w] => d = e)
    BY <1>1 DEF TopOwned, IsHighest
  <2>1. w # v /\ w \notin imported /\ w \in Int
    BY <1>1 DEF Values
  <2>2. ASSUME NEW f \in Checksums, Current'[f] = w PROVE Current[f] = w
    BY <1>1, <1>2, <2>1, <2>2
  <2>3. \A f \in Checksums : Current[f] <= w
    <3> TAKE f \in Checksums
    <3>1. Current'[f] <= w
      BY DEF IsHighest
    <3> QED
      BY <1>5, <1>6, <2>1, <3>1
  <2>4. IsHighest(Current, w) /\ Current[d] = w
    BY <2>2, <2>3 DEF IsHighest
  <2> QED
    BY <2>1, <2>2, <2>4 DEF Grown, TopOwned
<1> QED
  BY <1>3, <1>4, <1>7, <1>8 DEF Grown, RevisionsGrow

LEMMA GrownNext ==
  ASSUME "sync" \notin CrashAt, TypeOK, Clean, Grown, [Next]_vars PROVE Grown'
<1>1. CASE UNCHANGED vars
  BY <1>1, Kept DEF vars, Current
<1>2. ASSUME NEW s \in Servers, Start(s) \/ GetFails(s) \/ ImportFails(s) \/ BeginFails(s) PROVE Grown'
  BY <1>2, Kept DEF Start, GetFails, ImportFails, BeginFails, Current
<1>3. ASSUME NEW s \in Servers, Commit(s) \/ Begin(s) \/ Stop(s) \/ Crash(s) PROVE Grown'
  BY <1>3, CurrentKept, Kept
<1> QED
  BY <1>1, <1>2, <1>3, GetValueGrown, InsertGrown, ImportGrown DEF Next

LEMMA GrownInit == Init => Clean /\ Grown
<1> SUFFICES ASSUME Init PROVE Clean /\ Grown
  OBVIOUS
<1>1. Clean /\ Bounded
  BY DEF Init, Clean, Bounded
<1>2. TopOwned
  <2>1. \A c \in Checksums : Current[c] \notin Values
    BY DEF Init, Current, Values, Absent
  <2> QED
    BY <2>1 DEF TopOwned
<1>3. RevisionsGrow
  BY DEF Init, RevisionsGrow, NotDecremented, Unshared
<1> QED
  BY <1>1, <1>2, <1>3 DEF Grown

(* Revisions grow and are not shared, if no server dies between an answer  *)
(* and its commit.                                                         *)
THEOREM Revisions == ASSUME "sync" \notin CrashAt PROVE Spec => []RevisionsGrow
<1> DEFINE Inv == TypeOK /\ Clean /\ Grown
<1>1. Init => Inv
  BY TypeInit, GrownInit
<1>2. Inv /\ [Next]_vars => Inv'
  BY TypeNext, CleanNext, GrownNext
<1>3. Inv => RevisionsGrow
  BY DEF Grown
<1> QED
  BY <1>1, <1>2, <1>3, PTL DEF Spec

=============================================================================
