----------------------------- MODULE Blacklist -----------------------------
(***************************************************************************)
(* The blacklist of UpdateVioData and the phones that copy it.  Every      *)
(* change of a row gives it a timestamp, MAX + 1; a phone walks through    *)
(* the timestamps and takes the rows of each (BlackIsUpdate,               *)
(* GetBlackCount, GetBlack).  Nothing is ever removed: altertype 2 tells   *)
(* the phones to delete.                                                   *)
(*                                                                         *)
(* Handlers run under the plugin's mutex, DataDelThread does not.  A phone *)
(* is external: it goes on with the timestamp GetBlack answers, asks again *)
(* when it has reached the one GetBlackCount answered, and starts over     *)
(* with its last timestamp when an answer is lost.  The answer it reads    *)
(* may be another phone's (gresXML, see PluginDispatch); one of another    *)
(* call lacks what the phone asks for and is as good as lost.              *)
(***************************************************************************)
EXTENDS Integers, FiniteSets

CONSTANTS Row,        \* the rows the table may come to have
          Phone,
          SweptTime,  \* the TIMESTAMP DataDelThread sets: 9 in the code
          Batch,      \* how many checkpoint rows share a timestamp: 50
          Garbage,    \* what an uninitialised int may hold
          MaxTime     \* bound: no timestamp above it is given

ASSUME TimeAssumption ==
  /\ SweptTime \in Nat \ {0} /\ Batch \in Nat
  /\ MaxTime \in Nat /\ SweptTime <= MaxTime
ASSUME GarbageAssumption == Garbage \subseteq 0..(MaxTime - 1)
ASSUME RowAssumption == IsFiniteSet(Row)

VARIABLES altertype,     \* 1 added, 2 deleted, 3 changed; 0: no such row yet
          timestamp,     \* each row's
          op,            \* the handler that is between its statements
          stamp,         \* its local timestamp
          del,           \* where DataDelThread is
          new_timestamp, \* the plugin's static variable
          at, ts,        \* each phone: its next call, its timestamp
          count, told,   \* what GetBlackCount answered it
          copy,          \* the timestamp of its copy of each row, 0: none
          high,          \* history: the highest timestamp ever given
          behind,        \* history: rows whose timestamp was not a new one,
                         \* and those that share a timestamp with them
          cause,         \* history: what has happened that may do that
          misled         \* history: phones and timestamps they pass on an
                         \* answer of a failed SELECT or of another phone

table == <<altertype, timestamp>>
handler == <<op, stamp>>
phone == <<at, ts, count, told, copy>>
history == <<high, behind, cause>>
vars == <<table, handler, del, new_timestamp, phone, history, misled>>

Present == {r \in Row : altertype[r] # 0}
RowsAt(t) == {r \in Present : timestamp[r] = t}

\* SELECT MAX(TIMESTAMP), of a table that is not empty.
IsMax(m) == (\E r \in Present : timestamp[r] = m)
            /\ \A r \in Present : timestamp[r] <= m

Init ==
  /\ altertype = [r \in Row |-> 0]
  /\ timestamp = [r \in Row |-> 0]
  /\ op = "none" /\ stamp = 0
  /\ del = "select"
  /\ new_timestamp = 0
  /\ at = [p \in Phone |-> "idle"]
  /\ ts = [p \in Phone |-> 0]
  /\ count = [p \in Phone |-> 0]
  /\ told = [p \in Phone |-> 0]
  /\ copy = [p \in Phone |-> [r \in Row |-> 0]]
  /\ high = 0 /\ behind = {} /\ cause = {} /\ misled = {}

-----------------------------------------------------------------------------
(* The handlers that change the list: SELECT MAX(TIMESTAMP), then write.   *)

Adding == {"InsertBlack", "affirmVioData"}
Changing == {"DeleteBlack", "UpdateBlack"}
Checkpoint == {"insertViodata"}

Begin(o, t) ==
  /\ op = "none"
  /\ op' = o
  /\ stamp' = t
  /\ UNCHANGED <<table, del, new_timestamp, phone, high, behind, misled>>

\* InsertBlack, affirmVioData, DeleteBlack and UpdateBlack take MAX + 1;
\* only InsertBlack gets over an empty table (ORDER BY, not MAX).
ReadMax(o) ==
  \/ \E m \in 0..(MaxTime - 1) :
       IsMax(m) /\ Begin(o, m + 1) /\ UNCHANGED cause
  \/ Present = {} /\ o = "InsertBlack" /\ Begin(o, 1) /\ UNCHANGED cause

\* The SELECT fails: timestamp is 0, or uninitialised in affirmVioData, and
\* the handler goes on.
ReadFails(o) ==
  /\ \E g \in IF o = "affirmVioData" THEN Garbage ELSE {0} : Begin(o, g + 1)
  /\ cause' = cause \cup {"failed"}

\* insertViodata with data of a checkpoint takes MAX itself.
CheckpointReads(o) ==
  \/ \E m \in 0..(MaxTime - 1) : IsMax(m) /\ Begin(o, m) /\ UNCHANGED cause
  \/ \E g \in Garbage : Begin(o, g) /\ cause' = cause \cup {"failed"}

\* It goes on to the next when 50 rows have it (unless that SELECT fails).
CheckpointCounts ==
  /\ op = "insertViodata"
  /\ stamp' = IF Cardinality(RowsAt(stamp)) >= Batch THEN stamp + 1 ELSE stamp
  /\ op' = "counted"
  /\ UNCHANGED <<table, del, new_timestamp, phone, history, misled>>

CheckpointCountFails ==
  /\ op = "insertViodata"
  /\ op' = "counted"
  /\ UNCHANGED <<table, stamp, del, new_timestamp, phone, history, misled>>

\* History: the rows R get timestamp t, and what that means for phones that
\* have passed t or have counted the rows of t.
Stamped(R, t) ==
  /\ high' = IF t > high THEN t ELSE high
  /\ behind' = (behind \ R) \cup (IF t > high THEN {} ELSE R \cup RowsAt(t))

\* INSERT INTO xxdb_data_blacklist, with altertype 1.
InsertRow(r) ==
  /\ op \in Adding \cup {"counted"}
  /\ r \notin Present
  /\ altertype' = [altertype EXCEPT ![r] = 1]
  /\ timestamp' = [timestamp EXCEPT ![r] = stamp]
  /\ Stamped({r}, stamp)
  /\ cause' = IF op = "counted" THEN cause \cup {"checkpoint"} ELSE cause
  /\ op' = "none" /\ stamp' = 0
  /\ UNCHANGED <<del, new_timestamp, phone, misled>>

\* (Wrong: DeleteBlack leaves the rows their timestamp.)
ChangeKeepsTime(R) ==
  /\ op \in Changing
  /\ R # {} /\ R \subseteq Present
  /\ altertype' = [r \in Row |-> IF r \notin R THEN altertype[r]
                                 ELSE IF op = "DeleteBlack" THEN 2 ELSE 3]
  /\ op' = "none" /\ stamp' = 0
  /\ UNCHANGED <<timestamp, del, new_timestamp, phone, history, misled>>

\* UPDATE xxdb_data_blacklist: the rows of one vehicle and record, deleted
\* ones too.
Change(R) ==
  /\ op \in Changing
  /\ R # {} /\ R \subseteq Present
  /\ altertype' = [r \in Row |-> IF r \notin R THEN altertype[r]
                                 ELSE IF op = "DeleteBlack" THEN 2 ELSE 3]
  /\ timestamp' = [r \in Row |-> IF r \in R THEN stamp ELSE timestamp[r]]
  /\ Stamped(R, stamp)
  /\ op' = "none" /\ stamp' = 0
  /\ UNCHANGED <<cause, del, new_timestamp, phone, misled>>

\* The statement fails (the handler answers res = 2) or matches no row.
WriteFails ==
  /\ op \in Adding \cup Changing \cup {"counted"}
  /\ op' = "none" /\ stamp' = 0
  /\ UNCHANGED <<table, del, new_timestamp, phone, history, misled>>

-----------------------------------------------------------------------------
(* DataDelThread, on its own connection and without the mutex.             *)

\* It finds a row out of date (of those, the first is all it fetches).
DelSelect ==
  /\ del = "select"
  /\ \E r \in Row : altertype[r] = 1
  /\ del' = "update"
  /\ UNCHANGED <<table, handler, new_timestamp, phone, history, misled>>

\* "WHERE 1=1 OR id = ...": every row is marked deleted, with TIMESTAMP 9.
DelUpdate ==
  /\ del = "update"
  /\ altertype' = [r \in Row |-> IF r \in Present THEN 2 ELSE 0]
  /\ timestamp' = [r \in Row |-> IF r \in Present THEN SweptTime ELSE 0]
  /\ Stamped(Present, SweptTime)
  /\ cause' = cause \cup {"swept"}
  /\ del' = "select"
  /\ UNCHANGED <<handler, new_timestamp, phone, misled>>

DelUpdateFails ==
  /\ del = "update"
  /\ del' = "select"
  /\ UNCHANGED <<table, handler, new_timestamp, phone, history, misled>>

-----------------------------------------------------------------------------
(* The phones.                                                             *)

server == <<table, handler, del, history>>

\* (Wrong: the phone is sent on to the timestamp that comes next.)
BlackIsUpdateEarly(p) ==
  /\ op = "none" /\ at[p] = "idle"
  /\ \E m \in 0..MaxTime :
       /\ IsMax(m)
       /\ new_timestamp' = m
       /\ at' = [at EXCEPT ![p] = IF ts[p] <= m + 1 THEN "count" ELSE "idle"]
  /\ UNCHANGED <<server, ts, count, told, copy, misled>>

\* BlackIsUpdate: is there something at the phone's timestamp or above?  (If
\* the SELECT fails the answer is no.)
BlackIsUpdate(p) ==
  /\ op = "none" /\ at[p] = "idle"
  /\ \E m \in 0..MaxTime :
       /\ IsMax(m)
       /\ new_timestamp' = m
       /\ at' = [at EXCEPT ![p] = IF m # 0 /\ ts[p] <= m THEN "count" ELSE "idle"]
  /\ UNCHANGED <<server, ts, count, told, copy, misled>>

\* The phone learns that its timestamp has n rows and goes on up to last.
Counts(p, n, last) ==
  /\ at[p] = "count"
  /\ count' = [count EXCEPT ![p] = n]
  /\ told' = [told EXCEPT ![p] = last]
  /\ at' = [at EXCEPT ![p] = "get"]
  /\ UNCHANGED <<server, new_timestamp, ts, copy>>

\* GetBlackCount: how many rows the timestamp has, and new_timestamp.
GetBlackCount(p) ==
  /\ op = "none"
  /\ Counts(p, Cardinality(RowsAt(ts[p])), new_timestamp)
  /\ UNCHANGED misled

\* The phone takes the rows R, which have timestamp t, and goes on behind t.
Takes(p, R, t) ==
  /\ at[p] = "get"
  /\ copy' = [copy EXCEPT ![p] = [r \in Row |->
                IF r \notin R THEN @[r]
                ELSE IF altertype[r] = 2 THEN 0 ELSE timestamp[r]]]
  /\ ts' = [ts EXCEPT ![p] = t + 1]
  /\ at' = [at EXCEPT ![p] = IF t < told[p] THEN "count" ELSE "idle"]
  /\ count' = [count EXCEPT ![p] = 0]
  /\ told' = [told EXCEPT ![p] = 0]
  /\ UNCHANGED <<server, new_timestamp>>

\* The rows of a phone's timestamp, limit 0,count.
Limited(p) ==
  {R \in SUBSET RowsAt(ts[p]) :
     IF R = RowsAt(ts[p]) THEN Cardinality(R) <= count[p]
                          ELSE Cardinality(R) = count[p]}

\* GetBlack: the rows of the timestamp, and timestamp + 1.
GetBlack(p) ==
  /\ op = "none"
  /\ \E R \in Limited(p) : Takes(p, R, ts[p])
  /\ UNCHANGED misled

\* The SELECT of GetBlackCount fails: the answer is 0 rows and new_timestamp.
GetBlackCountFails(p) ==
  /\ op = "none"
  /\ Counts(p, 0, new_timestamp)
  /\ misled' = misled \cup {<<p, ts[p]>>}

\* The SELECT of GetBlack fails: the answer is no rows and timestamp + 1.
GetBlackFails(p) ==
  /\ op = "none"
  /\ Takes(p, {}, ts[p])
  /\ misled' = misled \cup {<<p, ts[p]>>}

\* Before a phone's answer is sent q's has taken its place in gresXML: that
\* there is news, ...
ReadsOtherUpdate(p, q) ==
  /\ at[p] = "idle" /\ at[q] = "count"
  /\ ts[p] <= MaxTime
  /\ at' = [at EXCEPT ![p] = "count"]
  /\ misled' = misled \cup {<<p, ts[p]>>}
  /\ UNCHANGED <<server, new_timestamp, ts, count, told, copy>>

\* ... the number of rows of q's timestamp, ...
ReadsOtherCount(p, q) ==
  /\ at[q] = "get"
  /\ Counts(p, count[q], told[q])
  /\ misled' = misled \cup {<<p, ts[p]>>}

\* ... or the rows of q's timestamp and the one behind it.
ReadsOtherBlack(p, q) ==
  /\ at[q] = "get"
  /\ \E R \in Limited(q) : Takes(p, R, ts[q])
  /\ misled' = misled \cup ({p} \X (ts[p]..ts[q]))

\* An answer is lost: the phone keeps its timestamp and starts over.
GiveUp(p) ==
  /\ at[p] # "idle"
  /\ at' = [at EXCEPT ![p] = "idle"]
  /\ count' = [count EXCEPT ![p] = 0]
  /\ told' = [told EXCEPT ![p] = 0]
  /\ UNCHANGED <<server, new_timestamp, ts, copy, misled>>

\* The process ends (atoi(NULL) for the MAX of an empty table, or any other
\* reason) and is started again: the static variable is 0.
Restart ==
  /\ op' = "none" /\ stamp' = 0
  /\ del' = "select"
  /\ new_timestamp' = 0
  /\ UNCHANGED <<table, phone, history, misled>>

Handler ==
  \/ \E o \in Adding \cup Changing : ReadMax(o) \/ ReadFails(o)
  \/ \E o \in Checkpoint : CheckpointReads(o)
  \/ CheckpointCounts \/ CheckpointCountFails
  \/ \E r \in Row : InsertRow(r)
  \/ \E R \in SUBSET Row : Change(R)
  \/ WriteFails

Walk(p) ==
  \/ BlackIsUpdate(p) \/ GetBlackCount(p) \/ GetBlack(p)
  \/ GetBlackCountFails(p) \/ GetBlackFails(p) \/ GiveUp(p)
  \/ \E q \in Phone \ {p} :
       ReadsOtherUpdate(p, q) \/ ReadsOtherCount(p, q) \/ ReadsOtherBlack(p, q)

Next ==
  \/ Handler
  \/ DelSelect \/ DelUpdate \/ DelUpdateFails
  \/ \E p \in Phone : Walk(p)
  \/ Restart

Spec == Init /\ [][Next]_vars

-----------------------------------------------------------------------------
(* Properties.                                                             *)

\* The columns and the phones' counters keep to their ranges.
TypeOK ==
  /\ altertype \in [Row -> 0..3]
  /\ timestamp \in [Row -> 0..MaxTime]
  /\ op \in {"none", "counted"} \cup Adding \cup Changing \cup Checkpoint
  /\ stamp \in 0..MaxTime
  /\ del \in {"select", "update"}
  /\ new_timestamp \in 0..MaxTime
  /\ at \in [Phone -> {"idle", "count", "get"}]
  /\ ts \in [Phone -> 0..(MaxTime + 1)]
  /\ count \in [Phone -> 0..Cardinality(Row)]
  /\ told \in [Phone -> 0..MaxTime]
  /\ copy \in [Phone -> [Row -> 0..MaxTime]]
  /\ high \in 0..MaxTime
  /\ behind \subseteq Row
  /\ cause \subseteq {"failed", "checkpoint", "swept"}
  /\ misled \subseteq Phone \X (0..MaxTime)

\* No timestamp is above the highest that was given, and a phone is sent
\* past that one by an answer that misleads it only.
Reached ==
  /\ \A r \in Row : timestamp[r] <= high
  /\ new_timestamp <= high
  /\ \A p \in Phone :
       /\ told[p] <= high
       /\ \A t \in 0..MaxTime : high < t /\ t < ts[p] => <<p, t>> \in misled
       /\ at[p] # "idle" => ts[p] <= MaxTime
       /\ at[p] # "idle" => ts[p] <= high \/ <<p, ts[p]>> \in misled

\* What a phone has when it has passed row r's timestamp.
Held(p, r) == copy[p][r] = IF altertype[r] = 2 THEN 0 ELSE timestamp[r]

\* A phone that has passed a row's timestamp has the row as it is, or has
\* deleted it, whatever changes, lost answers and other phones came between
\* its calls.  The exceptions are a row whose timestamp was not a new one,
\* which takes a failed SELECT of a handler, DataDelThread or a checkpoint,
\* and the very timestamps that a phone passed on the answer of a SELECT that
\* failed, which looks like one without rows, or on another phone's answer.
PastMeansHeld ==
  \A p \in Phone, r \in Present :
    ts[p] > timestamp[r] =>
      \/ Held(p, r)
      \/ r \in behind /\ cause # {}
      \/ <<p, timestamp[r]>> \in misled
=============================================================================
