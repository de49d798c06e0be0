--------------------------- MODULE BlacklistProofs ---------------------------
(***************************************************************************)
(* What holds of the phones' copies of the blacklist, for any number of    *)
(* rows and phones and any timestamps.                                     *)
(*                                                                         *)
(* A change stamps its rows with a timestamp that no phone has reached     *)
(* (Reached), so a phone that passes a row's timestamp took the row with   *)
(* it (Fresh).  It takes no more rows than it was told to count, and that  *)
(* is enough because rows only leave a timestamp that is not new           *)
(* (Counted).  Rows that got an older timestamp are behind; NewStamps says *)
(* that this takes one of the causes.  A timestamp about which a phone is  *)
(* misled is left out of all this, for that phone.                         *)
(***************************************************************************)
EXTENDS Blacklist, FiniteSetTheorems, TLAPS

Fresh ==
  \A p \in Phone, r \in Present :
    r \notin behind /\ ts[p] > timestamp[r] =>
      Held(p, r) \/ <<p, timestamp[r]>> \in misled

Counted ==
  \A p \in Phone : at[p] = "get" =>
    \/ <<p, ts[p]>> \in misled
    \/ RowsAt(ts[p]) \subseteq behind
    \/ Cardinality(RowsAt(ts[p])) <= count[p]

\* While nothing has gone wrong MAX is the highest timestamp ever given, and
\* a handler's MAX + 1 a new one.
NewStamps ==
  cause = {} =>
    /\ behind = {}
    /\ \/ Present = {} /\ high = 0
       \/ \E r \in Present : timestamp[r] = high
    /\ op \in Adding \cup Changing => stamp > high

\* A checkpoint's timestamp may still go on by one.
Room == op \in Checkpoint => stamp < MaxTime

Walking == Reached /\ Fresh /\ Counted

IInv == TypeOK /\ Room /\ Walking /\ NewStamps

USE TimeAssumption, GarbageAssumption, RowAssumption

LEMMA InitIInv == Init => IInv
  <1>1. Cardinality(Row) \in Nat
    BY FS_CardinalityType
  <1>2. Init => TypeOK
    BY <1>1 DEF Init, TypeOK
  <1>3. Init => Walking
    BY DEF Init, Walking, Reached, Fresh, Counted, Present
  <1>4. Init => NewStamps /\ Room
    BY DEF Init, NewStamps, Present, Room, Adding, Changing, Checkpoint
  <1>5. QED
    BY <1>2, <1>3, <1>4 DEF IInv

-----------------------------------------------------------------------------
(* The table.                                                              *)

LEMMA RowsAtFinite ==
  ASSUME NEW t
  PROVE  /\ IsFiniteSet(RowsAt(t))
         /\ Cardinality(RowsAt(t)) \in 0..Cardinality(Row)
  <1>1. RowsAt(t) \in SUBSET Row
    BY DEF RowsAt, Present
  <1>2. /\ IsFiniteSet(RowsAt(t))
        /\ Cardinality(RowsAt(t)) <= Cardinality(Row)
    BY <1>1, FS_Subset
  <1>3. Cardinality(RowsAt(t)) \in Nat /\ Cardinality(Row) \in Nat
    BY <1>2, FS_CardinalityType
  <1>4. QED
    BY <1>2, <1>3

\* A statement gives the rows R timestamp t; a row that is not there may be
\* zeroed.
Writes(R, t) ==
  /\ Stamped(R, t)
  /\ \A r \in R : altertype'[r] # 0 /\ timestamp'[r] = t
  /\ \A r \in Row \ R :
       /\ altertype'[r] = altertype[r]
       /\ \/ timestamp'[r] = timestamp[r]
          \/ altertype[r] = 0 /\ timestamp'[r] = 0

\* What the phones rely on survives every such statement: with a new
\* timestamp the rows go where no phone has been, with another they are
\* behind, together with those that have it already.
LEMMA WriteKeep ==
  ASSUME TypeOK, Walking, UNCHANGED <<phone, misled>>,
         NEW R \in SUBSET Row, NEW t \in 0..MaxTime, Writes(R, t),
         new_timestamp' = new_timestamp
  PROVE  Walking'
  <1> DEFINE Old == IF t > high THEN {} ELSE R \cup RowsAt(t)
             After(x) == {r \in Present' : timestamp'[r] = x}
  <1>1. /\ high' = (IF t > high THEN t ELSE high)
        /\ behind' = (behind \ R) \cup Old
    BY DEF Writes, Stamped
  <1>2. high \in Nat /\ high' \in Nat /\ high <= high' /\ t <= high'
    BY <1>1 DEF TypeOK
  <1>3. Present' = Present \cup R
    BY DEF Writes, Present
  <1>4. \A x : After(x) = IF x = t THEN RowsAt(x) \cup R ELSE RowsAt(x) \ R
    BY <1>3 DEF Writes, RowsAt, Present
  <1> HIDE DEF After
  <1>5. \A p \in Phone : ts[p] \in Nat /\ told[p] \in Nat /\ count[p] \in Nat
    BY DEF TypeOK
  <1>6. Reached'
    <2>1. \A r \in Row : timestamp'[r] <= high'
      BY <1>2 DEF Writes, TypeOK, Walking, Reached
    <2>2. new_timestamp' <= high'
      BY <1>2 DEF TypeOK, Walking, Reached
    <2>3. ASSUME NEW p \in Phone
          PROVE  /\ told[p] <= high'
                 /\ \A x \in 0..MaxTime :
                      high' < x /\ x < ts[p] => <<p, x>> \in misled
                 /\ at[p] # "idle" => ts[p] <= MaxTime
                 /\ at[p] # "idle" => ts[p] <= high' \/ <<p, ts[p]>> \in misled
      BY <1>2, <1>5 DEF Walking, Reached
    <2>4. QED
      BY <2>1, <2>2, <2>3 DEF Reached, phone
  <1>7. Fresh'
    <2>1. ASSUME NEW p \in Phone, NEW r \in Present', r \notin behind',
                 ts[p] > timestamp'[r]
          PROVE  Held(p, r)' \/ <<p, timestamp'[r]>> \in misled
      <3>1. CASE r \in R
        <4>1. t > high /\ timestamp'[r] = t
          BY <1>1, <2>1, <3>1 DEF Writes
        <4>2. QED
          BY <2>1, <4>1 DEF Walking, Reached
      <3>2. CASE r \notin R
        <4>1. r \in Present /\ r \notin behind
          BY <1>1, <1>3, <2>1, <3>2
        <4>2. timestamp'[r] = timestamp[r] /\ altertype'[r] = altertype[r]
          BY <3>2, <4>1 DEF Writes, Present
        <4>3. QED
          BY <2>1, <4>1, <4>2 DEF Walking, Fresh, Held, phone
      <3>3. QED
        BY <3>1, <3>2
    <2>2. QED
      BY <2>1 DEF Fresh, phone
  <1>8. Counted'
    <2>1. ASSUME NEW p \in Phone, at[p] = "get", <<p, ts[p]>> \notin misled,
                 ~(After(ts[p]) \subseteq behind')
          PROVE  Cardinality(After(ts[p])) <= count[p]
      <3>1. ts[p] <= high
        BY <2>1 DEF Walking, Reached
      <3>2. ts[p] # t
        <4>1. SUFFICES ASSUME ts[p] = t
                       PROVE  After(t) \subseteq behind'
          BY <2>1
        <4>2. Old = R \cup RowsAt(t)
          BY <1>2, <1>5, <3>1, <4>1
        <4>3. After(t) = RowsAt(t) \cup R
          BY <1>4
        <4>4. QED
          BY <1>1, <4>2, <4>3
      <3>3. After(ts[p]) = RowsAt(ts[p]) \ R
        BY <1>4, <3>2
      <3>4. ~(RowsAt(ts[p]) \subseteq behind)
        BY <1>1, <2>1, <3>3
      <3>5. Cardinality(RowsAt(ts[p])) <= count[p]
        BY <2>1, <3>4 DEF Walking, Counted
      <3>6. /\ IsFiniteSet(After(ts[p]))
            /\ Cardinality(After(ts[p])) <= Cardinality(RowsAt(ts[p]))
        BY <3>3, RowsAtFinite, FS_Subset
      <3>7. /\ Cardinality(After(ts[p])) \in Nat
            /\ Cardinality(RowsAt(ts[p])) \in Nat
        BY <3>6, RowsAtFinite, FS_CardinalityType
      <3>8. QED
        BY <1>5, <3>5, <3>6, <3>7
    <2>2. QED
      BY <2>1 DEF Counted, RowsAt, phone, After
  <1>9. QED
    BY <1>6, <1>7, <1>8 DEF Walking

\* A step that leaves the rows and the phones alone.
LEMMA QuietKeep ==
  ASSUME TypeOK, Walking, UNCHANGED <<table, phone, high, behind, misled>>,
         new_timestamp' \in {new_timestamp, 0}
  PROVE  Walking'
  <1>1. Reached'
    BY DEF TypeOK, Walking, Reached, table, phone
  <1>2. Fresh'
    BY DEF Walking, Fresh, Held, Present, table, phone
  <1>3. Counted'
    BY DEF Walking, Counted, RowsAt, Present, table, phone
  <1>4. QED
    BY <1>1, <1>2, <1>3 DEF Walking

-----------------------------------------------------------------------------
(* The handlers.                                                           *)

\* MAX is the highest timestamp ever given, as long as nothing went wrong.
LEMMA MaxIsHigh ==
  ASSUME IInv, cause = {}, NEW m \in 0..MaxTime, IsMax(m)
  PROVE  m = high
  <1>1. m <= high
    BY DEF IInv, Walking, Reached, IsMax, Present
  <1>2. high <= m
    BY DEF IInv, NewStamps, IsMax
  <1>3. QED
    BY <1>1, <1>2 DEF IInv, TypeOK

\* A handler reads MAX, or fails to.
LEMMA ReadKeep ==
  ASSUME IInv,
         \/ \E o \in Adding \cup Changing : ReadMax(o) \/ ReadFails(o)
         \/ CheckpointReads("insertViodata")
  PROVE  IInv'
  <1>1. PICK o \in Adding \cup Changing \cup Checkpoint, t \in 0..MaxTime :
          /\ Begin(o, t)
          /\ cause' \in {cause, cause \cup {"failed"}}
          /\ cause' = {} /\ o \in Adding \cup Changing => t > high
          /\ o \in Checkpoint => t < MaxTime
    <2>1. ASSUME NEW o \in Adding \cup Changing, ReadMax(o)
          PROVE  \E t \in 0..MaxTime :
                   /\ Begin(o, t) /\ cause' = cause
                   /\ cause = {} => t > high
      <3>1. CASE Present = {} /\ o = "InsertBlack" /\ Begin(o, 1)
                 /\ UNCHANGED cause
        <4>1. cause = {} => high = 0
          BY <3>1 DEF IInv, NewStamps
        <4>2. 1 \in 0..MaxTime
          OBVIOUS
        <4>3. QED
          BY <3>1, <4>1, <4>2
      <3>2. ASSUME NEW m \in 0..(MaxTime - 1), IsMax(m), Begin(o, m + 1),
                   UNCHANGED cause
            PROVE  \E t \in 0..MaxTime :
                     /\ Begin(o, t) /\ cause' = cause
                     /\ cause = {} => t > high
        <4>1. m \in 0..MaxTime /\ m + 1 \in 0..MaxTime
          OBVIOUS
        <4>2. cause = {} => m + 1 > high
          BY <3>2, <4>1, MaxIsHigh
        <4>3. QED
          BY <3>2, <4>1, <4>2
      <3>3. QED
        BY <2>1, <3>1, <3>2 DEF ReadMax
    <2>2. ASSUME NEW o \in Adding \cup Changing, ReadFails(o)
          PROVE  \E t \in 0..MaxTime :
                   Begin(o, t) /\ cause' = cause \cup {"failed"}
      <3>1. \A g \in Garbage \cup {0} : g + 1 \in 0..MaxTime
        OBVIOUS
      <3>2. QED
        BY <2>2, <3>1 DEF ReadFails
    <2>3. ASSUME CheckpointReads("insertViodata")
          PROVE  \E t \in 0..MaxTime :
                   /\ Begin("insertViodata", t) /\ t < MaxTime
                   /\ cause' \in {cause, cause \cup {"failed"}}
      <3>1. \A t \in 0..(MaxTime - 1) \cup Garbage :
              t \in 0..MaxTime /\ t < MaxTime
        OBVIOUS
      <3>2. QED
        BY <2>3, <3>1 DEF CheckpointReads
    <2>4. /\ Checkpoint = {"insertViodata"}
          /\ "insertViodata" \notin Adding \cup Changing
      BY DEF Checkpoint, Adding, Changing
    <2>5. QED
      BY <2>1, <2>2, <2>3, <2>4
  <1>2. TypeOK' /\ Room'
    BY <1>1 DEF IInv, TypeOK, Room, Begin, table, phone
  <1>3. Walking'
    BY <1>1, QuietKeep DEF IInv, Begin
  <1>4. NewStamps'
    BY <1>1 DEF IInv, NewStamps, Begin, Present, table
  <1>5. QED
    BY <1>2, <1>3, <1>4 DEF IInv

\* insertViodata counts the rows of its timestamp.
LEMMA CountKeep ==
  ASSUME IInv, CheckpointCounts \/ CheckpointCountFails
  PROVE  IInv'
  <1>1. op' = "counted" /\ stamp' \in 0..MaxTime
    BY DEF CheckpointCounts, CheckpointCountFails, IInv, TypeOK, Room,
           Checkpoint
  <1>2. UNCHANGED <<table, del, new_timestamp, phone, history, misled>>
    BY DEF CheckpointCounts, CheckpointCountFails
  <1>3. TypeOK' /\ Room'
    BY <1>1, <1>2 DEF IInv, TypeOK, Room, Checkpoint, table, phone, history
  <1>4. Walking'
    BY <1>2, QuietKeep DEF IInv, history
  <1>5. NewStamps'
    BY <1>1, <1>2
       DEF IInv, NewStamps, Present, Adding, Changing, table, history
  <1>6. QED
    BY <1>3, <1>4, <1>5 DEF IInv

\* What a statement that writes leaves, by its rows R and its timestamp t.
LEMMA TableKeep ==
  ASSUME IInv, NEW R \in SUBSET Row, NEW t \in 0..MaxTime, Writes(R, t),
         UNCHANGED <<new_timestamp, phone, misled>>,
         altertype' \in [Row -> 0..3], timestamp' \in [Row -> 0..MaxTime],
         del' \in {"select", "update"},
         cause' \in SUBSET {"failed", "checkpoint", "swept"},
         (op' = "none" /\ stamp' = 0) \/ UNCHANGED <<op, stamp>>,
         cause \subseteq cause',
         cause' = {} => R # {} /\ t > high /\ op' = "none"
  PROVE  IInv'
  <1>1. high' \in 0..MaxTime /\ behind' \subseteq Row
    BY DEF Writes, Stamped, RowsAt, Present, IInv, TypeOK
  <1>2. TypeOK'
    BY <1>1 DEF IInv, TypeOK, phone
  <1>3. Room'
    BY DEF IInv, Room, Checkpoint
  <1>4. Walking'
    BY WriteKeep DEF IInv
  <1>5. NewStamps'
    <2>1. SUFFICES ASSUME cause' = {}
                   PROVE  /\ behind' = {}
                          /\ \E r \in Present' : timestamp'[r] = high'
                          /\ op' = "none"
      BY DEF NewStamps, Adding, Changing
    <2>2. behind = {} /\ t > high
      BY <2>1 DEF IInv, NewStamps
    <2>3. behind' = {} /\ high' = t
      BY <2>2 DEF Writes, Stamped
    <2>4. PICK r \in R : r \in Present' /\ timestamp'[r] = t
      BY <2>1 DEF Writes, Present
    <2>5. QED
      BY <2>1, <2>3, <2>4
  <1>6. QED
    BY <1>2, <1>3, <1>4, <1>5 DEF IInv

\* The handlers' INSERT and UPDATE.
LEMMA InsertKeep ==
  ASSUME IInv, NEW r \in Row, InsertRow(r)
  PROVE  IInv'
  <1>1. /\ stamp \in 0..MaxTime
        /\ altertype' \in [Row -> 0..3] /\ timestamp' \in [Row -> 0..MaxTime]
    BY DEF InsertRow, IInv, TypeOK
  <1>2. Writes({r}, stamp)
    BY DEF Writes, InsertRow, IInv, TypeOK
  <1>3. /\ cause' \in SUBSET {"failed", "checkpoint", "swept"}
        /\ cause \subseteq cause'
    BY DEF InsertRow, IInv, TypeOK
  <1>4. cause' = {} => stamp > high
    BY DEF InsertRow, IInv, NewStamps
  <1>5. /\ op' = "none" /\ stamp' = 0 /\ del' \in {"select", "update"}
        /\ UNCHANGED <<new_timestamp, phone, misled>>
    BY DEF InsertRow, IInv, TypeOK
  <1>6. QED
    BY <1>1, <1>2, <1>3, <1>4, <1>5, TableKeep

LEMMA ChangeKeep ==
  ASSUME IInv, NEW R \in SUBSET Row, Change(R)
  PROVE  IInv'
  <1>1. /\ stamp \in 0..MaxTime
        /\ altertype' \in [Row -> 0..3] /\ timestamp' \in [Row -> 0..MaxTime]
    BY DEF Change, IInv, TypeOK
  <1>2. Writes(R, stamp)
    BY DEF Writes, Change, IInv, TypeOK
  <1>3. /\ cause' = cause /\ cause \subseteq {"failed", "checkpoint", "swept"}
        /\ R # {}
    BY DEF Change, IInv, TypeOK
  <1>4. cause' = {} => stamp > high
    BY DEF Change, IInv, NewStamps
  <1>5. /\ op' = "none" /\ stamp' = 0 /\ del' \in {"select", "update"}
        /\ UNCHANGED <<new_timestamp, phone, misled>>
    BY DEF Change, IInv, TypeOK
  <1>6. QED
    BY <1>1, <1>2, <1>3, <1>4, <1>5, TableKeep

\* DataDelThread's UPDATE of every row.
LEMMA SweepKeep ==
  ASSUME IInv, DelUpdate
  PROVE  IInv'
  <1>1. /\ Present \in SUBSET Row /\ SweptTime \in 0..MaxTime
        /\ altertype' \in [Row -> 0..3] /\ timestamp' \in [Row -> 0..MaxTime]
    BY DEF DelUpdate, Present, IInv, TypeOK
  <1>2. Writes(Present, SweptTime)
    BY DEF Writes, DelUpdate, Present, IInv, TypeOK
  <1>3. /\ cause' \in SUBSET {"failed", "checkpoint", "swept"}
        /\ cause \subseteq cause' /\ cause' # {}
    BY DEF DelUpdate, IInv, TypeOK
  <1>4. /\ UNCHANGED <<op, stamp>> /\ del' \in {"select", "update"}
        /\ UNCHANGED <<new_timestamp, phone, misled>>
    BY DEF DelUpdate, handler
  <1>5. QED
    BY <1>1, <1>2, <1>3, <1>4, TableKeep

\* What changes nothing but where the handler or DataDelThread is.
LEMMA IdleKeep ==
  ASSUME IInv,
         WriteFails \/ DelSelect \/ DelUpdateFails \/ Restart \/ UNCHANGED vars
  PROVE  IInv'
  <1>1. /\ UNCHANGED <<table, phone, history, misled>>
        /\ new_timestamp' \in {new_timestamp, 0}
        /\ (op' = "none" /\ stamp' = 0) \/ UNCHANGED <<op, stamp>>
        /\ del' \in {"select", "update"}
    BY DEF WriteFails, DelSelect, DelUpdateFails, Restart, vars, handler, IInv,
           TypeOK
  <1>2. TypeOK' /\ Room'
    BY <1>1 DEF IInv, TypeOK, Room, Checkpoint, table, phone, history
  <1>3. Walking'
    BY <1>1, QuietKeep DEF IInv, history
  <1>4. NewStamps'
    BY <1>1 DEF IInv, NewStamps, Present, Adding, Changing, table, history
  <1>5. QED
    BY <1>2, <1>3, <1>4 DEF IInv

-----------------------------------------------------------------------------
(* The phones.                                                             *)

\* The table stays as it is while a phone asks.
LEMMA AskedKeep ==
  ASSUME IInv, UNCHANGED server
  PROVE  Room' /\ NewStamps'
  BY DEF server, IInv, Room, NewStamps, Present, table, handler, history

\* A phone that is about to ask asks for a timestamp in range.
LEMMA AskedInRange ==
  ASSUME IInv, NEW q \in Phone, at[q] # "idle"
  PROVE  ts[q] \in 0..MaxTime
  <1>1. ts[q] \in 0..(MaxTime + 1)
    BY DEF IInv, TypeOK
  <1>2. ts[q] <= MaxTime
    BY DEF IInv, Walking, Reached
  <1>3. QED
    BY <1>1, <1>2, TimeAssumption

\* The phone learns whether there is something to fetch, or starts over.
LEMMA UpdateKeep ==
  ASSUME IInv, NEW p \in Phone,
         \/ BlackIsUpdate(p) \/ GiveUp(p)
         \/ \E q \in Phone : ReadsOtherUpdate(p, q)
  PROVE  IInv'
  <1>1. UNCHANGED <<server, ts, copy>>
    BY DEF BlackIsUpdate, GiveUp, ReadsOtherUpdate
  <1>2. /\ new_timestamp' \in 0..MaxTime /\ new_timestamp' <= high
        /\ at'[p] = "count" => ts[p] <= MaxTime
        /\ at'[p] = "count" => ts[p] <= high \/ <<p, ts[p]>> \in misled'
        /\ at'[p] \in {"idle", "count"}
    <2>1. CASE BlackIsUpdate(p)
      <3>1. PICK m \in 0..MaxTime :
              /\ IsMax(m) /\ new_timestamp' = m
              /\ at' = [at EXCEPT ![p] = IF m # 0 /\ ts[p] <= m THEN "count"
                                         ELSE "idle"]
        BY <2>1 DEF BlackIsUpdate
      <3>2. m <= high
        BY <3>1 DEF IsMax, Present, IInv, Walking, Reached
      <3>3. at'[p] = IF m # 0 /\ ts[p] <= m THEN "count" ELSE "idle"
        BY <3>1 DEF IInv, TypeOK
      <3>4. ts[p] \in Nat /\ high \in Nat
        BY DEF IInv, TypeOK
      <3>5. QED
        BY <3>1, <3>2, <3>3, <3>4
    <2>2. CASE GiveUp(p)
      BY <2>2 DEF GiveUp, IInv, TypeOK, Walking, Reached
    <2>3. CASE \E q \in Phone : ReadsOtherUpdate(p, q)
      BY <2>3 DEF ReadsOtherUpdate, IInv, TypeOK, Walking, Reached
    <2>4. QED
      BY <2>1, <2>2, <2>3
  <1>3. /\ \A q \in Phone : q # p => at'[q] = at[q] /\ count'[q] = count[q]
        /\ \A q \in Phone : told'[q] \in {told[q], 0}
        /\ misled \subseteq misled'
    BY DEF BlackIsUpdate, GiveUp, ReadsOtherUpdate, IInv, TypeOK
  <1>4. TypeOK'
    <2>1. at' \in [Phone -> {"idle", "count", "get"}]
      BY DEF BlackIsUpdate, GiveUp, ReadsOtherUpdate, IInv, TypeOK
    <2>2. Cardinality(Row) \in Nat
      BY FS_CardinalityType
    <2>3. /\ count' \in [Phone -> 0..Cardinality(Row)]
          /\ told' \in [Phone -> 0..MaxTime]
      <3>1. /\ count' \in {count, [count EXCEPT ![p] = 0]}
            /\ told' \in {told, [told EXCEPT ![p] = 0]}
        BY DEF BlackIsUpdate, GiveUp, ReadsOtherUpdate
      <3>2. /\ count \in [Phone -> 0..Cardinality(Row)]
            /\ told \in [Phone -> 0..MaxTime]
        BY DEF IInv, TypeOK
      <3>3. 0 \in 0..Cardinality(Row) /\ 0 \in 0..MaxTime
        BY <2>2, TimeAssumption
      <3>4. QED
        BY <3>1, <3>2, <3>3
    <2>4. misled' \subseteq misled \cup {<<p, ts[p]>>}
      BY DEF BlackIsUpdate, GiveUp, ReadsOtherUpdate
    <2>5. misled' = misled \/ ts[p] \in 0..MaxTime
      <3>1. ts[p] \in 0..(MaxTime + 1)
        BY DEF IInv, TypeOK
      <3>2. misled' = misled \/ ts[p] <= MaxTime
        BY DEF BlackIsUpdate, GiveUp, ReadsOtherUpdate
      <3>3. QED
        BY <3>1, <3>2, TimeAssumption
    <2>6. misled \subseteq Phone \X (0..MaxTime)
      BY DEF IInv, TypeOK
    <2>7. misled' \subseteq Phone \X (0..MaxTime)
      BY <2>4, <2>5, <2>6
    <2>8. QED
      BY <1>1, <1>2, <2>1, <2>3, <2>7
         DEF IInv, TypeOK, server, table, handler, history
  <1>5. Reached'
    <2>1. \A q \in Phone : at'[q] # "idle" =>
            /\ ts[q] <= MaxTime
            /\ ts[q] <= high \/ <<q, ts[q]>> \in misled'
      BY <1>2, <1>3 DEF IInv, Walking, Reached
    <2>2. QED
      BY <1>1, <1>2, <1>3, <2>1
         DEF IInv, TypeOK, Walking, Reached, server, table, history
  <1>6. Fresh'
    BY <1>1, <1>3
       DEF IInv, Walking, Fresh, Held, Present, server, table, history
  <1>7. Counted'
    BY <1>1, <1>2, <1>3
       DEF IInv, Walking, Counted, RowsAt, Present, server, table, history
  <1>8. QED
    BY <1>1, <1>4, <1>5, <1>6, <1>7, AskedKeep DEF IInv, Walking

\* The phone is told how many rows its timestamp has, or misled about that.
LEMMA CountsKeep ==
  ASSUME IInv, NEW p \in Phone, NEW n \in 0..Cardinality(Row),
         NEW last \in 0..MaxTime, last <= high, Counts(p, n, last),
         misled \subseteq misled', misled' \subseteq misled \cup {<<p, ts[p]>>},
         n = Cardinality(RowsAt(ts[p])) \/ <<p, ts[p]>> \in misled'
  PROVE  IInv'
  <1>1. UNCHANGED <<server, ts, copy, new_timestamp>>
    BY DEF Counts
  <1>2. /\ count'[p] = n /\ told'[p] = last
        /\ at[p] = "count" /\ at'[p] = "get"
        /\ \A q \in Phone : q # p =>
             at'[q] = at[q] /\ count'[q] = count[q] /\ told'[q] = told[q]
    BY DEF Counts, IInv, TypeOK
  <1>3. TypeOK'
    <2>1. at' \in [Phone -> {"idle", "count", "get"}]
      BY DEF Counts, IInv, TypeOK
    <2>2. count' \in [Phone -> 0..Cardinality(Row)]
      BY DEF Counts, IInv, TypeOK
    <2>3. told' \in [Phone -> 0..MaxTime]
      BY DEF Counts, IInv, TypeOK
    <2>4. misled' \subseteq Phone \X (0..MaxTime)
      <3>1. ts[p] \in 0..MaxTime
        BY <1>2, AskedInRange
      <3>2. misled \subseteq Phone \X (0..MaxTime)
        BY DEF IInv, TypeOK
      <3>3. QED
        BY <3>1, <3>2
    <2>5. QED
      BY <1>1, <2>1, <2>2, <2>3, <2>4
         DEF IInv, TypeOK, server, table, handler, history
  <1>4. Reached'
    <2>1. ASSUME NEW q \in Phone
          PROVE  /\ told'[q] <= high
                 /\ at'[q] # "idle" => ts[q] <= MaxTime
                 /\ at'[q] # "idle" => ts[q] <= high \/ <<q, ts[q]>> \in misled
      BY <1>2 DEF IInv, Walking, Reached
    <2>2. QED
      BY <1>1, <2>1 DEF IInv, Walking, Reached, server, table, history
  <1>5. Fresh'
    BY <1>1
       DEF IInv, Walking, Fresh, Held, Present, server, table, history
  <1>6. Counted'
    <2>1. n = Cardinality(RowsAt(ts[p])) =>
            Cardinality(RowsAt(ts[p])) <= count'[p]
      <3>1. Cardinality(RowsAt(ts[p])) \in Nat
        BY RowsAtFinite, FS_CardinalityType
      <3>2. QED
        BY <1>2, <3>1
    <2>2. ASSUME NEW q \in Phone, at'[q] = "get"
          PROVE  \/ <<q, ts[q]>> \in misled'
                 \/ RowsAt(ts[q]) \subseteq behind
                 \/ Cardinality(RowsAt(ts[q])) <= count'[q]
      BY <1>2, <2>1, <2>2 DEF IInv, Walking, Counted
    <2>3. QED
      BY <1>1, <2>2 DEF Counted, RowsAt, Present, server, table, history
  <1>7. QED
    BY <1>1, <1>3, <1>4, <1>5, <1>6, AskedKeep DEF IInv, Walking

LEMMA GetCountKeep ==
  ASSUME IInv, NEW p \in Phone,
         \/ GetBlackCount(p) \/ GetBlackCountFails(p)
         \/ \E q \in Phone : ReadsOtherCount(p, q)
  PROVE  IInv'
  <1>1. new_timestamp \in 0..MaxTime /\ new_timestamp <= high
    BY DEF IInv, TypeOK, Walking, Reached
  <1>2. CASE GetBlackCount(p)
    <2>1. Cardinality(RowsAt(ts[p])) \in 0..Cardinality(Row)
      BY RowsAtFinite
    <2>2. QED
      BY <1>1, <1>2, <2>1, CountsKeep DEF GetBlackCount
  <1>3. CASE GetBlackCountFails(p)
    <2>1. 0 \in 0..Cardinality(Row)
      BY FS_CardinalityType
    <2>2. QED
      BY <1>1, <1>3, <2>1, CountsKeep DEF GetBlackCountFails
  <1>4. ASSUME NEW q \in Phone, ReadsOtherCount(p, q)
        PROVE  IInv'
    <2>1. /\ count[q] \in 0..Cardinality(Row)
          /\ told[q] \in 0..MaxTime /\ told[q] <= high
      BY DEF IInv, TypeOK, Walking, Reached
    <2>2. QED
      BY <1>4, <2>1, CountsKeep DEF ReadsOtherCount
  <1>5. QED
    BY <1>2, <1>3, <1>4

\* The phone takes rows R of a timestamp t and goes on to the next.  Every
\* timestamp it passes is its own and R all its rows that are not behind, or
\* it is misled about it.
LEMMA TakesKeep ==
  ASSUME IInv, NEW p \in Phone, NEW t \in 0..MaxTime,
         NEW R \in SUBSET RowsAt(t), Takes(p, R, t),
         misled \subseteq misled', misled' \subseteq Phone \X (0..MaxTime),
         \A x \in ts[p]..t : <<p, x>> \in misled' \/
             (x = ts[p] /\ x = t /\ t <= high /\ RowsAt(t) \ R \subseteq behind)
  PROVE  IInv'
  <1>1. UNCHANGED <<server, new_timestamp>>
    BY DEF Takes
  <1>2. /\ at[p] = "get"
        /\ ts'[p] = t + 1
        /\ at'[p] = IF t < told[p] THEN "count" ELSE "idle"
        /\ told'[p] = 0
        /\ \A q \in Phone : q # p =>
             /\ at'[q] = at[q] /\ count'[q] = count[q] /\ told'[q] = told[q]
             /\ ts'[q] = ts[q] /\ copy'[q] = copy[q]
    BY DEF Takes, IInv, TypeOK
  <1>3. /\ ts[p] \in 0..MaxTime /\ told[p] \in Nat /\ high \in 0..MaxTime
        /\ told[p] <= high
    <2>1. ts[p] \in 0..MaxTime
      BY <1>2, AskedInRange
    <2>2. told[p] \in Nat /\ high \in 0..MaxTime
      BY DEF IInv, TypeOK
    <2>3. QED
      BY <2>1, <2>2 DEF IInv, Walking, Reached
  <1>4. \A r \in Row : copy'[p][r] = IF r \notin R THEN copy[p][r]
                          ELSE IF altertype[r] = 2 THEN 0 ELSE timestamp[r]
    BY DEF Takes, IInv, TypeOK
  <1>5. TypeOK'
    <2>1. ts' \in [Phone -> 0..(MaxTime + 1)]
      BY DEF Takes, IInv, TypeOK
    <2>2. at' \in [Phone -> {"idle", "count", "get"}]
      BY DEF Takes, IInv, TypeOK
    <2>3. Cardinality(Row) \in Nat
      BY FS_CardinalityType
    <2>4. /\ count' \in [Phone -> 0..Cardinality(Row)]
          /\ told' \in [Phone -> 0..MaxTime]
      BY <2>3 DEF Takes, IInv, TypeOK
    <2>5. copy' \in [Phone -> [Row -> 0..MaxTime]]
      <3>1. [r \in Row |->
               IF r \notin R THEN copy[p][r]
               ELSE IF altertype[r] = 2 THEN 0 ELSE timestamp[r]]
              \in [Row -> 0..MaxTime]
        BY DEF IInv, TypeOK
      <3>2. QED
        BY <3>1 DEF Takes, IInv, TypeOK
    <2>6. QED
      BY <1>1, <2>1, <2>2, <2>4, <2>5
         DEF IInv, TypeOK, server, table, handler, history
  <1>6. ASSUME NEW x \in 0..MaxTime, high < x, x < t + 1
        PROVE  <<p, x>> \in misled'
    <2>1. CASE x < ts[p]
      BY <1>6, <2>1 DEF IInv, Walking, Reached
    <2>2. CASE x >= ts[p]
      BY <1>3, <1>6, <2>2
    <2>3. QED
      BY <1>3, <2>1, <2>2
  <1>7. Reached'
    <2>1. ASSUME NEW q \in Phone
          PROVE  /\ told'[q] <= high
                 /\ \A x \in 0..MaxTime :
                      high < x /\ x < ts'[q] => <<q, x>> \in misled'
                 /\ at'[q] # "idle" => ts'[q] <= MaxTime
                 /\ at'[q] # "idle" => ts'[q] <= high \/ <<q, ts'[q]>> \in misled'
      <3>1. CASE q = p
        BY <1>2, <1>3, <1>6, <3>1
      <3>2. CASE q # p
        BY <1>2, <3>2 DEF IInv, Walking, Reached
      <3>3. QED
        BY <3>1, <3>2
    <2>2. QED
      BY <1>1, <2>1 DEF IInv, Walking, Reached, server, table, history
  <1>8. Fresh'
    <2>1. ASSUME NEW r \in Present, r \notin behind, t + 1 > timestamp[r],
                 <<p, timestamp[r]>> \notin misled'
          PROVE  copy'[p][r] = IF altertype[r] = 2 THEN 0 ELSE timestamp[r]
      <3>1. r \in Row /\ timestamp[r] \in 0..MaxTime
        BY DEF Present, IInv, TypeOK
      <3>2. CASE r \in R
        BY <1>4, <3>1, <3>2
      <3>3. CASE r \notin R
        <4>1. ts[p] > timestamp[r]
          <5>1. SUFFICES ASSUME timestamp[r] \in ts[p]..t
                         PROVE  FALSE
            BY <1>3, <2>1, <3>1
          <5>2. timestamp[r] = t /\ RowsAt(t) \ R \subseteq behind
            BY <2>1, <5>1
          <5>3. QED
            BY <2>1, <3>3, <5>2 DEF RowsAt
        <4>2. copy[p][r] = IF altertype[r] = 2 THEN 0 ELSE timestamp[r]
          BY <2>1, <4>1 DEF IInv, Walking, Fresh, Held
        <4>3. QED
          BY <1>4, <3>1, <3>3, <4>2
      <3>4. QED
        BY <3>2, <3>3
    <2>2. UNCHANGED <<altertype, timestamp, behind>> /\ Present' = Present
      BY <1>1 DEF server, table, history, Present
    <2>3. ASSUME NEW q \in Phone, NEW r \in Present, r \notin behind,
                 ts'[q] > timestamp[r], <<q, timestamp[r]>> \notin misled'
          PROVE  copy'[q][r] = IF altertype[r] = 2 THEN 0 ELSE timestamp[r]
      <3>1. CASE q = p
        BY <1>2, <2>1, <2>3, <3>1
      <3>2. CASE q # p
        BY <1>2, <2>3, <3>2 DEF IInv, Walking, Fresh, Held
      <3>3. QED
        BY <3>1, <3>2
    <2>4. QED
      BY <2>2, <2>3 DEF Fresh, Held
  <1>9. Counted'
    <2>1. \A q \in Phone : at'[q] = "get" =>
            q # p /\ ts'[q] = ts[q] /\ count'[q] = count[q] /\ at[q] = "get"
      BY <1>2
    <2>2. QED
      BY <1>1, <2>1
         DEF IInv, Walking, Counted, RowsAt, Present, server, table, history
  <1>10. QED
    BY <1>1, <1>5, <1>7, <1>8, <1>9, AskedKeep DEF IInv, Walking

\* The phone's own GetBlack: limit 0,count leaves no row out, but for rows
\* that are behind.
LEMMA OwnRows ==
  ASSUME IInv, NEW p \in Phone, at[p] = "get", <<p, ts[p]>> \notin misled,
         NEW R \in Limited(p)
  PROVE  ts[p] <= high /\ RowsAt(ts[p]) \ R \subseteq behind
  <1>1. ts[p] <= high
    BY DEF IInv, Walking, Reached
  <1>2. CASE RowsAt(ts[p]) \subseteq behind
    BY <1>1, <1>2
  <1>3. CASE Cardinality(RowsAt(ts[p])) <= count[p]
    <2>1. R \in SUBSET RowsAt(ts[p])
      BY DEF Limited
    <2>2. /\ IsFiniteSet(R)
          /\ Cardinality(R) <= Cardinality(RowsAt(ts[p]))
          /\ Cardinality(R) = Cardinality(RowsAt(ts[p])) => R = RowsAt(ts[p])
      BY <2>1, RowsAtFinite, FS_Subset
    <2>3. Cardinality(R) \in Nat /\ Cardinality(RowsAt(ts[p])) \in Nat
      BY <2>2, RowsAtFinite, FS_CardinalityType
    <2>4. R = RowsAt(ts[p])
      BY <1>3, <2>2, <2>3 DEF Limited
    <2>5. QED
      BY <1>1, <2>4
  <1>4. QED
    BY <1>2, <1>3 DEF IInv, Walking, Counted

LEMMA GetBlackKeep ==
  ASSUME IInv, NEW p \in Phone,
         \/ GetBlack(p) \/ GetBlackFails(p)
         \/ \E q \in Phone : ReadsOtherBlack(p, q)
  PROVE  IInv'
  <1>1. \A q \in Phone : at[q] = "get" => ts[q] \in 0..MaxTime
    BY AskedInRange
  <1>2. misled \subseteq Phone \X (0..MaxTime)
    BY DEF IInv, TypeOK
  <1>3. CASE GetBlack(p)
    <2>1. PICK R \in Limited(p) : Takes(p, R, ts[p])
      BY <1>3 DEF GetBlack
    <2>2. at[p] = "get" /\ ts[p] \in 0..MaxTime
      BY <1>1, <2>1 DEF Takes
    <2>3. misled' = misled /\ R \in SUBSET RowsAt(ts[p])
      BY <1>3 DEF GetBlack, Limited
    <2>4. \A x \in ts[p]..ts[p] : x = ts[p]
      BY <2>2
    <2>5. \/ <<p, ts[p]>> \in misled
          \/ ts[p] <= high /\ RowsAt(ts[p]) \ R \subseteq behind
      BY <2>2, OwnRows
    <2>6. QED
      BY <1>2, <2>1, <2>2, <2>3, <2>4, <2>5, TakesKeep
  <1>4. CASE GetBlackFails(p)
    <2>1. Takes(p, {}, ts[p]) /\ misled' = misled \cup {<<p, ts[p]>>}
      BY <1>4 DEF GetBlackFails
    <2>2. ts[p] \in 0..MaxTime
      BY <1>1, <2>1 DEF Takes
    <2>3. \A x \in ts[p]..ts[p] : x = ts[p]
      BY <2>2
    <2>4. misled' \subseteq Phone \X (0..MaxTime)
      BY <1>2, <2>1, <2>2
    <2>5. {} \in SUBSET RowsAt(ts[p])
      OBVIOUS
    <2>6. QED
      BY <2>1, <2>2, <2>3, <2>4, <2>5, TakesKeep
  <1>5. ASSUME NEW q \in Phone, ReadsOtherBlack(p, q)
        PROVE  IInv'
    <2>1. PICK R \in Limited(q) : Takes(p, R, ts[q])
      BY <1>5 DEF ReadsOtherBlack
    <2>2. /\ at[p] = "get" /\ at[q] = "get"
          /\ misled' = misled \cup ({p} \X (ts[p]..ts[q]))
      BY <1>5, <2>1 DEF ReadsOtherBlack, Takes
    <2>3. ts[p] \in 0..MaxTime /\ ts[q] \in 0..MaxTime
      BY <1>1, <2>2
    <2>4. misled' \subseteq Phone \X (0..MaxTime)
      BY <1>2, <2>2, <2>3
    <2>5. R \in SUBSET RowsAt(ts[q])
      BY DEF Limited
    <2>6. \A x \in ts[p]..ts[q] : <<p, x>> \in misled'
      BY <2>2
    <2>7. QED
      BY <2>1, <2>2, <2>3, <2>4, <2>5, <2>6, TakesKeep
  <1>6. QED
    BY <1>3, <1>4, <1>5

-----------------------------------------------------------------------------

LEMMA NextIInv == IInv /\ [Next]_vars => IInv'
  <1>1. ASSUME IInv, Handler
        PROVE  IInv'
    <2>1. ASSUME NEW o \in Checkpoint, CheckpointReads(o)
          PROVE  IInv'
      BY <1>1, <2>1, ReadKeep DEF Checkpoint
    <2>2. QED
      BY <1>1, <2>1, ReadKeep, CountKeep, InsertKeep, ChangeKeep, IdleKeep
         DEF Handler
  <1>2. ASSUME IInv, NEW p \in Phone, Walk(p)
        PROVE  IInv'
    BY <1>2, UpdateKeep, GetCountKeep, GetBlackKeep DEF Walk
  <1>3. QED
    BY <1>1, <1>2, SweepKeep, IdleKeep DEF Next

LEMMA Invariance == Spec => []IInv
  BY InitIInv, NextIInv, PTL DEF Spec

\* The columns and the phones' counters keep to their ranges, for every number
\* of rows and phones, batch and bound.
THEOREM TypeCorrect == Spec => []TypeOK
  <1>1. IInv => TypeOK
    BY DEF IInv
  <1>2. QED
    BY <1>1, Invariance, PTL

\* The walk through the timestamps misses no change of the blacklist, however
\* the calls of the phones and the handlers fall and whatever answers are
\* lost, but for rows that a failed SELECT, a checkpoint or DataDelThread has
\* given a timestamp that was not a new one, and for the timestamps a phone
\* passed on the empty answer of a failed SELECT or on another phone's.
THEOREM NothingMissed == Spec => []PastMeansHeld
  <1>1. IInv => PastMeansHeld
    BY DEF IInv, Walking, Fresh, NewStamps, PastMeansHeld
  <1>2. QED
    BY <1>1, Invariance, PTL
=============================================================================
