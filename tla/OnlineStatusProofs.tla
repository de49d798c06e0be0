------------------------ MODULE OnlineStatusProofs ------------------------
(***************************************************************************)
(* What holds of the users' states for every number of users and Limit.    *)
(*                                                                         *)
(* LogTellsOnline speaks of a user whom neither callback nor thread has in *)
(* hand; Settled says what is true of him at each of their statements.     *)
(* OfflineMeansSilent follows from FreshList: an entry of OnlineList is    *)
(* the user's time as it stands, until a heartbeat changes the column.     *)
(***************************************************************************)
EXTENDS OnlineStatus, TLAPS

\* What the user's last entry says is true of the column.
Agree(u) ==
  /\ last[u] = "XT-Login" => online[u] = 1
  /\ last[u] = "DropLine" => online[u] = 0

\* A user of whom no statement failed and none were interleaved, or whom a
\* later one has put right.
Settled(u) ==
  /\ user # u /\ who # u => Agree(u)
  /\ who = u => user # u /\ online[u] = 0
  /\ user = u /\ at = "read" => Agree(u)
  /\ user = u /\ at = "log" => online[u] = 0
  /\ user = u /\ at = "update" => last[u] # "DropLine"

LogInv == \A u \in User \ muddled : Settled(u)

\* The callback has a user at its statements only; OnlineList is empty
\* before the SELECT, and keeps the time of a user who is not heard of.
FreshList ==
  /\ at = "idle" => user = None
  /\ pass = "select" => \A u \in User : list[u] = None
  /\ \A u \in User \ (late \cup garbled) : list[u] # None => list[u] = age[u]

IInv == TypeOK /\ LogInv /\ FreshList

USE LimitAssumption, NoneAssumption, NeverAssumption

LEMMA EntryHas == {"XT-Login", "DropLine", "LoginError"} = Entry
  BY DEF Entry

LEMMA InitIInv == Init => IInv
  <1>1. Init => TypeOK
    <2>1. Init => online \in [User -> 0..1]
      BY DEF Init
    <2>2. Init => age \in [User -> 0..(Limit + 1) \cup {Never}]
      BY DEF Init
    <2>3. Init => list \in [User -> 0..(Limit + 1) \cup {None, Never}]
      BY DEF Init, Empty
    <2>4. Init => last \in [User -> Entry]
      BY EntryHas DEF Init
    <2>5. QED
      BY <2>1, <2>2, <2>3, <2>4 DEF Init, TypeOK
  <1>2. ASSUME Init, NEW u \in User
        PROVE  Settled(u)
    BY <1>2 DEF Init, Settled, Agree
  <1>3. Init => FreshList
    BY DEF Init, Empty, FreshList
  <1>4. QED
    BY <1>1, <1>2, <1>3 DEF IInv, LogInv

\* What the clock does to an age.
LEMMA OlderRange ==
  /\ \A n \in 0..(Limit + 1) : Older(n) \in 0..(Limit + 1)
  /\ Older(None) = None
  /\ Older(Never) = Never
  BY DEF Older

\* Time passes.
LEMMA TimeKeep ==
  ASSUME IInv, Tick
  PROVE  IInv'
  <1>1. CASE Tick
    <2>1. TypeOK'
      BY <1>1, OlderRange DEF Tick, table, callback, thread, history, IInv,
           TypeOK, FreshList
    <2>2. ASSUME NEW u \in User \ muddled'
          PROVE  Settled(u)'
      <3>1. u \in User \ muddled /\ Settled(u)
        BY <1>1, <2>2 DEF Tick, history, IInv, LogInv
      <3>2. /\ online[u] \in {0, 1} /\ user \in User \cup {None}
            /\ pass # "log" => who = None
        BY <2>2 DEF IInv, TypeOK
      <3>3. QED
        BY <1>1, <2>2, <3>1, <3>2 DEF Tick, table, callback, thread, history,
             IInv,
             FreshList, Settled, Agree
    <2>3. FreshList'
      BY <1>1, OlderRange DEF Tick, table, callback, thread, history, IInv,
           TypeOK, FreshList
    <2>4. QED
      BY <2>1, <2>2, <2>3 DEF IInv, LogInv
  <1>2. QED
    BY <1>1

\* A heartbeat comes.
LEMMA HeartbeatKeep ==
  ASSUME IInv, \E u \in User : Heartbeat(u)
  PROVE  IInv'
  <1>1. CASE \E u \in User : Heartbeat(u)
    <2>1. TypeOK'
      BY <1>1 DEF Heartbeat, table, callback, thread, history, IInv, TypeOK,
           FreshList
    <2>2. ASSUME NEW u \in User \ muddled'
          PROVE  Settled(u)'
      <3>1. u \in User \ muddled /\ Settled(u)
        BY <1>1, <2>2 DEF Heartbeat, history, IInv, LogInv
      <3>2. /\ online[u] \in {0, 1} /\ user \in User \cup {None}
            /\ pass # "log" => who = None
        BY <2>2 DEF IInv, TypeOK
      <3>3. QED
        BY <1>1, <2>2, <3>1, <3>2 DEF Heartbeat, table, callback, thread,
             history, IInv,
             FreshList, Settled, Agree
    <2>3. FreshList'
      BY <1>1 DEF Heartbeat, table, callback, thread, history, IInv, FreshList
    <2>4. QED
      BY <2>1, <2>2, <2>3 DEF IInv, LogInv
  <1>2. QED
    BY <1>1

\* The callback reads the column and writes the log.
LEMMA CallbackKeep ==
  ASSUME IInv, ReadOnline \/ ReadFails \/ LogLogin \/ LogLoginFails
  PROVE  IInv'
  <1>1. CASE ReadOnline
    <2>1. TypeOK'
      BY <1>1 DEF ReadOnline, table, callback, thread, history, IInv, TypeOK,
           FreshList
    <2>2. ASSUME NEW u \in User \ muddled'
          PROVE  Settled(u)'
      <3>1. u \in User \ muddled /\ Settled(u)
        BY <1>1, <2>2 DEF ReadOnline, history, IInv, LogInv
      <3>2. /\ online[u] \in {0, 1} /\ user \in User \cup {None}
            /\ pass # "log" => who = None
        BY <2>2 DEF IInv, TypeOK
      <3>3. QED
        BY <1>1, <2>2, <3>1, <3>2 DEF ReadOnline, table, callback, thread,
             history, IInv,
             FreshList, Settled, Agree
    <2>3. FreshList'
      BY <1>1 DEF ReadOnline, table, callback, thread, history, IInv,
           FreshList
    <2>4. QED
      BY <2>1, <2>2, <2>3 DEF IInv, LogInv
  <1>2. CASE ReadFails
    <2>1. TypeOK'
      BY <1>2 DEF ReadFails, table, callback, thread, history, IInv, TypeOK,
           FreshList
    <2>2. ASSUME NEW u \in User \ muddled'
          PROVE  Settled(u)'
      <3>1. u \in User \ muddled /\ Settled(u)
        BY <1>2, <2>2 DEF ReadFails, history, IInv, LogInv
      <3>2. /\ online[u] \in {0, 1} /\ user \in User \cup {None}
            /\ pass # "log" => who = None
        BY <2>2 DEF IInv, TypeOK
      <3>3. QED
        BY <1>2, <2>2, <3>1, <3>2 DEF ReadFails, table, callback, thread,
             history, IInv,
             FreshList, Settled, Agree
    <2>3. FreshList'
      BY <1>2 DEF ReadFails, table, callback, thread, history, IInv, FreshList
    <2>4. QED
      BY <2>1, <2>2, <2>3 DEF IInv, LogInv
  <1>3. CASE LogLogin
    <2>1. TypeOK'
      BY <1>3, EntryHas DEF LogLogin, table, callback, thread, history, IInv,
           TypeOK, FreshList
    <2>2. ASSUME NEW u \in User \ muddled'
          PROVE  Settled(u)'
      <3>1. u \in User \ muddled /\ Settled(u)
        BY <1>3, <2>2 DEF LogLogin, history, IInv, LogInv
      <3>2. /\ online[u] \in {0, 1} /\ user \in User \cup {None}
            /\ pass # "log" => who = None
        BY <2>2 DEF IInv, TypeOK
      <3>3. /\ u = user => last'[u] = "XT-Login"
            /\ u # user => last'[u] = last[u]
        BY <1>3, <2>2 DEF LogLogin, table, callback, thread, history, IInv,
             TypeOK
      <3>4. QED
        BY <1>3, <2>2, <3>1, <3>2, <3>3 DEF LogLogin, table, callback, thread,
             history, IInv,
             FreshList, Settled, Agree
    <2>3. FreshList'
      BY <1>3 DEF LogLogin, table, callback, thread, history, IInv, FreshList
    <2>4. QED
      BY <2>1, <2>2, <2>3 DEF IInv, LogInv
  <1>4. CASE LogLoginFails
    <2>1. TypeOK'
      BY <1>4 DEF LogLoginFails, table, callback, thread, history, IInv,
           TypeOK, FreshList
    <2>2. ASSUME NEW u \in User \ muddled'
          PROVE  Settled(u)'
      <3>1. u \in User \ muddled /\ Settled(u)
        BY <1>4, <2>2 DEF LogLoginFails, history, IInv, LogInv
      <3>2. /\ online[u] \in {0, 1} /\ user \in User \cup {None}
            /\ pass # "log" => who = None
        BY <2>2 DEF IInv, TypeOK
      <3>3. QED
        BY <1>4, <2>2, <3>1, <3>2 DEF LogLoginFails, table, callback, thread,
             history, IInv,
             FreshList, Settled, Agree
    <2>3. FreshList'
      BY <1>4 DEF LogLoginFails, table, callback, thread, history, IInv,
           FreshList
    <2>4. QED
      BY <2>1, <2>2, <2>3 DEF IInv, LogInv
  <1>5. QED
    BY <1>1, <1>2, <1>3, <1>4

\* The callback sets the user online.
LEMMA OnlineKeep ==
  ASSUME IInv, SetOnline \/ SetOnlineGarbled \/ SetOnlineFails
  PROVE  IInv'
  <1>1. CASE SetOnline
    <2>1. TypeOK'
      <3>1. /\ online' \in [User -> 0..1]
            /\ age' \in [User -> 0..(Limit + 1) \cup {Never}]
        <4>1. online' = [online EXCEPT ![user] = 1]
          BY <1>1 DEF SetOnline
        <4>2. online \in [User -> 0..1] /\ 1 \in 0..1
          BY DEF IInv, TypeOK
        <4>3. online' \in [User -> 0..1]
          BY <4>1, <4>2, Zenon
        <4>4. age' = [age EXCEPT ![user] = 0]
          BY <1>1 DEF SetOnline
        <4>5. /\ age \in [User -> 0..(Limit + 1) \cup {Never}]
              /\ 0 \in 0..(Limit + 1) \cup {Never}
          BY DEF IInv, TypeOK
        <4>6. age' \in [User -> 0..(Limit + 1) \cup {Never}]
          BY <4>4, <4>5, Zenon
        <4>7. QED
          BY <4>3, <4>6
      <3>2. late' \subseteq User /\ garbled' \subseteq User
        BY <1>1 DEF SetOnline, Listed, IInv, TypeOK
      <3>3. muddled' \subseteq User
        BY <1>1 DEF SetOnline, IInv, TypeOK
      <3>4. QED
        BY <1>1, <3>1, <3>2, <3>3 DEF SetOnline, thread, IInv, TypeOK
    <2>2. ASSUME NEW u \in User \ muddled'
          PROVE  Settled(u)'
      <3>1. /\ online[u] \in {0, 1} /\ user \in User \cup {None}
            /\ pass # "log" => who = None
        BY <2>2 DEF IInv, TypeOK
      <3>2. at' = "idle" /\ user' = None /\ UNCHANGED <<last, thread>>
        BY <1>1 DEF SetOnline
      <3>3. /\ u = user => online'[u] = 1
            /\ u # user => online'[u] = online[u]
        BY <1>1, <2>2 DEF SetOnline, IInv, TypeOK
      <3>4. CASE u \in muddled
        <4>1. u = user /\ last[u] # "DropLine" /\ who # u
          BY <1>1, <2>2, <3>4 DEF SetOnline
        <4>2. QED
          BY <2>2, <3>1, <3>2, <3>3, <4>1 DEF Settled, Agree, thread
      <3>5. CASE u \notin muddled
        <4>1. Settled(u)
          BY <2>2, <3>5 DEF IInv, LogInv
        <4>2. QED
          BY <1>1, <2>2, <3>1, <3>2, <3>3, <4>1 DEF SetOnline, Settled, Agree,
               thread
      <3>6. QED
        BY <3>4, <3>5
    <2>3. FreshList'
      BY <1>1 DEF SetOnline, Listed, table, callback, thread, history, IInv,
           TypeOK, FreshList
    <2>4. QED
      BY <2>1, <2>2, <2>3 DEF IInv, LogInv
  <1>2. CASE SetOnlineGarbled
    <2>1. TypeOK'
      BY <1>2 DEF SetOnlineGarbled, Listed, table, callback, thread, history,
           IInv, TypeOK, FreshList
    <2>2. ASSUME NEW u \in User \ muddled'
          PROVE  Settled(u)'
      <3>1. u \in User \ muddled /\ Settled(u)
        BY <1>2, <2>2 DEF SetOnlineGarbled, history, IInv, LogInv
      <3>2. /\ online[u] \in {0, 1} /\ user \in User \cup {None}
            /\ pass # "log" => who = None
        BY <2>2 DEF IInv, TypeOK
      <3>3. QED
        BY <1>2, <2>2, <3>1, <3>2 DEF SetOnlineGarbled, table, callback,
             thread, history, IInv,
             FreshList, Settled, Agree
    <2>3. FreshList'
      BY <1>2 DEF SetOnlineGarbled, Listed, table, callback, thread, history,
           IInv, TypeOK, FreshList
    <2>4. QED
      BY <2>1, <2>2, <2>3 DEF IInv, LogInv
  <1>3. CASE SetOnlineFails
    <2>1. TypeOK'
      BY <1>3 DEF SetOnlineFails, table, callback, thread, history, IInv,
           TypeOK, FreshList
    <2>2. ASSUME NEW u \in User \ muddled'
          PROVE  Settled(u)'
      <3>1. u \in User \ muddled /\ Settled(u)
        BY <1>3, <2>2 DEF SetOnlineFails, history, IInv, LogInv
      <3>2. /\ online[u] \in {0, 1} /\ user \in User \cup {None}
            /\ pass # "log" => who = None
        BY <2>2 DEF IInv, TypeOK
      <3>3. QED
        BY <1>3, <2>2, <3>1, <3>2 DEF SetOnlineFails, table, callback, thread,
             history, IInv,
             FreshList, Settled, Agree
    <2>3. FreshList'
      BY <1>3 DEF SetOnlineFails, table, callback, thread, history, IInv,
           FreshList
    <2>4. QED
      BY <2>1, <2>2, <2>3 DEF IInv, LogInv
  <1>4. QED
    BY <1>1, <1>2, <1>3

\* OnlineThread reads the table and comes to its end.
LEMMA SelectKeep ==
  ASSUME IInv, Select \/ SelectFails \/ ScanEnds
  PROVE  IInv'
  <1>1. CASE Select
    <2>1. TypeOK'
      BY <1>1 DEF Select, table, callback, thread, history, IInv, TypeOK,
           FreshList
    <2>2. ASSUME NEW u \in User \ muddled'
          PROVE  Settled(u)'
      <3>1. u \in User \ muddled /\ Settled(u)
        BY <1>1, <2>2 DEF Select, history, IInv, LogInv
      <3>2. /\ online[u] \in {0, 1} /\ user \in User \cup {None}
            /\ pass # "log" => who = None
        BY <2>2 DEF IInv, TypeOK
      <3>3. QED
        BY <1>1, <2>2, <3>1, <3>2 DEF Select, table, callback, thread,
             history, IInv,
             FreshList, Settled, Agree
    <2>3. FreshList'
      BY <1>1 DEF Select, table, callback, thread, history, IInv, TypeOK,
           FreshList
    <2>4. QED
      BY <2>1, <2>2, <2>3 DEF IInv, LogInv
  <1>2. CASE SelectFails
    <2>1. TypeOK'
      BY <1>2 DEF SelectFails, table, callback, thread, history, IInv, TypeOK,
           FreshList
    <2>2. ASSUME NEW u \in User \ muddled'
          PROVE  Settled(u)'
      <3>1. u \in User \ muddled /\ Settled(u)
        BY <1>2, <2>2 DEF SelectFails, history, IInv, LogInv
      <3>2. /\ online[u] \in {0, 1} /\ user \in User \cup {None}
            /\ pass # "log" => who = None
        BY <2>2 DEF IInv, TypeOK
      <3>3. QED
        BY <1>2, <2>2, <3>1, <3>2 DEF SelectFails, table, callback, thread,
             history, IInv,
             FreshList, Settled, Agree
    <2>3. FreshList'
      BY <1>2 DEF SelectFails, table, callback, thread, history, IInv,
           FreshList
    <2>4. QED
      BY <2>1, <2>2, <2>3 DEF IInv, LogInv
  <1>3. CASE ScanEnds
    <2>1. TypeOK'
      BY <1>3 DEF ScanEnds, Empty, table, callback, thread, history, IInv,
           TypeOK, FreshList
    <2>2. ASSUME NEW u \in User \ muddled'
          PROVE  Settled(u)'
      <3>1. u \in User \ muddled /\ Settled(u)
        BY <1>3, <2>2 DEF ScanEnds, history, IInv, LogInv
      <3>2. /\ online[u] \in {0, 1} /\ user \in User \cup {None}
            /\ pass # "log" => who = None
        BY <2>2 DEF IInv, TypeOK
      <3>3. QED
        BY <1>3, <2>2, <3>1, <3>2 DEF ScanEnds, Empty, table, callback,
             thread, history, IInv,
             FreshList, Settled, Agree
    <2>3. FreshList'
      BY <1>3 DEF ScanEnds, Empty, table, callback, thread, history, IInv,
           TypeOK, FreshList
    <2>4. QED
      BY <2>1, <2>2, <2>3 DEF IInv, LogInv
  <1>4. QED
    BY <1>1, <1>2, <1>3

\* OnlineThread takes a user offline.
LEMMA DropKeep ==
  ASSUME IInv,
         \/ \E u \in User : SetOffline(u)
         \/ \E u \in User : SetOfflineFails(u)
         \/ \E u \in User : PassOver(u)
  PROVE  IInv'
  <1>1. CASE \E u \in User : SetOffline(u)
    <2>1. TypeOK'
      BY <1>1 DEF SetOffline, Comes, Due, table, callback, thread, history,
           IInv, TypeOK, FreshList
    <2>2. ASSUME NEW u \in User \ muddled'
          PROVE  Settled(u)'
      <3>1. u \in User \ muddled /\ Settled(u)
        BY <1>1, <2>2 DEF SetOffline, history, IInv, LogInv
      <3>2. /\ online[u] \in {0, 1} /\ user \in User \cup {None}
            /\ pass # "log" => who = None
        BY <2>2 DEF IInv, TypeOK
      <3>3. /\ u = who' => online'[u] = 0
            /\ u # who' => online'[u] = online[u]
        BY <1>1, <2>2 DEF SetOffline, Comes, table, callback, thread,
             history, IInv, TypeOK
      <3>4. QED
        BY <1>1, <2>2, <3>1, <3>2, <3>3 DEF SetOffline, Comes, Due, table,
             callback, thread, history, IInv,
             FreshList, Settled, Agree
    <2>3. FreshList'
      BY <1>1 DEF SetOffline, Comes, Due, table, callback, thread, history,
           IInv, TypeOK, FreshList
    <2>4. QED
      BY <2>1, <2>2, <2>3 DEF IInv, LogInv
  <1>2. CASE \E u \in User : SetOfflineFails(u)
    <2>1. TypeOK'
      BY <1>2 DEF SetOfflineFails, Comes, Due, table, callback, thread, history,
           IInv, TypeOK, FreshList
    <2>2. ASSUME NEW u \in User \ muddled'
          PROVE  Settled(u)'
      <3>1. u \in User \ muddled /\ Settled(u)
        BY <1>2, <2>2 DEF SetOfflineFails, history, IInv, LogInv
      <3>2. /\ online[u] \in {0, 1} /\ user \in User \cup {None}
            /\ pass # "log" => who = None
        BY <2>2 DEF IInv, TypeOK
      <3>3. QED
        BY <1>2, <2>2, <3>1, <3>2 DEF SetOfflineFails, Comes, Due, table,
             callback, thread, history, IInv,
             FreshList, Settled, Agree
    <2>3. FreshList'
      BY <1>2 DEF SetOfflineFails, Comes, Due, table, callback, thread, history,
           IInv, TypeOK, FreshList
    <2>4. QED
      BY <2>1, <2>2, <2>3 DEF IInv, LogInv
  <1>3. CASE \E u \in User : PassOver(u)
    <2>1. TypeOK'
      BY <1>3 DEF PassOver, Comes, table, callback, thread, history, IInv,
           TypeOK, FreshList
    <2>2. ASSUME NEW u \in User \ muddled'
          PROVE  Settled(u)'
      <3>1. u \in User \ muddled /\ Settled(u)
        BY <1>3, <2>2 DEF PassOver, IInv, LogInv
      <3>2. QED
        BY <1>3, <2>2, <3>1 DEF PassOver, Comes, table, callback, thread,
             Settled, Agree
    <2>3. FreshList'
      BY <1>3 DEF PassOver, Comes, table, callback, thread, history, IInv,
           TypeOK, FreshList
    <2>4. QED
      BY <2>1, <2>2, <2>3 DEF IInv, LogInv
  <1>4. QED
    BY <1>1, <1>2, <1>3

\* OnlineThread writes the log.
LEMMA DropLogKeep ==
  ASSUME IInv, LogDrop \/ LogDropFails
  PROVE  IInv'
  <1>1. CASE LogDrop
    <2>1. TypeOK'
      BY <1>1, EntryHas DEF LogDrop, table, callback, thread, history, IInv,
           TypeOK, FreshList
    <2>2. ASSUME NEW u \in User \ muddled'
          PROVE  Settled(u)'
      <3>1. /\ user' = user /\ at' = at /\ online' = online /\ who' = None
            /\ who # None
            /\ u = who => last'[u] = "DropLine"
            /\ u # who => last'[u] = last[u]
        BY <1>1, <2>2 DEF LogDrop, callback, IInv, TypeOK
      <3>2. CASE who = u /\ u \notin muddled
        <4>1. user # u /\ online[u] = 0
          BY <2>2, <3>2 DEF IInv, LogInv, Settled
        <4>2. QED
          BY <2>2, <3>1, <3>2, <4>1 DEF Settled, Agree
      <3>3. CASE who = u /\ u \in muddled
        <4>1. user # u /\ online[u] = 0
          BY <1>1, <2>2, <3>3 DEF LogDrop
        <4>2. QED
          BY <2>2, <3>1, <3>3, <4>1 DEF Settled, Agree
      <3>4. CASE who # u
        <4>1. u \notin muddled /\ Settled(u)
          BY <1>1, <2>2, <3>4 DEF LogDrop, IInv, LogInv
        <4>2. QED
          BY <2>2, <3>1, <3>4, <4>1 DEF Settled, Agree
      <3>5. QED
        BY <3>2, <3>3, <3>4
    <2>3. FreshList'
      BY <1>1 DEF LogDrop, table, callback, thread, history, IInv, FreshList
    <2>4. QED
      BY <2>1, <2>2, <2>3 DEF IInv, LogInv
  <1>2. CASE LogDropFails
    <2>1. TypeOK'
      BY <1>2 DEF LogDropFails, table, callback, thread, history, IInv,
           TypeOK, FreshList
    <2>2. ASSUME NEW u \in User \ muddled'
          PROVE  Settled(u)'
      <3>1. u \in User \ muddled /\ Settled(u)
        BY <1>2, <2>2 DEF LogDropFails, history, IInv, LogInv
      <3>2. /\ online[u] \in {0, 1} /\ user \in User \cup {None}
            /\ pass # "log" => who = None
        BY <2>2 DEF IInv, TypeOK
      <3>3. QED
        BY <1>2, <2>2, <3>1, <3>2 DEF LogDropFails, table, callback, thread,
             history, IInv,
             FreshList, Settled, Agree
    <2>3. FreshList'
      BY <1>2 DEF LogDropFails, table, callback, thread, history, IInv,
           FreshList
    <2>4. QED
      BY <2>1, <2>2, <2>3 DEF IInv, LogInv
  <1>3. QED
    BY <1>1, <1>2

\* A plugin is loaded, or the process is started again.
LEMMA ResetKeep ==
  ASSUME IInv, SpecialVioLoaded \/ Restart \/ RestartFails
  PROVE  IInv'
  <1>1. CASE SpecialVioLoaded
    <2>1. TypeOK'
      BY <1>1 DEF SpecialVioLoaded, table, callback, thread, history, IInv,
           TypeOK, FreshList
    <2>2. ASSUME NEW u \in User \ muddled'
          PROVE  Settled(u)'
      <3>1. u \in User \ muddled /\ Settled(u)
        BY <1>1, <2>2 DEF SpecialVioLoaded, history, IInv, LogInv
      <3>2. /\ online[u] \in {0, 1} /\ user \in User \cup {None}
            /\ pass # "log" => who = None
        BY <2>2 DEF IInv, TypeOK
      <3>3. QED
        BY <1>1, <2>2, <3>1, <3>2 DEF SpecialVioLoaded, table, callback,
             thread, history, IInv,
             FreshList, Settled, Agree
    <2>3. FreshList'
      BY <1>1 DEF SpecialVioLoaded, table, callback, thread, history, IInv,
           FreshList
    <2>4. QED
      BY <2>1, <2>2, <2>3 DEF IInv, LogInv
  <1>2. CASE Restart
    <2>1. TypeOK'
      <3>1. /\ online' \in [User -> 0..1]
            /\ list' \in [User -> 0..(Limit + 1) \cup {None, Never}]
        BY <1>2 DEF Restart, Empty
      <3>2. muddled' \subseteq User
        BY <1>2 DEF Restart, IInv, TypeOK
      <3>3. QED
        BY <1>2, <3>1, <3>2 DEF Restart, IInv, TypeOK
    <2>2. ASSUME NEW u \in User \ muddled'
          PROVE  Settled(u)'
      <3>1. u \in User \ muddled /\ Settled(u)
        BY <1>2, <2>2 DEF Restart, history, IInv, LogInv
      <3>2. /\ online[u] \in {0, 1} /\ user \in User \cup {None}
            /\ pass # "log" => who = None
        BY <2>2 DEF IInv, TypeOK
      <3>3. QED
        BY <1>2, <2>2, <3>1, <3>2 DEF Restart, Empty, table, callback, thread,
             history, IInv,
             FreshList, Settled, Agree
    <2>3. FreshList'
      BY <1>2 DEF Restart, Empty, table, callback, thread, history, IInv,
           TypeOK, FreshList
    <2>4. QED
      BY <2>1, <2>2, <2>3 DEF IInv, LogInv
  <1>3. CASE RestartFails
    <2>1. TypeOK'
      BY <1>3 DEF RestartFails, Empty, table, callback, thread, history, IInv,
           TypeOK, FreshList
    <2>2. ASSUME NEW u \in User \ muddled'
          PROVE  Settled(u)'
      <3>1. u \in User \ muddled /\ Settled(u)
        BY <1>3, <2>2 DEF RestartFails, history, IInv, LogInv
      <3>2. /\ online[u] \in {0, 1} /\ user \in User \cup {None}
            /\ pass # "log" => who = None
        BY <2>2 DEF IInv, TypeOK
      <3>3. QED
        BY <1>3, <2>2, <3>1, <3>2 DEF RestartFails, Empty, table, callback,
             thread, history, IInv,
             FreshList, Settled, Agree
    <2>3. FreshList'
      BY <1>3 DEF RestartFails, Empty, table, callback, thread, history, IInv,
           TypeOK, FreshList
    <2>4. QED
      BY <2>1, <2>2, <2>3 DEF IInv, LogInv
  <1>4. QED
    BY <1>1, <1>2, <1>3

\* A failed login is logged, whatever callback and thread are at.
LEMMA LoginKeep ==
  ASSUME IInv, \E u \in User : LoginFails(u)
  PROVE  IInv'
  <1>1. PICK v \in User : LoginFails(v)
    OBVIOUS
  <1>2. TypeOK'
    BY <1>1, EntryHas DEF LoginFails, callback, thread, history, IInv, TypeOK
  <1>3. ASSUME NEW u \in User \ muddled'
        PROVE  Settled(u)'
    <2>1. u \in User \ muddled /\ Settled(u)
      BY <1>1, <1>3 DEF LoginFails, history, IInv, LogInv
    <2>2. /\ u = v => last'[u] = "LoginError"
          /\ u # v => last'[u] = last[u]
      BY <1>1, <1>3 DEF LoginFails, IInv, TypeOK
    <2>3. QED
      BY <1>1, <1>3, <2>1, <2>2 DEF LoginFails, callback, thread, Settled,
           Agree
  <1>4. FreshList'
    BY <1>1 DEF LoginFails, callback, thread, history, IInv, FreshList
  <1>5. QED
    BY <1>2, <1>3, <1>4 DEF IInv, LogInv

LEMMA StutterKeep ==
  ASSUME IInv, UNCHANGED vars
  PROVE  IInv'
  BY DEF vars, table, callback, thread, history, IInv, TypeOK, LogInv,
       Settled, Agree, FreshList

LEMMA NextIInv == IInv /\ [Next]_vars => IInv'
  <1>1. ASSUME IInv, Next
        PROVE  IInv'
    <2>1. CASE mOn_Message
      BY <1>1, <2>1, HeartbeatKeep, CallbackKeep, OnlineKeep DEF mOn_Message
    <2>2. CASE OnlineThread
      BY <1>1, <2>2, SelectKeep, DropKeep, DropLogKeep DEF OnlineThread
    <2>3. QED
      BY <1>1, <2>1, <2>2, TimeKeep, LoginKeep, ResetKeep DEF Next
  <1>2. QED
    BY <1>1, StutterKeep

LEMMA Invariance == Spec => []IInv
  BY InitIInv, NextIInv, PTL DEF Spec

\* The columns, OnlineList and the statements keep to their ranges.
THEOREM TypeCorrect == Spec => []TypeOK
  <1>1. IInv => TypeOK
    BY DEF IInv
  <1>2. QED
    BY <1>1, Invariance, PTL

\* What a user's last entry in the log of connections says is true of the
\* column online, for every number of users and whatever failed logins are
\* logged between, unless a mishap met the user that nothing has put right
\* since: between its SELECT and its last UPDATE the callback relies on what
\* it read.
THEOREM LogAgrees == Spec => []LogTellsOnline
  <1>1. IInv => LogTellsOnline
    BY DEF IInv, LogInv, Settled, Agree, LogTellsOnline
  <1>2. QED
    BY <1>1, Invariance, PTL

\* OnlineThread drops a user only after more than Limit of silence, unless he
\* was heard of after its SELECT or itoaa's buffer lost his time.
THEOREM DroppedAfterSilence == Spec => OfflineMeansSilent
  <1>1. IInv /\ [Next]_vars =>
          [\A u \in User : SetOffline(u) /\ u \notin late \cup garbled
                             => age[u] > Limit]_vars
    BY DEF IInv, TypeOK, FreshList, SetOffline, Due
  <1>2. QED
    BY <1>1, Invariance, PTL DEF Spec, OfflineMeansSilent
=============================================================================
