---------------------------- MODULE OnlineStatus ----------------------------
(***************************************************************************)
(* Who is online, by ReviceMessage.  A heartbeat that MQTT delivers sets   *)
(* the user online and writes XT-Login into the log of connections if he   *)
(* was not; OnlineThread takes users offline who have been silent for more *)
(* than 120 seconds and writes Drop Line.  Callback and thread use their   *)
(* statements on the same rows without a transaction or a lock; the        *)
(* callback writes the time with itoaa, whose static buffer the plugin's   *)
(* handlers use for their answers.  The plugin of the login writes its own *)
(* entries into the same log.                                              *)
(***************************************************************************)
EXTENDS Naturals

CONSTANTS User,
          Limit,  \* 120 seconds, in ticks
          None,   \* nobody, or not in the list
          Never   \* the age of an onlineTime that is yet to come

ASSUME LimitAssumption == Limit \in Nat
ASSUME NoneAssumption == None \notin User \cup Nat
ASSUME NeverAssumption == Never # None /\ Never \notin Nat

VARIABLES online,   \* column
          age,      \* ticks since the column onlineTime, not counted past
                    \* Limit + 1
          last,     \* the user's last entry in xxdb_data_devconnlog
          at, user,        \* the callback: its next statement, whose heartbeat
          pass, list, who, \* OnlineThread: its next statement, the age of
                           \* each user in OnlineList it has not come to,
                           \* whom it drops
          special,  \* the plugin SpecialVio is loaded
          late,     \* history: users in OnlineList who have sent a heartbeat
                    \* since the SELECT
          garbled,  \* history: users whose onlineTime is no time
          muddled   \* history: users of whose statements one failed, or two
                    \* of callback and thread (or a reset) were interleaved,
                    \* until a later one has put column and log together

table == <<online, age, last>>
callback == <<at, user>>
thread == <<pass, list, who>>
history == <<late, garbled, muddled>>
vars == <<table, callback, thread, special, history>>

\* The entries of the log.  Drop Line also stands for no entry yet.
Entry == {"XT-Login", "DropLine", "LoginError"}

Empty == [u \in User |-> None]
Listed == {u \in User : list[u] # None}

Init ==
  /\ online = [u \in User |-> 0]
  /\ age = [u \in User |-> Limit + 1]
  /\ last = [u \in User |-> "DropLine"]
  /\ at = "idle" /\ user = None
  /\ pass = "select" /\ list = Empty /\ who = None
  /\ special = FALSE
  /\ late = {} /\ garbled = {} /\ muddled = {}

\* Time passes for the table and for the times in OnlineList.
Older(n) == IF n \in Nat /\ n <= Limit THEN n + 1 ELSE n

Tick ==
  /\ age' = [u \in User |-> Older(age[u])]
  /\ list' = [u \in User |-> Older(list[u])]
  /\ UNCHANGED <<online, last, callback, pass, who, special, history>>

-----------------------------------------------------------------------------
(* mOn_Message.                                                            *)

\* A heartbeat; CheckDev finds the user of the device.
Heartbeat(u) ==
  /\ at = "idle"
  /\ at' = "read" /\ user' = u
  /\ muddled' = IF who = u THEN muddled \cup {u} ELSE muddled
  /\ UNCHANGED <<table, thread, special, late, garbled>>

ReadOnline ==
  /\ at = "read"
  /\ at' = IF online[user] = 0 THEN "log" ELSE "update"
  /\ UNCHANGED <<table, user, thread, special, history>>

\* The SELECT fails: the local online stays 0.
ReadFails ==
  /\ at = "read"
  /\ at' = "log"
  /\ muddled' = muddled \cup {user}
  /\ UNCHANGED <<table, user, thread, special, late, garbled>>

LogLogin ==
  /\ at = "log"
  /\ last' = [last EXCEPT ![user] = "XT-Login"]
  /\ at' = "update"
  /\ UNCHANGED <<online, age, user, thread, special, history>>

LogLoginFails ==
  /\ at = "log"
  /\ at' = "update"
  /\ muddled' = muddled \cup {user}
  /\ UNCHANGED <<table, user, thread, special, late, garbled>>

\* UPDATE ... SET online = 1, onlineTime = now.
SetOnline ==
  /\ at = "update"
  /\ online' = [online EXCEPT ![user] = 1]
  /\ age' = [age EXCEPT ![user] = 0]
  /\ late' = late \cup ({user} \cap Listed)
  /\ garbled' = garbled \ {user}
  /\ muddled' = IF last[user] # "DropLine" /\ who # user
                THEN muddled \ {user} ELSE muddled
  /\ at' = "idle" /\ user' = None
  /\ UNCHANGED <<last, thread, special>>

\* A handler writes a number into itoaa's buffer while the time is read from
\* it: onlineTime is long past or yet to come, and where a 0 byte is copied
\* the statement ends before its WHERE, and everybody is online.
SetOnlineGarbled ==
  /\ at = "update"
  /\ \E S \in {{user}, User}, n \in {Limit + 1, Never} :
       /\ online' = [u \in User |-> IF u \in S THEN 1 ELSE online[u]]
       /\ age' = [u \in User |-> IF u \in S THEN n ELSE age[u]]
       /\ late' = late \cup (S \cap Listed)
       /\ garbled' = garbled \cup S
       /\ muddled' = muddled \cup (S \ {user})
  /\ at' = "idle" /\ user' = None
  /\ UNCHANGED <<last, thread, special>>

SetOnlineFails ==
  /\ at = "update"
  /\ at' = "idle" /\ user' = None
  /\ muddled' = muddled \cup {user}
  /\ UNCHANGED <<table, thread, special, late, garbled>>

-----------------------------------------------------------------------------
(* OnlineThread.                                                           *)

\* (Wrong: the time that is kept is that of the SELECT.)
SelectNow ==
  /\ pass = "select"
  /\ list' = [u \in User |-> IF online[u] = 1 THEN 0 ELSE None]
  /\ late' = {}
  /\ pass' = "scan"
  /\ UNCHANGED <<table, callback, who, special, garbled, muddled>>

\* The users online and their onlineTime are appended to OnlineList.
Select ==
  /\ pass = "select"
  /\ list' = [u \in User |-> IF list[u] = None /\ online[u] = 1 THEN age[u]
                             ELSE list[u]]
  /\ late' = {}
  /\ pass' = "scan"
  /\ UNCHANGED <<table, callback, who, special, garbled, muddled>>

SelectFails ==
  /\ pass = "select"
  /\ pass' = "scan"
  /\ UNCHANGED <<table, callback, list, who, special, history>>

\* time(0) - iter->time > 120, of the time that was read.
Due(u) == list[u] \in Nat /\ list[u] > Limit

\* The thread comes to u in OnlineList, and does not look at him again.
Comes(u) ==
  /\ pass = "scan" /\ list[u] # None
  /\ list' = [list EXCEPT ![u] = None]
  /\ late' = late \ {u}

PassOver(u) ==
  /\ Comes(u) /\ ~Due(u)
  /\ UNCHANGED <<table, callback, pass, who, special, garbled, muddled>>

\* (Wrong: the Drop Line is left out.)
SetOfflineQuietly(u) ==
  /\ Comes(u) /\ Due(u)
  /\ online' = [online EXCEPT ![u] = 0]
  /\ muddled' = IF user = u THEN muddled \cup {u} ELSE muddled
  /\ UNCHANGED <<age, last, callback, pass, who, special, garbled>>

\* UPDATE ... SET online = 0: the user is dropped.
SetOffline(u) ==
  /\ Comes(u) /\ Due(u)
  /\ online' = [online EXCEPT ![u] = 0]
  /\ who' = u
  /\ pass' = "log"
  /\ muddled' = IF user = u THEN muddled \cup {u} ELSE muddled
  /\ UNCHANGED <<age, last, callback, special, garbled>>

SetOfflineFails(u) ==
  /\ Comes(u) /\ Due(u)
  /\ who' = u
  /\ pass' = "log"
  /\ muddled' = muddled \cup {u}
  /\ UNCHANGED <<table, callback, special, garbled>>

\* The INSERT comes whether the UPDATE failed or not.
LogDrop ==
  /\ pass = "log"
  /\ last' = [last EXCEPT ![who] = "DropLine"]
  /\ muddled' = IF online[who] = 0 /\ user # who THEN muddled \ {who}
                ELSE muddled
  /\ pass' = "scan" /\ who' = None
  /\ UNCHANGED <<online, age, callback, list, special, late, garbled>>

LogDropFails ==
  /\ pass = "log"
  /\ pass' = "scan" /\ who' = None
  /\ muddled' = muddled \cup {who}
  /\ UNCHANGED <<table, callback, list, special, late, garbled>>

\* (Wrong: the pass ends before it has come to all, and OnlineList keeps the
\* others for the next.)
ScanEndsKeeps ==
  /\ pass = "scan"
  /\ pass' = "select"
  /\ UNCHANGED <<table, callback, list, who, special, history>>

\* It has come to all; OnlineList is cleared, and the thread sleeps 30
\* seconds.
ScanEnds ==
  /\ pass = "scan" /\ list = Empty
  /\ pass' = "select"
  /\ UNCHANGED <<table, callback, list, who, special, history>>

-----------------------------------------------------------------------------

\* SpecialVio is loaded, perhaps after ReviceMessage has subscribed: its
\* xx_rcv_gettype takes everybody offline, and so it may (or may fail to).
SpecialVioLoaded ==
  /\ ~special
  /\ special' = TRUE
  /\ online' = [u \in User |-> 0]
  /\ muddled' = muddled \cup {u \in User : online[u] = 1 \/ user = u}
  /\ UNCHANGED <<age, last, callback, thread, late, garbled>>

\* The process ends and is started again (a heartbeat that comes before
\* OnlineThread has connected is enough): xx_rcv_gettype takes everybody
\* offline, and writes no Drop Line.
Restart ==
  /\ online' = [u \in User |-> 0]
  /\ at' = "idle" /\ user' = None
  /\ pass' = "select" /\ list' = Empty /\ who' = None
  /\ special' = FALSE
  /\ late' = {}
  /\ muddled' = muddled \cup {u \in User : online[u] = 1 \/ u \in {user, who}}
  /\ UNCHANGED <<age, last, garbled>>

RestartFails ==
  /\ at' = "idle" /\ user' = None
  /\ pass' = "select" /\ list' = Empty /\ who' = None
  /\ special' = FALSE
  /\ late' = {}
  /\ muddled' = muddled \cup {u \in User : u \in {user, who}}
  /\ UNCHANGED <<table, garbled>>

\* The plugin of the login, which has its own mutex: a name without the right
\* password, or a failed SELECT, is logged under the plain name.  (One that
\* succeeds, or fails later, has five characters appended to the name.)
LoginFails(u) ==
  /\ last' = [last EXCEPT ![u] = "LoginError"]
  /\ UNCHANGED <<online, age, callback, thread, special, history>>

mOn_Message ==
  \/ \E u \in User : Heartbeat(u)
  \/ ReadOnline \/ ReadFails \/ LogLogin \/ LogLoginFails \/ SetOnline
  \/ SetOnlineGarbled \/ SetOnlineFails

OnlineThread ==
  \/ Select \/ SelectFails
  \/ \E u \in User : PassOver(u) \/ SetOffline(u) \/ SetOfflineFails(u)
  \/ LogDrop \/ LogDropFails \/ ScanEnds

Next ==
  \/ Tick \/ mOn_Message \/ OnlineThread
  \/ (\E u \in User : LoginFails(u))
  \/ SpecialVioLoaded \/ Restart \/ RestartFails

Spec == Init /\ [][Next]_vars

\* Time passes, OnlineThread goes on, and a statement that is tried again
\* and again succeeds in the end.
FairSpec ==
  /\ Spec
  /\ WF_vars(Tick) /\ WF_vars(OnlineThread) /\ SF_vars(Select)
  /\ \A u \in User : SF_vars(SetOffline(u))

-----------------------------------------------------------------------------
(* Properties.                                                             *)

\* The columns, the list and the positions keep to their ranges.
TypeOK ==
  /\ online \in [User -> 0..1]
  /\ age \in [User -> 0..(Limit + 1) \cup {Never}]
  /\ last \in [User -> Entry]
  /\ at \in {"idle", "read", "log", "update"}
  /\ user \in User \cup {None} /\ (at # "idle" => user # None)
  /\ pass \in {"select", "scan", "log"}
  /\ list \in [User -> 0..(Limit + 1) \cup {None, Never}]
  /\ who \in User \cup {None} /\ (pass = "log" <=> who # None)
  /\ special \in BOOLEAN
  /\ late \subseteq User /\ garbled \subseteq User /\ muddled \subseteq User

\* What the last entry of a user in the log of connections says is true of
\* the column, once callback and thread are through with him: after XT-Login
\* he is online, after Drop Line or without an entry he is not.  (An entry of
\* a failed login says neither.)  A failed statement, a start of the process,
\* and a heartbeat (or one of another's that set everybody online) just when
\* he is dropped set them apart, until his next Drop Line, or the heartbeat
\* that finds the entry right.
LogTellsOnline ==
  \A u \in User \ muddled :
    user # u /\ who # u =>
      /\ last[u] = "XT-Login" => online[u] = 1
      /\ last[u] = "DropLine" => online[u] = 0

\* OnlineThread takes a user offline only after 120 seconds of silence,
\* unless his heartbeat came between its SELECT and its UPDATE, or itoaa's
\* buffer did not keep the time of his last one.
OfflineMeansSilent ==
  [][\A u \in User :
       SetOffline(u) /\ u \notin late \cup garbled => age[u] > Limit]_vars

\* A user who falls silent goes offline, unless his onlineTime is yet to come.
SilentGoesOffline ==
  \A u \in User :
    (online[u] = 1 /\ age[u] # Never /\ age[u] > Limit)
      ~> (online[u] = 0 \/ age[u] = Never \/ age[u] <= Limit)
=============================================================================
