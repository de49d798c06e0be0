---------------------------- MODULE GpsForwarder ----------------------------
(***************************************************************************)
(* The GPS plugin: phones report their positions, and DataSendThread       *)
(* sends those of the last half hour over TCP to another system, and marks *)
(* them, upflag = 1.  A pass sends rows until one fails, then marks those  *)
(* that were sent.  The text of an id is itoaa's static buffer, which the  *)
(* handlers use at the same time for their answers.                        *)
(*                                                                         *)
(* Points are numbered in the order of their datetime; they may be         *)
(* reported in any other.                                                  *)
(***************************************************************************)
EXTENDS Naturals

CONSTANTS NPoint,  \* how many points there are
          MaxSent  \* bound: how often one is sent

ASSUME PointAssumption == NPoint \in Nat /\ MaxSent \in Nat \ {0}

Point == 1 .. NPoint

VARIABLES stored,     \* the rows of xxdb_data_gpsdata
          upflag,     \* column
          old,        \* points 1 .. old are more than 1800 seconds old
          gpc,        \* where DataSendThread is
          since,      \* its ltime: old when the pass began
          IsConnect,
          link,       \* whether send() may still succeed
          rows,       \* the rows of the SELECT still to be sent
          idList,     \* those sent and not yet marked
          sends,      \* history: how often send() took the point in full
          lapsed      \* history: points whose UPDATE did not happen, and those
                      \* that an UPDATE with another number marked

gpsTable == <<stored, upflag, old>>
thread == <<gpc, since, IsConnect, rows, idList>>
gpsVars == <<gpsTable, thread, link, sends, lapsed>>

GpsInit ==
  /\ stored = {}
  /\ upflag = [p \in Point |-> 0]
  /\ old = 0
  /\ gpc = "window" /\ since = 0 /\ IsConnect = 0
  /\ link = FALSE
  /\ rows = {} /\ idList = {}
  /\ sends = [p \in Point |-> 0]
  /\ lapsed = {}

\* InserGPSData, for one of its items (which may be as old as it likes).
InserGPSData(p) ==
  /\ p \notin stored
  /\ stored' = stored \cup {p}
  /\ UNCHANGED <<upflag, old, thread, link, sends, lapsed>>

\* Time passes.
Age ==
  /\ old < NPoint
  /\ old' = old + 1
  /\ UNCHANGED <<stored, upflag, thread, link, sends, lapsed>>

\* The other system goes, or the connection breaks.
Break ==
  /\ link
  /\ link' = FALSE
  /\ UNCHANGED <<gpsTable, thread, sends, lapsed>>

-----------------------------------------------------------------------------
(* DataSendThread.                                                         *)

\* (Wrong: the thread connects only before it has sent anything.)
WindowOnce ==
  /\ gpc = "window"
  /\ since' = old
  /\ gpc' = IF \A p \in Point : sends[p] = 0 THEN "connect" ELSE "select"
  /\ UNCHANGED <<gpsTable, IsConnect, rows, idList, link, sends, lapsed>>

\* ltime, before the connection, which may take any time.
Window ==
  /\ gpc = "window"
  /\ since' = old
  /\ gpc' = IF IsConnect = 0 THEN "connect" ELSE "select"
  /\ UNCHANGED <<gpsTable, IsConnect, rows, idList, link, sends, lapsed>>

\* ConnectServer tries until connect() succeeds.
ConnectServer ==
  /\ gpc = "connect"
  /\ IsConnect' = 1 /\ link' = TRUE
  /\ gpc' = "select"
  /\ UNCHANGED <<gpsTable, since, rows, idList, sends, lapsed>>

\* (Wrong: the SELECT does not ask for upflag = 0.)
SelectMarked ==
  /\ gpc = "select"
  /\ \E registered \in SUBSET stored :
       rows' = {p \in registered : p > since /\ sends[p] < MaxSent}
  /\ gpc' = "send"
  /\ UNCHANGED <<gpsTable, since, IsConnect, idList, link, sends, lapsed>>

\* The rows with upflag = 0 from ltime on, of devices that are registered
\* (bound: none that was sent MaxSent times).
Select ==
  /\ gpc = "select"
  /\ \E registered \in SUBSET stored :
       rows' = {p \in registered : upflag[p] = 0 /\ p > since
                                   /\ sends[p] < MaxSent}
  /\ gpc' = "send"
  /\ UNCHANGED <<gpsTable, since, IsConnect, idList, link, sends, lapsed>>

\* ORDER BY g.datetime asc.
First(p) == p \in rows /\ \A q \in rows : p <= q

\* (Wrong: the row goes into idList before it is sent.)
SendFailsListed ==
  /\ gpc = "send"
  /\ \E p \in rows : First(p) /\ idList' = idList \cup {p}
  /\ IsConnect' = 0 /\ link' = FALSE
  /\ rows' = {}
  /\ gpc' = "mark"
  /\ UNCHANGED <<gpsTable, since, sends, lapsed>>

\* SendN hands all of the row to TCP.
Send ==
  /\ gpc = "send" /\ link
  /\ \E p \in rows :
       /\ First(p)
       /\ sends' = [sends EXCEPT ![p] = @ + 1]
       /\ idList' = idList \cup {p}
       /\ rows' = rows \ {p}
  /\ UNCHANGED <<gpsTable, gpc, since, IsConnect, link, lapsed>>

\* SendN returns -1, for a connection that broke or for another reason:
\* closesocket, goto end.
SendFails ==
  /\ gpc = "send" /\ rows # {}
  /\ IsConnect' = 0 /\ link' = FALSE
  /\ rows' = {}
  /\ gpc' = "mark"
  /\ UNCHANGED <<gpsTable, since, idList, sends, lapsed>>

AllSent ==
  /\ gpc = "send" /\ rows = {}
  /\ gpc' = "mark"
  /\ UNCHANGED <<gpsTable, since, IsConnect, rows, idList, link, sends,
                 lapsed>>

\* UPDATE ... SET upflag = 1 WHERE id = ...
MarkPoint(p) ==
  /\ gpc = "mark" /\ p \in idList
  /\ upflag' = [upflag EXCEPT ![p] = 1]
  /\ idList' = idList \ {p}
  /\ UNCHANGED <<stored, old, gpc, since, IsConnect, rows, link, sends,
                 lapsed>>

MarkPointFails(p) ==
  /\ gpc = "mark" /\ p \in idList
  /\ idList' = idList \ {p}
  /\ lapsed' = lapsed \cup {p}
  /\ UNCHANGED <<gpsTable, gpc, since, IsConnect, rows, link, sends>>

\* A handler writes a number into itoaa's buffer before the thread reads it:
\* another point is marked (or none, as in MarkPointFails).
MarkAnother(p, q) ==
  /\ gpc = "mark" /\ p \in idList
  /\ q \in stored \ {p}
  /\ upflag' = [upflag EXCEPT ![q] = 1]
  /\ idList' = idList \ {p}
  /\ lapsed' = lapsed \cup {p, q}
  /\ UNCHANGED <<stored, old, gpc, since, IsConnect, rows, link, sends>>

\* idList.clear(), Sleep(10000).
Done ==
  /\ gpc = "mark" /\ idList = {}
  /\ gpc' = "window"
  /\ UNCHANGED <<gpsTable, since, IsConnect, rows, idList, link, sends,
                 lapsed>>

\* The process ends and is started again.
Restart ==
  /\ gpc' = "window" /\ since' = 0 /\ IsConnect' = 0
  /\ link' = FALSE
  /\ rows' = {} /\ idList' = {}
  /\ lapsed' = lapsed \cup idList
  /\ UNCHANGED <<gpsTable, sends>>

DataSendThread ==
  \/ Window \/ ConnectServer \/ Select \/ Send \/ SendFails \/ AllSent \/ Done
  \/ \E p \in Point : \/ MarkPoint(p) \/ MarkPointFails(p)
                     \/ \E q \in Point : MarkAnother(p, q)

GpsNext ==
  \/ \E p \in Point : InserGPSData(p)
  \/ Age \/ Break \/ DataSendThread \/ Restart

GpsSpec == GpsInit /\ [][GpsNext]_gpsVars

-----------------------------------------------------------------------------
(* Properties.                                                             *)

\* The columns, the position and the lists keep to their ranges; the thread
\* that sends believes in its connection.
GpsTypeOK ==
  /\ stored \subseteq Point
  /\ upflag \in [Point -> 0..1]
  /\ old \in 0..NPoint /\ since \in 0..old
  /\ gpc \in {"window", "connect", "select", "send", "mark"}
  /\ IsConnect \in 0..1
  /\ link \in BOOLEAN
  /\ gpc \in {"select", "send"} => IsConnect = 1
  /\ rows \subseteq stored /\ idList \subseteq stored
  /\ sends \in [Point -> 0..MaxSent]
  /\ lapsed \subseteq stored

\* A point is sent once and then marked: upflag counts how often it was sent,
\* through failures in the middle of a pass and new connections; unless its
\* UPDATE did not happen, or marked another point.
UpflagCountsSends ==
  \A p \in Point \ lapsed :
    sends[p] = upflag[p] + (IF p \in idList THEN 1 ELSE 0)

\* DataSendThread and its column are an Outbox, also when an UPDATE meets
\* another row: the points that were sent and not yet marked are on idList.
GpsBox == INSTANCE Outbox
            WITH Row <- Point, deliveries <- sends,
                 state <- [p \in Point |->
                             IF upflag[p] = 1 THEN "marked"
                             ELSE IF p \in idList THEN "sent"
                             ELSE "waiting"]

GpsOutbox == GpsBox!Spec
=============================================================================
