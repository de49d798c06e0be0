--------------------------- MODULE PluginDispatch ---------------------------
(***************************************************************************)
(* How a pool thread answers one request: ns2__rcvautoinfo() routes it by  *)
(* its type to a plugin DLL (plug_ctrl/c_plug_ctrl.cpp), whose             *)
(* xx_rcv_procinfo() runs under the plugin's own mutex; gSOAP serializes   *)
(* *res after the mutex is released.  A plugin has one MySQL connection    *)
(* and keeps the requesting user and the response in globals (username,    *)
(* gresXML).                                                               *)
(*                                                                         *)
(* xx_sql_query() repeats a query for as long as "MySQL server has gone    *)
(* away", so a handler holds its plugin's mutex through an outage.         *)
(***************************************************************************)
EXTENDS Naturals, Sequences

CONSTANTS Thread,     \* the pool threads
          Plugin,     \* the loaded plugins, by type
          User,       \* the users that are logged in
          Request,    \* the requests clients send
          PluginOf,   \* the plugin a request names, or one not loaded
          UserOf,     \* the user of a request's login tag, or NoUser
          NoUser,     \* no row of xxdb_info_deviceuser has the tag
          None        \* no request, no thread, no reply yet

ASSUME UserAssumption ==
  /\ NoUser \notin User
  /\ UserOf \in [Request -> User \cup {NoUser}]
ASSUME PluginAssumption == DOMAIN PluginOf = Request
ASSUME TextAssumption == Request \cap {"failed", "null", "garbage"} = {}
ASSUME NoneAssumption ==
  None \notin Request \cup Thread \cup User
               \cup {NoUser, "failed", "null", "garbage"}

VARIABLES pc,        \* where each thread is
          req,       \* the request each thread serves
          res,       \* *res: "null", "failed" or "gresXML", per thread
          mtx,       \* which thread holds each plugin's mutex
          username,  \* each plugin's global username
          gresXML,   \* whose response each plugin's global gresXML is
          linked,    \* whether each plugin's MySQL connection is alive
          up,        \* whether the MySQL server answers
          reply,     \* what was sent for each request
          wrote,     \* under which user each request changed the database
          responded  \* the requests each plugin responded to, in order

thread == <<pc, req, res>>
globals == <<username, gresXML, responded>>
sql == <<linked, up>>
vars == <<pc, req, res, mtx, username, gresXML, linked, up, reply, wrote,
          responded>>

Loaded(r) == PluginOf[r] \in Plugin
Taken == {req[t] : t \in Thread}

Init ==
  /\ pc = [t \in Thread |-> "idle"]
  /\ req = [t \in Thread |-> None]
  /\ res = [t \in Thread |-> "null"]
  /\ mtx = [p \in Plugin |-> None]
  /\ username = [p \in Plugin |-> None]
  /\ gresXML = [p \in Plugin |-> None]
  /\ linked = [p \in Plugin |-> TRUE]
  /\ up = TRUE
  /\ reply = [r \in Request |-> None]
  /\ wrote = [r \in Request |-> None]
  /\ responded = [p \in Plugin |-> << >>]

-----------------------------------------------------------------------------
(* The thread, outside the plugin.                                         *)

\* soap_serve() reads a request and calls ns2__rcvautoinfo(); get_device_mode
\* finds its plugin, or proc_info() returns -1 and the answer is "failed".
Receive(t, r) ==
  /\ pc[t] = "idle"
  /\ reply[r] = None /\ r \notin Taken
  /\ req' = [req EXCEPT ![t] = r]
  /\ res' = [res EXCEPT ![t] = IF Loaded(r) THEN "null" ELSE "failed"]
  /\ pc' = [pc EXCEPT ![t] = IF Loaded(r) THEN "lock" ELSE "send"]
  /\ UNCHANGED <<mtx, globals, sql, reply, wrote>>

\* (Wrong: the plugin is entered without its mutex.)
LockNothing(t) ==
  /\ pc[t] = "lock"
  /\ mtx' = [mtx EXCEPT ![PluginOf[req[t]]] = t]
  /\ pc' = [pc EXCEPT ![t] = "check"]
  /\ UNCHANGED <<req, res, globals, sql, reply, wrote>>

\* rcv_prc_info(): pthread_mutex_lock(&mtx).
Lock(t) ==
  /\ pc[t] = "lock"
  /\ mtx[PluginOf[req[t]]] = None
  /\ mtx' = [mtx EXCEPT ![PluginOf[req[t]]] = t]
  /\ pc' = [pc EXCEPT ![t] = "check"]
  /\ UNCHANGED <<req, res, globals, sql, reply, wrote>>

\* pthread_mutex_unlock(&mtx).
Unlock(t) ==
  /\ pc[t] = "unlock"
  /\ mtx' = [mtx EXCEPT ![PluginOf[req[t]]] = None]
  /\ pc' = [pc EXCEPT ![t] = "send"]
  /\ UNCHANGED <<req, res, globals, sql, reply, wrote>>

\* What gSOAP may find where *res points.  gresXML may have been assigned
\* again since the mutex was released: then the pointer of the earlier
\* c_str() may show the old text, the new one or freed memory.
Seen(t) ==
  LET r == req[t]
      x == gresXML[PluginOf[r]]
  IN  IF res[t] # "gresXML" THEN {res[t]}
      ELSE IF x = r THEN {r} ELSE {r, x, "garbage"}

\* soap_serve_ns2__rcvautoinfo() serializes *res and closes the socket.
Send(t) ==
  /\ pc[t] = "send"
  /\ \E x \in Seen(t) : reply' = [reply EXCEPT ![req[t]] = x]
  /\ pc' = [pc EXCEPT ![t] = "idle"]
  /\ req' = [req EXCEPT ![t] = None]
  /\ res' = [res EXCEPT ![t] = "null"]
  /\ UNCHANGED <<mtx, globals, sql, wrote>>

-----------------------------------------------------------------------------
(* The plugin, xx_rcv_procinfo(), under its mutex.                         *)

\* (Wrong: the user is taken over before it is known that there is one.)
CheckUsernameTakesAny(t) ==
  /\ pc[t] = "check"
  /\ linked[PluginOf[req[t]]]
  /\ username' = [username EXCEPT ![PluginOf[req[t]]] = UserOf[req[t]]]
  /\ pc' = [pc EXCEPT ![t] = "handle"]
  /\ UNCHANGED <<req, res, mtx, gresXML, responded, sql, reply, wrote>>

\* CheckUsername() finds the row of the login tag and keeps its username, or
\* finds none, and the plugin returns -1.
CheckUsername(t) ==
  LET p == PluginOf[req[t]]
      u == UserOf[req[t]]
  IN
  /\ pc[t] = "check"
  /\ linked[p]
  /\ IF u = NoUser
     THEN /\ res' = [res EXCEPT ![t] = "failed"]
          /\ pc' = [pc EXCEPT ![t] = "unlock"]
          /\ UNCHANGED username
     ELSE /\ username' = [username EXCEPT ![p] = u]
          /\ pc' = [pc EXCEPT ![t] = "handle"]
          /\ UNCHANGED res
  /\ UNCHANGED <<req, mtx, gresXML, responded, sql, reply, wrote>>

\* The query fails with an error other than "gone away": nobody is found.
CheckFails(t) ==
  /\ pc[t] = "check"
  /\ ~linked[PluginOf[req[t]]]
  /\ res' = [res EXCEPT ![t] = "failed"]
  /\ pc' = [pc EXCEPT ![t] = "unlock"]
  /\ UNCHANGED <<req, mtx, globals, sql, reply, wrote>>

\* xx_sql_query(): "MySQL server has gone away".  mysql_ping() reconnects if
\* the server is back; either way it sleeps and repeats the query.
Retry(t) ==
  /\ pc[t] \in {"check", "handle"}
  /\ ~linked[PluginOf[req[t]]]
  /\ linked' = [linked EXCEPT ![PluginOf[req[t]]] = up]
  /\ UNCHANGED <<thread, mtx, globals, up, reply, wrote>>

\* The handler's statement changes the database, on behalf of username.
Handle(t) ==
  LET p == PluginOf[req[t]] IN
  /\ pc[t] = "handle"
  /\ linked[p]
  /\ wrote' = [wrote EXCEPT ![req[t]] = username[p]]
  /\ pc' = [pc EXCEPT ![t] = "respond"]
  /\ UNCHANGED <<req, res, mtx, globals, sql, reply>>

\* The statement fails with another error: the handler responds all the same.
HandleFails(t) ==
  /\ pc[t] = "handle"
  /\ ~linked[PluginOf[req[t]]]
  /\ pc' = [pc EXCEPT ![t] = "respond"]
  /\ UNCHANGED <<req, res, mtx, globals, sql, reply, wrote>>

\* (Wrong: the handler returns -1 after its statement.)
RespondFailed(t) ==
  /\ pc[t] = "respond"
  /\ res' = [res EXCEPT ![t] = "failed"]
  /\ pc' = [pc EXCEPT ![t] = "unlock"]
  /\ UNCHANGED <<req, mtx, globals, sql, reply, wrote>>

\* setResXML(..., gresXML); *outxmldata = gresXML.c_str(); return.
Respond(t) ==
  LET p == PluginOf[req[t]] IN
  /\ pc[t] = "respond"
  /\ gresXML' = [gresXML EXCEPT ![p] = req[t]]
  /\ responded' = [responded EXCEPT ![p] = Append(@, req[t])]
  /\ res' = [res EXCEPT ![t] = "gresXML"]
  /\ pc' = [pc EXCEPT ![t] = "unlock"]
  /\ UNCHANGED <<req, mtx, username, sql, reply, wrote>>

\* (Wrong: the exception leaves rcv_prc_info with the mutex held.)
ThrowWithMutex(t) ==
  /\ pc[t] \in {"check", "handle", "respond"}
  /\ pc' = [pc EXCEPT ![t] = "send"]
  /\ UNCHANGED <<req, res, mtx, globals, sql, reply, wrote>>

\* (Wrong: *outxmldata is set before the handler runs.)
ThrowWithResponse(t) ==
  /\ pc[t] \in {"check", "handle", "respond"}
  /\ res' = [res EXCEPT ![t] = "gresXML"]
  /\ pc' = [pc EXCEPT ![t] = "unlock"]
  /\ UNCHANGED <<req, mtx, globals, sql, reply, wrote>>

\* The plugin throws (string = NULL, a missing field): catch (...) keeps
\* iresult 0 and *outxmldata NULL.
Throw(t) ==
  /\ pc[t] \in {"check", "handle", "respond"}
  /\ pc' = [pc EXCEPT ![t] = "unlock"]
  /\ UNCHANGED <<req, res, mtx, globals, sql, reply, wrote>>

-----------------------------------------------------------------------------
(* The database server.                                                    *)

\* The server stops and every connection is lost.
Outage ==
  /\ up
  /\ up' = FALSE
  /\ linked' = [p \in Plugin |-> FALSE]
  /\ UNCHANGED <<thread, mtx, globals, reply, wrote>>

Recovery ==
  /\ ~up
  /\ up' = TRUE
  /\ UNCHANGED <<thread, mtx, globals, linked, reply, wrote>>

\* The server drops a connection that was idle too long.
IdleTimeout(p) ==
  /\ mtx[p] = None
  /\ linked[p]
  /\ linked' = [linked EXCEPT ![p] = FALSE]
  /\ UNCHANGED <<thread, mtx, globals, up, reply, wrote>>

Advance(t) ==
  Lock(t) \/ CheckUsername(t) \/ Handle(t) \/ Respond(t) \/ Unlock(t) \/ Send(t)

Mishap(t) == CheckFails(t) \/ HandleFails(t) \/ Throw(t)

Next ==
  \/ \E t \in Thread : Advance(t) \/ Retry(t) \/ Mishap(t)
  \/ \E t \in Thread, r \in Request : Receive(t, r)
  \/ Outage
  \/ Recovery
  \/ \E p \in Plugin : IdleTimeout(p)

Spec == Init /\ [][Next]_vars

\* The threads are scheduled, and a query is repeated until it is answered.
\* Nothing forces a query to fail, a plugin to throw, or the server back; a
\* client may never send its request or read its answer (there are no soap
\* timeouts), and a handler may wait for a server of its own under the mutex
\* (SearchInfo): Receive, Send and Handle need not happen.
Fairness ==
  \A t \in Thread :
    /\ WF_vars(Lock(t) \/ CheckUsername(t) \/ Respond(t) \/ Unlock(t))
    /\ WF_vars(Retry(t))

FairSpec == Spec /\ Fairness

-----------------------------------------------------------------------------
(* Properties.                                                             *)

\* The plugins' globals hold what the handlers put there, and *res points to
\* one of the three texts a reply can come from.
TypeOK ==
  /\ pc \in [Thread -> {"idle", "lock", "check", "handle", "respond",
                        "unlock", "send"}]
  /\ req \in [Thread -> Request \cup {None}]
  /\ res \in [Thread -> {"null", "failed", "gresXML"}]
  /\ mtx \in [Plugin -> Thread \cup {None}]
  /\ username \in [Plugin -> User \cup {None}]
  /\ gresXML \in [Plugin -> Request \cup {None}]
  /\ linked \in [Plugin -> BOOLEAN]
  /\ up \in BOOLEAN
  /\ reply \in [Request -> Request \cup {None, "null", "failed", "garbage"}]
  /\ wrote \in [Request -> User \cup {None}]
  /\ responded \in [Plugin -> Seq(Request)]

Inside == {"check", "handle", "respond", "unlock"}

\* What holds of a thread's request at each stage.
Stage(t) ==
  /\ req[t] = None <=> pc[t] = "idle"
  /\ pc[t] \in Inside \cup {"lock"} => Loaded(req[t])
  /\ pc[t] \in Inside => mtx[PluginOf[req[t]]] = t
  /\ pc[t] = "handle" =>
       /\ username[PluginOf[req[t]]] = UserOf[req[t]]
       /\ UserOf[req[t]] # NoUser
  /\ pc[t] \notin {"unlock", "send"} => res[t] = "null"
  /\ res[t] = "gresXML" => Loaded(req[t])

\* A thread whose *res points to gresXML has responded.
Responded(t) ==
  res[t] = "gresXML" =>
    \E i \in DOMAIN responded[PluginOf[req[t]]] :
      responded[PluginOf[req[t]]][i] = req[t]

\* gresXML is the last response of its plugin.
LastResponse(p) ==
  gresXML[p] = IF responded[p] = << >> THEN None
               ELSE responded[p][Len(responded[p])]

\* A request is with one thread, until it is answered.
OneThread ==
  \A t, s \in Thread : t # s /\ req[t] # None => req[t] # req[s]
Unanswered == \A t \in Thread : req[t] # None => reply[req[t]] = None

\* A thread inside a plugin is the one that holds its mutex; username is the
\* requester's from the check to the handler's statement, and *res is NULL
\* until the plugin returns.
InPhase ==
  /\ \A t \in Thread : Stage(t) /\ Responded(t)
  /\ \A p \in Plugin : LastResponse(p)
  /\ OneThread /\ Unanswered

\* The database is changed on behalf of the user who sent the request, though
\* the user travels in a global that every request of the plugin assigns.
WritesAsRequester ==
  \A r \in Request : wrote[r] # None => wrote[r] = UserOf[r]

\* A client that reads "failed" may send its request again: it has changed
\* nothing (only a plugin that is not loaded and a failed check return -1).
FailedMeansNoChange ==
  \A r \in Request : reply[r] = "failed" => wrote[r] = None

\* A reply sent out of gresXML after the mutex is released may be that of a
\* request handled later, never that of one handled earlier, or of another
\* plugin's.
ReplyNotOlder ==
  \A r, q \in Request :
    reply[r] = q =>
      \E i, j \in DOMAIN responded[PluginOf[r]] :
        /\ i <= j
        /\ responded[PluginOf[r]][i] = r
        /\ responded[PluginOf[r]][j] = q

\* The handlers of p return, once the database answers them.
HandlersReturn(p) ==
  \A t \in Thread :
    []<>~(pc[t] = "handle" /\ PluginOf[req[t]] = p /\ linked[p])

\* Once the database stays up and as long as the plugin's handlers return,
\* every request that a thread has taken gets its answer: no thread keeps the
\* mutex, after an exception or in a retry, and no client is waited for.
\* (A handler that hangs stops all the requests of its plugin.)
EveryAnswerReady ==
  <>[]up =>
    \A p \in Plugin : HandlersReturn(p) =>
      \A t \in Thread :
        (pc[t] = "lock" /\ PluginOf[req[t]] = p) ~> (pc[t] = "send")
=============================================================================
