------------------------ MODULE PluginDispatchProofs ------------------------
(***************************************************************************)
(* Proofs about PluginDispatch, for every number of threads, plugins,      *)
(* users and requests.                                                     *)
(*                                                                         *)
(* IInv, the type invariant with what holds of a request at each stage, is *)
(* inductive: the mutex makes a plugin's globals belong to one request at  *)
(* a time.  WritesAsRequester, FailedMeansNoChange and ReplyNotOlder rest  *)
(* on it.                                                                  *)
(***************************************************************************)
EXTENDS PluginDispatch, SequenceTheorems, TLAPS

IInv == TypeOK /\ InPhase

USE UserAssumption, PluginAssumption, TextAssumption, NoneAssumption

\* No request is with a thread and nothing was responded to.
LEMMA InitIInv == Init => IInv
  BY DEF Init, IInv, TypeOK, InPhase, Stage, Responded, LastResponse,
         OneThread, Unanswered, Inside

-----------------------------------------------------------------------------
(* The ranges.                                                             *)

\* What gSOAP sends is the text of a request or one of the fixed texts.
LEMMA SeenType ==
  ASSUME IInv, NEW t \in Thread, pc[t] = "send", NEW x \in Seen(t)
  PROVE  /\ req[t] \in Request
         /\ x \in Request \cup {None, "null", "failed", "garbage"}
  <1>1. req[t] \in Request
    <2>1. req[t] # None
      BY DEF IInv, InPhase, Stage
    <2>2. QED
      BY <2>1 DEF IInv, TypeOK
  <1>2. CASE res[t] # "gresXML"
    <2>1. x = res[t]
      BY <1>2 DEF Seen
    <2>2. res[t] \in {"null", "failed"}
      BY <1>2 DEF IInv, TypeOK
    <2>3. QED
      BY <1>1, <2>1, <2>2
  <1>3. CASE res[t] = "gresXML"
    <2>1. PluginOf[req[t]] \in Plugin
      BY <1>3 DEF IInv, InPhase, Stage, Loaded
    <2>2. gresXML[PluginOf[req[t]]] \in Request \cup {None}
      BY <2>1 DEF IInv, TypeOK
    <2>3. x \in {req[t], gresXML[PluginOf[req[t]]], "garbage"}
      BY <1>3 DEF Seen
    <2>4. QED
      BY <1>1, <2>2, <2>3
  <1>4. QED
    BY <1>2, <1>3

\* Every step of a thread, a plugin or the database keeps the ranges.
LEMMA NextType ==
  ASSUME IInv, [Next]_vars
  PROVE  TypeOK'
  <1>. TypeOK
    BY DEF IInv
  <1>1. ASSUME NEW t \in Thread, NEW r \in Request, Receive(t, r)
        PROVE  TypeOK'
    BY <1>1 DEF TypeOK, Receive, globals, sql
  <1>2. ASSUME NEW t \in Thread, Lock(t)
        PROVE  TypeOK'
    BY <1>2 DEF TypeOK, Lock, globals, sql
  <1>3. ASSUME NEW t \in Thread, Unlock(t)
        PROVE  TypeOK'
    BY <1>3 DEF TypeOK, Unlock, globals, sql
  <1>4. ASSUME NEW t \in Thread, Send(t)
        PROVE  TypeOK'
    BY <1>4, SeenType DEF TypeOK, Send, globals, sql
  <1>5. ASSUME NEW t \in Thread, CheckUsername(t)
        PROVE  TypeOK'
    <2>1. req[t] \in Request
      BY <1>5 DEF IInv, TypeOK, InPhase, Stage, CheckUsername
    <2>2. UserOf[req[t]] = NoUser \/ UserOf[req[t]] \in User
      BY <2>1
    <2>3. username' \in [Plugin -> User \cup {None}]
      BY <1>5, <2>2 DEF TypeOK, CheckUsername
    <2>4. pc' \in [Thread -> {"idle", "lock", "check", "handle", "respond",
                              "unlock", "send"}]
      <3>1. \E l \in {"unlock", "handle"} : pc' = [pc EXCEPT ![t] = l]
        BY <1>5, Zenon DEF CheckUsername
      <3>2. QED
        BY <3>1 DEF TypeOK
    <2>5. res' \in [Thread -> {"null", "failed", "gresXML"}]
      BY <1>5 DEF TypeOK, CheckUsername
    <2>6. UNCHANGED <<req, mtx, gresXML, sql, responded, reply, wrote>>
      BY <1>5 DEF CheckUsername
    <2>7. QED
      BY <2>3, <2>4, <2>5, <2>6 DEF TypeOK, sql
  <1>6. ASSUME NEW t \in Thread, CheckFails(t)
        PROVE  TypeOK'
    BY <1>6 DEF TypeOK, CheckFails, globals, sql
  <1>7. ASSUME NEW t \in Thread, Retry(t)
        PROVE  TypeOK'
    BY <1>7 DEF TypeOK, Retry, globals, thread
  <1>8. ASSUME NEW t \in Thread, Handle(t)
        PROVE  TypeOK'
    <2>1. username[PluginOf[req[t]]] \in User \cup {None}
      BY <1>8 DEF IInv, TypeOK, InPhase, Stage, Handle, Inside, Loaded
    <2>2. QED
      BY <1>8, <2>1 DEF TypeOK, Handle, globals, sql
  <1>9. ASSUME NEW t \in Thread, HandleFails(t)
        PROVE  TypeOK'
    BY <1>9 DEF TypeOK, HandleFails, globals, sql
  <1>10. ASSUME NEW t \in Thread, Respond(t)
         PROVE  TypeOK'
    <2>1. req[t] \in Request /\ PluginOf[req[t]] \in Plugin
      BY <1>10 DEF IInv, TypeOK, InPhase, Stage, Respond, Inside, Loaded
    <2>2. responded' \in [Plugin -> Seq(Request)]
      BY <1>10, <2>1 DEF TypeOK, Respond
    <2>3. QED
      BY <1>10, <2>1, <2>2 DEF TypeOK, Respond, sql
  <1>11. ASSUME NEW t \in Thread, Throw(t)
         PROVE  TypeOK'
    BY <1>11 DEF TypeOK, Throw, globals, sql
  <1>12. CASE Outage
    BY <1>12 DEF TypeOK, Outage, globals, thread
  <1>13. CASE Recovery
    BY <1>13 DEF TypeOK, Recovery, globals, thread
  <1>14. ASSUME NEW p \in Plugin, IdleTimeout(p)
         PROVE  TypeOK'
    BY <1>14 DEF TypeOK, IdleTimeout, globals, thread
  <1>15. CASE UNCHANGED vars
    BY <1>15 DEF TypeOK, vars
  <1>16. QED
    BY <1>1, <1>2, <1>3, <1>4, <1>5, <1>6, <1>7, <1>8, <1>9, <1>10, <1>11,
       <1>12, <1>13, <1>14, <1>15 DEF Next, Advance, Mishap

-----------------------------------------------------------------------------
(* The stages.                                                             *)

\* Only the holder of a plugin's mutex assigns its username or its stage: the
\* others' stages stand.
LEMMA NextStage ==
  ASSUME IInv, [Next]_vars
  PROVE  \A s \in Thread : Stage(s)'
  <1>. USE DEF IInv, TypeOK, InPhase, Stage, Inside, Loaded
  <1>1. ASSUME NEW t \in Thread, NEW r \in Request, Receive(t, r)
        PROVE  \A s \in Thread : Stage(s)'
    BY <1>1 DEF Receive, globals, sql
  <1>2. ASSUME NEW t \in Thread, Lock(t)
        PROVE  \A s \in Thread : Stage(s)'
    BY <1>2 DEF Lock, globals, sql
  <1>3. ASSUME NEW t \in Thread, Unlock(t)
        PROVE  \A s \in Thread : Stage(s)'
    BY <1>3 DEF Unlock, globals, sql
  <1>4. ASSUME NEW t \in Thread, Send(t)
        PROVE  \A s \in Thread : Stage(s)'
    BY <1>4 DEF Send, globals, sql
  <1>5. ASSUME NEW t \in Thread, CheckUsername(t)
        PROVE  \A s \in Thread : Stage(s)'
    BY <1>5 DEF CheckUsername, sql
  <1>6. ASSUME NEW t \in Thread, CheckFails(t)
        PROVE  \A s \in Thread : Stage(s)'
    BY <1>6 DEF CheckFails, globals, sql
  <1>7. ASSUME NEW t \in Thread, Retry(t)
        PROVE  \A s \in Thread : Stage(s)'
    BY <1>7 DEF Retry, globals, thread
  <1>8. ASSUME NEW t \in Thread, Handle(t)
        PROVE  \A s \in Thread : Stage(s)'
    BY <1>8 DEF Handle, globals, sql
  <1>9. ASSUME NEW t \in Thread, HandleFails(t)
        PROVE  \A s \in Thread : Stage(s)'
    BY <1>9 DEF HandleFails, globals, sql
  <1>10. ASSUME NEW t \in Thread, Respond(t)
        PROVE  \A s \in Thread : Stage(s)'
    BY <1>10 DEF Respond, sql
  <1>11. ASSUME NEW t \in Thread, Throw(t)
        PROVE  \A s \in Thread : Stage(s)'
    BY <1>11 DEF Throw, globals, sql
  <1>12. CASE Outage
    BY <1>12 DEF Outage, globals, thread
  <1>13. CASE Recovery
    BY <1>13 DEF Recovery, globals, thread
  <1>14. ASSUME NEW p \in Plugin, IdleTimeout(p)
         PROVE  \A s \in Thread : Stage(s)'
    BY <1>14 DEF IdleTimeout, globals, thread
  <1>15. CASE UNCHANGED vars
    BY <1>15 DEF vars
  <1>16. QED
    BY <1>1, <1>2, <1>3, <1>4, <1>5, <1>6, <1>7, <1>8, <1>9, <1>10, <1>11,
       <1>12, <1>13, <1>14, <1>15 DEF Next, Advance, Mishap

\* Whoever responded stands by it when neither responses nor its part of the
\* request changes.
LEMMA RespondedStands ==
  ASSUME responded' = responded, NEW s \in Thread, Responded(s),
         res'[s] = "gresXML" => res[s] = "gresXML" /\ req'[s] = req[s]
  PROVE  Responded(s)'
  BY DEF Responded

\* Apart from Respond, no step makes a response or points *res to gresXML.
LEMMA RespondedFrame ==
  ASSUME TypeOK, [Next]_vars
  PROVE  \/ /\ responded' = responded
            /\ \A s \in Thread :
                 res'[s] = "gresXML" => res[s] = "gresXML" /\ req'[s] = req[s]
         \/ \E t \in Thread : Respond(t)
  <1>1. ASSUME NEW t \in Thread, NEW r \in Request, Receive(t, r)
        PROVE  /\ responded' = responded
               /\ \A s \in Thread :
                    res'[s] = "gresXML" => res[s] = "gresXML" /\ req'[s] = req[s]
    BY <1>1 DEF TypeOK, Receive, globals
  <1>2. ASSUME NEW t \in Thread,
               \/ Lock(t) \/ Unlock(t) \/ Retry(t) \/ Handle(t)
               \/ HandleFails(t) \/ Throw(t)
        PROVE  UNCHANGED <<responded, res, req>>
    BY <1>2 DEF Lock, Unlock, Retry, Handle, HandleFails, Throw, globals, thread
  <1>3. ASSUME NEW t \in Thread, Send(t)
        PROVE  /\ responded' = responded
               /\ \A s \in Thread :
                    res'[s] = "gresXML" => res[s] = "gresXML" /\ req'[s] = req[s]
    BY <1>3 DEF TypeOK, Send, globals
  <1>4. ASSUME NEW t \in Thread, CheckUsername(t)
        PROVE  /\ responded' = responded
               /\ \A s \in Thread :
                    res'[s] = "gresXML" => res[s] = "gresXML" /\ req'[s] = req[s]
    BY <1>4 DEF TypeOK, CheckUsername
  <1>5. ASSUME NEW t \in Thread, CheckFails(t)
        PROVE  /\ responded' = responded
               /\ \A s \in Thread :
                    res'[s] = "gresXML" => res[s] = "gresXML" /\ req'[s] = req[s]
    BY <1>5 DEF TypeOK, CheckFails, globals
  <1>6. CASE \/ Outage \/ Recovery \/ UNCHANGED vars
             \/ \E p \in Plugin : IdleTimeout(p)
    BY <1>6 DEF Outage, Recovery, IdleTimeout, vars, globals, thread
  <1>7. QED
    BY <1>1, <1>2, <1>3, <1>4, <1>5, <1>6 DEF Next, Advance, Mishap

\* *res points to gresXML only after Respond, and responses are never undone.
LEMMA NextResponded ==
  ASSUME IInv, [Next]_vars
  PROVE  \A s \in Thread : Responded(s)'
  <1>1. ASSUME responded' = responded,
               \A s \in Thread :
                 res'[s] = "gresXML" => res[s] = "gresXML" /\ req'[s] = req[s]
        PROVE  \A s \in Thread : Responded(s)'
    <2>1. \A s \in Thread : Responded(s)
      BY DEF IInv, InPhase
    <2>2. QED
      BY <1>1, <2>1, RespondedStands
  <1>2. ASSUME NEW t \in Thread, Respond(t)
        PROVE  \A s \in Thread : Responded(s)'
    <2>. DEFINE p == PluginOf[req[t]]
    <2>. SUFFICES ASSUME NEW s \in Thread, res'[s] = "gresXML"
                  PROVE  Responded(s)'
      BY DEF Responded
    <2>1. req[t] \in Request /\ p \in Plugin
      BY <1>2 DEF IInv, TypeOK, InPhase, Stage, Respond, Inside, Loaded
    <2>2. /\ responded[p] \in Seq(Request)
          /\ responded' = [responded EXCEPT ![p] = Append(responded[p], req[t])]
          /\ req' = req
      BY <1>2, <2>1 DEF IInv, TypeOK, Respond
    <2>3. responded'[p] = Append(responded[p], req[t])
      BY <2>1, <2>2 DEF IInv, TypeOK
    <2>4. CASE s = t
      <3>1. /\ Len(responded[p]) + 1 \in DOMAIN responded'[p]
            /\ responded'[p][Len(responded[p]) + 1] = req[t]
        BY <2>1, <2>2, <2>3
      <3>2. QED
        BY <2>2, <2>4, <3>1 DEF Responded
    <2>5. CASE s # t
      <3>1. res[s] = "gresXML" /\ Responded(s) /\ PluginOf[req[s]] \in Plugin
        BY <1>2, <2>5 DEF IInv, TypeOK, InPhase, Stage, Loaded, Respond
      <3>2. PICK i \in DOMAIN responded[PluginOf[req[s]]] :
              responded[PluginOf[req[s]]][i] = req[s]
        BY <3>1 DEF Responded
      <3>3. /\ i \in DOMAIN responded'[PluginOf[req[s]]]
            /\ responded'[PluginOf[req[s]]][i] = req[s]
        <4>1. CASE PluginOf[req[s]] = p
          BY <2>1, <2>2, <2>3, <3>2, <4>1
        <4>2. CASE PluginOf[req[s]] # p
          BY <2>2, <3>1, <3>2, <4>2 DEF IInv, TypeOK
        <4>3. QED
          BY <4>1, <4>2
      <3>4. QED
        BY <2>2, <3>3 DEF Responded
    <2>6. QED
      BY <2>4, <2>5
  <1>3. TypeOK
    BY DEF IInv
  <1>4. QED
    BY <1>1, <1>2, <1>3, RespondedFrame

\* Only Respond assigns gresXML.
LEMMA LastFrame ==
  ASSUME [Next]_vars
  PROVE  UNCHANGED <<gresXML, responded>> \/ \E t \in Thread : Respond(t)
  BY DEF Next, Advance, Mishap, Receive, Lock, Unlock, Send, CheckUsername,
         CheckFails, Retry, Handle, HandleFails, Throw, Outage, Recovery,
         IdleTimeout, globals, thread, vars

\* setResXML assigns gresXML whenever a response is made, and only then.
LEMMA NextLast ==
  ASSUME IInv, [Next]_vars
  PROVE  \A q \in Plugin : LastResponse(q)'
  <1>. SUFFICES ASSUME NEW q \in Plugin
                PROVE  LastResponse(q)'
    OBVIOUS
  <1>1. LastResponse(q) /\ responded[q] \in Seq(Request)
    BY DEF IInv, InPhase, TypeOK
  <1>2. CASE UNCHANGED <<gresXML, responded>>
    BY <1>1, <1>2 DEF LastResponse
  <1>3. ASSUME NEW t \in Thread, Respond(t)
        PROVE  LastResponse(q)'
    <2>. DEFINE p == PluginOf[req[t]]
    <2>1. req[t] \in Request /\ p \in Plugin
      BY <1>3 DEF IInv, TypeOK, InPhase, Stage, Respond, Inside, Loaded
    <2>2. CASE q = p
      <3>1. /\ responded'[q] = Append(responded[q], req[t])
            /\ gresXML'[q] = req[t]
        BY <1>3, <2>1, <2>2 DEF Respond, IInv, TypeOK
      <3>2. /\ responded'[q] # << >>
            /\ responded'[q][Len(responded'[q])] = req[t]
        BY <1>1, <2>1, <3>1, AppendProperties
      <3>3. QED
        BY <3>1, <3>2 DEF LastResponse
    <2>3. CASE q # p
      <3>1. responded'[q] = responded[q] /\ gresXML'[q] = gresXML[q]
        BY <1>3, <2>3 DEF Respond, IInv, TypeOK
      <3>2. QED
        BY <1>1, <3>1 DEF LastResponse
    <2>4. QED
      BY <2>2, <2>3
  <1>4. QED
    BY <1>2, <1>3, LastFrame

\* A thread takes a request no other has, and leaves it when it is answered.
LEMMA NextOneThread ==
  ASSUME IInv, [Next]_vars
  PROVE  OneThread' /\ Unanswered'
  <1>. USE DEF IInv, TypeOK, InPhase, Stage, OneThread, Unanswered, Taken
  <1>1. ASSUME NEW t \in Thread, NEW r \in Request, Receive(t, r)
        PROVE  OneThread' /\ Unanswered'
    BY <1>1 DEF Receive, globals, sql
  <1>2. ASSUME NEW t \in Thread, Lock(t)
        PROVE  OneThread' /\ Unanswered'
    BY <1>2 DEF Lock, globals, sql
  <1>3. ASSUME NEW t \in Thread, Unlock(t)
        PROVE  OneThread' /\ Unanswered'
    BY <1>3 DEF Unlock, globals, sql
  <1>4. ASSUME NEW t \in Thread, Send(t)
        PROVE  OneThread' /\ Unanswered'
    BY <1>4 DEF Send, globals, sql
  <1>5. ASSUME NEW t \in Thread, CheckUsername(t)
        PROVE  OneThread' /\ Unanswered'
    BY <1>5 DEF CheckUsername, sql
  <1>6. ASSUME NEW t \in Thread, CheckFails(t)
        PROVE  OneThread' /\ Unanswered'
    BY <1>6 DEF CheckFails, globals, sql
  <1>7. ASSUME NEW t \in Thread, Retry(t)
        PROVE  OneThread' /\ Unanswered'
    BY <1>7 DEF Retry, globals, thread
  <1>8. ASSUME NEW t \in Thread, Handle(t)
        PROVE  OneThread' /\ Unanswered'
    BY <1>8 DEF Handle, globals, sql
  <1>9. ASSUME NEW t \in Thread, HandleFails(t)
        PROVE  OneThread' /\ Unanswered'
    BY <1>9 DEF HandleFails, globals, sql
  <1>10. ASSUME NEW t \in Thread, Respond(t)
        PROVE  OneThread' /\ Unanswered'
    BY <1>10 DEF Respond, sql
  <1>11. ASSUME NEW t \in Thread, Throw(t)
        PROVE  OneThread' /\ Unanswered'
    BY <1>11 DEF Throw, globals, sql
  <1>12. CASE Outage
    BY <1>12 DEF Outage, globals, thread
  <1>13. CASE Recovery
    BY <1>13 DEF Recovery, globals, thread
  <1>14. ASSUME NEW p \in Plugin, IdleTimeout(p)
        PROVE  OneThread' /\ Unanswered'
    BY <1>14 DEF IdleTimeout, globals, thread
  <1>15. CASE UNCHANGED vars
    BY <1>15 DEF vars
  <1>16. QED
    BY <1>1, <1>2, <1>3, <1>4, <1>5, <1>6, <1>7, <1>8, <1>9,
       <1>10, <1>11, <1>12, <1>13, <1>14, <1>15
    DEF Next, Advance, Mishap

\* The invariant is inductive.
LEMMA NextIInv == IInv /\ [Next]_vars => IInv'
  BY NextType, NextStage, NextResponded, NextLast, NextOneThread
     DEF IInv, InPhase

\* The globals hold what the handlers put there, and *res points to one of
\* the texts a reply can come from.
THEOREM TypeCorrect == Spec => []TypeOK
  <1>1. IInv => TypeOK
    BY DEF IInv
  <1>2. QED
    BY InitIInv, NextIInv, <1>1, PTL DEF Spec

\* rcv_prc_info's mutex keeps a plugin to one request: whoever is inside
\* holds it, with its own user in the global username at the statement.
THEOREM PluginToItself == Spec => []InPhase
  <1>1. IInv => InPhase
    BY DEF IInv
  <1>2. QED
    BY InitIInv, NextIInv, <1>1, PTL DEF Spec

-----------------------------------------------------------------------------
(* What the database is changed for.                                       *)

\* Only a handler's statement changes the database.
LEMMA WroteFrame ==
  ASSUME [Next]_vars
  PROVE  UNCHANGED wrote \/ \E t \in Thread : Handle(t)
  BY DEF Next, Advance, Mishap, Receive, Lock, Unlock, Send, CheckUsername,
         CheckFails, Retry, HandleFails, Respond, Throw, Outage, Recovery,
         IdleTimeout, vars

\* The statement takes username while it is the requester's.
LEMMA NextWrites ==
  ASSUME IInv, WritesAsRequester, [Next]_vars
  PROVE  WritesAsRequester'
  <1>1. CASE UNCHANGED wrote
    BY <1>1 DEF WritesAsRequester
  <1>2. ASSUME NEW t \in Thread, Handle(t)
        PROVE  WritesAsRequester'
    <2>1. username[PluginOf[req[t]]] = UserOf[req[t]]
      BY <1>2 DEF Handle, IInv, InPhase, Stage
    <2>2. wrote' = [wrote EXCEPT ![req[t]] = UserOf[req[t]]]
      BY <1>2, <2>1 DEF Handle
    <2>3. QED
      BY <2>2 DEF WritesAsRequester, IInv, TypeOK
  <1>3. QED
    BY WroteFrame, <1>1, <1>2

\* The statement of a request runs under the user who sent it, although every
\* request of the plugin assigns the global username.
THEOREM WritesForTheRequester == Spec => []WritesAsRequester
  <1>1. Init => WritesAsRequester
    BY DEF Init, WritesAsRequester
  <1>2. QED
    BY InitIInv, NextIInv, <1>1, NextWrites, PTL DEF Spec

-----------------------------------------------------------------------------
(* A failed request has changed nothing.                                   *)

\* A request has changed nothing before its statement, nor has one that is
\* going to be answered "failed", nor one that no thread has taken.
Untouched ==
  /\ \A t \in Thread :
       pc[t] \in {"lock", "check", "handle"} \/ res[t] = "failed"
         => wrote[req[t]] = None
  /\ \A r \in Request : reply[r] = None /\ r \notin Taken => wrote[r] = None
  /\ FailedMeansNoChange

\* What is sent is never None: a response was made before *res points to it.
LEMMA SeenSomething ==
  ASSUME IInv, NEW t \in Thread, pc[t] = "send", NEW x \in Seen(t)
  PROVE  x # None
  <1>1. CASE res[t] # "gresXML"
    BY <1>1 DEF Seen, IInv, TypeOK
  <1>2. CASE res[t] = "gresXML"
    <2>. DEFINE p == PluginOf[req[t]]
    <2>1. p \in Plugin /\ Responded(t) /\ LastResponse(p) /\ req[t] \in Request
      BY <1>2, SeenType DEF IInv, InPhase, Stage, Loaded
    <2>2. responded[p] \in Seq(Request) /\ responded[p] # << >>
      BY <1>2, <2>1 DEF Responded, IInv, TypeOK
    <2>3. gresXML[p] \in Request
      BY <2>1, <2>2 DEF LastResponse
    <2>4. QED
      BY <1>2, <2>1, <2>3 DEF Seen
  <1>3. QED
    BY <1>1, <1>2

\* "failed" is not the text of a response.
LEMMA SeenFailed ==
  ASSUME IInv, NEW t \in Thread, pc[t] = "send", "failed" \in Seen(t)
  PROVE  res[t] = "failed"
  <1>1. SUFFICES ASSUME res[t] = "gresXML"
                 PROVE  FALSE
    BY DEF Seen
  <1>2. req[t] \in Request /\ PluginOf[req[t]] \in Plugin
    BY <1>1, SeenType DEF IInv, InPhase, Stage, Loaded
  <1>3. gresXML[PluginOf[req[t]]] # "failed"
    BY <1>2 DEF IInv, TypeOK
  <1>4. QED
    BY <1>1, <1>2, <1>3 DEF Seen

\* A request changes the database only in Handle, which never ends in "failed".
LEMMA NextUntouched ==
  ASSUME IInv, Untouched, [Next]_vars
  PROVE  Untouched'
  <1>. USE DEF IInv, InPhase, TypeOK, Stage, Untouched, FailedMeansNoChange,
               Taken
  <1>1. ASSUME NEW t \in Thread, NEW r \in Request, Receive(t, r)
        PROVE  Untouched'
    BY <1>1 DEF Receive
  <1>2. ASSUME NEW t \in Thread, Lock(t)
        PROVE  Untouched'
    BY <1>2 DEF Lock
  <1>3. ASSUME NEW t \in Thread, Unlock(t)
        PROVE  Untouched'
    BY <1>3 DEF Unlock
  <1>4. ASSUME NEW t \in Thread, Send(t)
        PROVE  Untouched'
    <2>1. PICK x \in Seen(t) : reply' = [reply EXCEPT ![req[t]] = x]
      BY <1>4 DEF Send
    <2>2. /\ req[t] \in Request
          /\ x # None
          /\ x = "failed" => wrote[req[t]] = None
      BY <1>4, SeenType, SeenSomething, SeenFailed DEF Send
    <2>3. QED
      BY <1>4, <2>1, <2>2 DEF Send
  <1>5. ASSUME NEW t \in Thread, CheckUsername(t)
        PROVE  Untouched'
    BY <1>5 DEF CheckUsername
  <1>6. ASSUME NEW t \in Thread, CheckFails(t)
        PROVE  Untouched'
    BY <1>6 DEF CheckFails
  <1>7. ASSUME NEW t \in Thread, Retry(t)
        PROVE  Untouched'
    BY <1>7 DEF Retry, thread
  <1>8. ASSUME NEW t \in Thread, Handle(t)
        PROVE  Untouched'
    <2>1. /\ req[t] \in Request
          /\ reply[req[t]] = None
          /\ res[t] = "null"
      <3>1. req[t] # None /\ res[t] = "null"
        BY <1>8 DEF Handle
      <3>2. QED
        BY <3>1 DEF Unanswered
    <2>2. ASSUME NEW s \in Thread, s # t
          PROVE  req[s] # req[t]
      BY <2>1, <2>2 DEF OneThread
    <2>3. QED
      BY <1>8, <2>1, <2>2 DEF Handle
  <1>9. ASSUME NEW t \in Thread, HandleFails(t)
        PROVE  Untouched'
    BY <1>9 DEF HandleFails
  <1>10. ASSUME NEW t \in Thread, Respond(t)
         PROVE  Untouched'
    BY <1>10 DEF Respond
  <1>11. ASSUME NEW t \in Thread, Throw(t)
         PROVE  Untouched'
    BY <1>11 DEF Throw
  <1>12. CASE Outage
    BY <1>12 DEF Outage, thread
  <1>13. CASE Recovery
    BY <1>13 DEF Recovery, thread
  <1>14. ASSUME NEW p \in Plugin, IdleTimeout(p)
         PROVE  Untouched'
    BY <1>14 DEF IdleTimeout, thread
  <1>15. CASE UNCHANGED vars
    BY <1>15 DEF vars
  <1>16. QED
    BY <1>1, <1>2, <1>3, <1>4, <1>5, <1>6, <1>7, <1>8, <1>9, <1>10, <1>11,
       <1>12, <1>13, <1>14, <1>15 DEF Next, Advance, Mishap

\* "failed" comes from a plugin that is not loaded or from a check that found
\* nobody, never after a statement: the client may send the request again.
THEOREM FailedChangesNothing == Spec => []FailedMeansNoChange
  <1>1. Init => Untouched
    BY DEF Init, Untouched, FailedMeansNoChange
  <1>2. Untouched => FailedMeansNoChange
    BY DEF Untouched
  <1>3. QED
    BY InitIInv, NextIInv, <1>1, NextUntouched, <1>2, PTL DEF Spec

-----------------------------------------------------------------------------
(* The order of replies.                                                   *)

\* Plugin p responded to r, and then, or with it, to q.
Responses(p, r, q) ==
  \E i, j \in DOMAIN responded[p] :
    i <= j /\ responded[p][i] = r /\ responded[p][j] = q

ReplyOrder ==
  \A r, q \in Request :
    reply[r] = q => Loaded(r) /\ Responses(PluginOf[r], r, q)

\* Replies are sent, and responses made, by one action each.
LEMMA ReplyFrame ==
  ASSUME [Next]_vars
  PROVE  \/ UNCHANGED <<reply, responded>>
         \/ \E t \in Thread : Send(t) \/ Respond(t)
  BY DEF Next, Advance, Mishap, Receive, Lock, Unlock, CheckUsername,
         CheckFails, Retry, Handle, HandleFails, Throw, Outage, Recovery,
         IdleTimeout, globals, vars

\* The text of a response that gSOAP finds is the request's or a later one's.
LEMMA SeenOrder ==
  ASSUME IInv, NEW t \in Thread, pc[t] = "send", NEW q \in Request,
         q \in Seen(t)
  PROVE  Loaded(req[t]) /\ Responses(PluginOf[req[t]], req[t], q)
  <1>. DEFINE p == PluginOf[req[t]]
  <1>1. res[t] = "gresXML"
    BY DEF Seen, IInv, TypeOK
  <1>2. req[t] \in Request /\ p \in Plugin /\ Responded(t) /\ LastResponse(p)
    BY <1>1, SeenType DEF IInv, InPhase, Stage, Loaded
  <1>3. responded[p] \in Seq(Request)
    BY <1>2 DEF IInv, TypeOK
  <1>4. PICK i \in DOMAIN responded[p] : responded[p][i] = req[t]
    BY <1>1, <1>2 DEF Responded
  <1>5. CASE q = req[t]
    BY <1>2, <1>3, <1>4, <1>5 DEF Responses, Loaded
  <1>6. CASE q = gresXML[p]
    <2>1. /\ Len(responded[p]) \in DOMAIN responded[p]
          /\ i <= Len(responded[p])
          /\ responded[p] # << >>
      BY <1>3, <1>4
    <2>2. responded[p][Len(responded[p])] = q
      BY <1>2, <1>6, <2>1 DEF LastResponse
    <2>3. QED
      BY <1>2, <1>4, <2>1, <2>2 DEF Responses, Loaded
  <1>7. QED
    BY <1>1, <1>5, <1>6 DEF Seen

\* A reply takes the last response, and responses are only added.
LEMMA NextOrder ==
  ASSUME IInv, ReplyOrder, [Next]_vars
  PROVE  ReplyOrder'
  <1>1. CASE UNCHANGED <<reply, responded>>
    BY <1>1 DEF ReplyOrder, Responses, Loaded
  <1>2. ASSUME NEW t \in Thread, Send(t)
        PROVE  ReplyOrder'
    <2>1. PICK x \in Seen(t) : reply' = [reply EXCEPT ![req[t]] = x]
      BY <1>2 DEF Send
    <2>2. /\ responded' = responded
          /\ req[t] \in Request
          /\ DOMAIN reply = Request
      BY <1>2, SeenType DEF Send, globals, IInv, TypeOK
    <2>3. SUFFICES ASSUME NEW r \in Request, NEW q \in Request, reply'[r] = q
                   PROVE  Loaded(r) /\ Responses(PluginOf[r], r, q)
      BY <2>2 DEF ReplyOrder, Responses, Loaded
    <2>4. CASE r = req[t]
      BY <1>2, <2>1, <2>2, <2>3, <2>4, SeenOrder DEF Send
    <2>5. CASE r # req[t]
      BY <2>1, <2>2, <2>3, <2>5 DEF ReplyOrder
    <2>6. QED
      BY <2>4, <2>5
  <1>3. ASSUME NEW t \in Thread, Respond(t)
        PROVE  ReplyOrder'
    <2>. DEFINE p == PluginOf[req[t]]
    <2>1. req[t] \in Request /\ p \in Plugin
      BY <1>3 DEF IInv, TypeOK, InPhase, Stage, Respond, Inside, Loaded
    <2>2. /\ responded[p] \in Seq(Request)
          /\ responded' = [responded EXCEPT ![p] = Append(responded[p], req[t])]
          /\ reply' = reply
      BY <1>3, <2>1 DEF IInv, TypeOK, Respond
    <2>3. responded'[p] = Append(responded[p], req[t])
      BY <2>1, <2>2 DEF IInv, TypeOK
    <2>4. SUFFICES ASSUME NEW r \in Request, NEW q \in Request, reply[r] = q
                   PROVE  Loaded(r) /\ Responses(PluginOf[r], r, q)'
      BY <2>2 DEF ReplyOrder, Loaded
    <2>5. Loaded(r) /\ Responses(PluginOf[r], r, q)
      BY <2>4 DEF ReplyOrder
    <2>6. CASE PluginOf[r] = p
      <3>1. PICK i \in DOMAIN responded[p], j \in DOMAIN responded[p] :
              i <= j /\ responded[p][i] = r /\ responded[p][j] = q
        BY <2>5, <2>6 DEF Responses
      <3>2. /\ i \in DOMAIN responded'[p] /\ responded'[p][i] = r
            /\ j \in DOMAIN responded'[p] /\ responded'[p][j] = q
        BY <2>1, <2>2, <2>3, <3>1
      <3>3. QED
        BY <2>5, <2>6, <3>1, <3>2 DEF Responses
    <2>7. CASE PluginOf[r] # p
      <3>1. responded'[PluginOf[r]] = responded[PluginOf[r]]
        BY <2>2, <2>5, <2>7 DEF IInv, TypeOK, Loaded
      <3>2. QED
        BY <2>5, <3>1 DEF Responses
    <2>8. QED
      BY <2>6, <2>7
  <1>4. QED
    BY ReplyFrame, <1>1, <1>2, <1>3

\* What a client reads out of gresXML, after the mutex is released, is the
\* response to its own request or to one its plugin handled later.
THEOREM RepliesNotOlder == Spec => []ReplyNotOlder
  <1>1. Init => ReplyOrder
    BY DEF Init, ReplyOrder
  <1>2. ReplyOrder => ReplyNotOlder
    BY DEF ReplyOrder, ReplyNotOlder, Responses
  <1>3. QED
    BY InitIInv, NextIInv, <1>1, NextOrder, <1>2, PTL DEF Spec
=============================================================================
