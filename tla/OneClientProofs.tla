-------------------------- MODULE OneClientProofs --------------------------
(***************************************************************************)
(* What holds of the two places that give a resource to one client at a    *)
(* time, the Call plugin's thread and the web search's servers, for every  *)
(* number of clients, servers and devices.                                 *)
(*                                                                         *)
(* OneClientRuns needs the value of clientCount in every position of       *)
(* mainThread and of the thread (Counted).  CommandsInOrder needs to know  *)
(* that a thread starts with a client that has received nothing            *)
(* (Connected) and that what its client received comes before the rest of  *)
(* its walk (Ahead); a thread's client is its own only because there is    *)
(* one thread.                                                             *)
(*                                                                         *)
(* HeldMeansUsed is inductive with the types: of the two fields a thread   *)
(* writes one and then the other, and says with its position which one is  *)
(* behind.  OneServerEach rests on the plugin's mutex, that is, on the one *)
(* variable call: between getFreeServer's search and its first write no    *)
(* other call gives the device a server.  OnlyStaleTaken rests on tlock.   *)
(***************************************************************************)
EXTENDS CallRelay, WebLease, FiniteSetTheorems, SequenceTheorems, TLAPS

-----------------------------------------------------------------------------
(* The call clients.                                                       *)

\* One thread at a time has clientCount, and its value says whether there is
\* one: mainThread's increment is behind while it is at read or write, and the
\* thread's decrement while the thread is.  A thread that decremented before
\* its own increment leaves -1 for good.
Counted ==
  /\ \A c, d \in Running : c = d
  /\ mpc \in {"check", "read", "write"} => sAccept \in Client
  /\ mpc # "quit" /\ Running # {} => sAccept \in Client
  /\ mpc \in {"accept", "check", "quit"} /\ Running # {} => clientCount = 1
  /\ mpc \in {"read", "write"} =>
       clientCount = IF Running = {} THEN -1 ELSE 0
  /\ mpc = "write" => mread \in -1 .. 0 /\ (Running # {} => mread = 0)
  /\ \A c \in Client : proc[c] = "write" =>
       pread[c] = 0 \/ (pread[c] = 1 /\ mpc \notin {"read", "write"})

Increasing(s) == \A m, n \in DOMAIN s : m < n => s[m] < s[n]

\* The commands in the list wait in the order they were pushed, and none is
\* received that was not pushed.
Listed ==
  /\ Len(cmdList) <= pushed
  /\ Increasing(cmdList)
  /\ \A k \in DOMAIN cmdList : cmdList[k] <= pushed
  /\ \A c \in Client : \A m \in DOMAIN got[c] : got[c][m] <= pushed

Accepted(s) == s \in Client => conn[s] # "new"
Sending(c) == proc[c] \in {"select", "walk", "clear"}

\* A client that received a command and is still there is the client of the
\* thread that sends.
Connected ==
  /\ Accepted(sAccept)
  /\ \A c \in Client : Accepted(psock[c])
  /\ \A s \in Client : got[s] # << >> => Accepted(s)
  /\ \A s \in Client : got[s] # << >> /\ ~Dead(s) =>
       \E c \in Client : Sending(c) /\ psock[c] = s

\* What the thread's client received comes before what the thread has still
\* to send: all of cmdList when it waits in select(), what is left of it in
\* the middle of a walk.
Ahead ==
  \A c \in Client : ~Dead(psock[c]) =>
    \A m \in DOMAIN got[psock[c]], k \in DOMAIN cmdList :
      \/ proc[c] = "select"
      \/ proc[c] = "walk" /\ iter[c] <= k
      => got[psock[c]][m] < cmdList[k]

CallIInv ==
  CallTypeOK /\ Counted /\ Listed /\ Connected /\ Ahead /\ CommandsInOrder

LEMMA InitCallIInv == CallInit => CallIInv
  <1> SUFFICES ASSUME CallInit
               PROVE  CallIInv
    OBVIOUS
  <1> USE ClientAssumption, BoundAssumption DEF CallInit
  <1>1. CallTypeOK
    BY DEF CallTypeOK
  <1>2. Running = {}
    BY DEF Running
  <1>3. Counted
    BY <1>2 DEF Counted
  <1>4. Listed /\ Connected /\ Ahead /\ CommandsInOrder
    BY DEF Listed, Increasing, Connected, Accepted, Ahead, CommandsInOrder
  <1>5. QED
    BY <1>1, <1>3, <1>4 DEF CallIInv

\* mainThread writes the globals in their ranges; clientCount because of
\* Counted.
LEMMA MainTypeOK ==
  ASSUME CallTypeOK, Counted,
         Main \/ Quit \/ \E c \in Client : Accept(c)
  PROVE  CallTypeOK'
  <1>1. CASE Create
    BY <1>1 DEF Create, sockets, commands, CallTypeOK, Counted
  <1>2. CASE Refuse
    BY <1>2 DEF Refuse, procs, commands, CallTypeOK, Counted
  <1>3. CASE CountRead
    BY <1>3 DEF CountRead, procs, sockets, commands, CallTypeOK
  <1>4. CASE CountWrite
    BY <1>4 DEF CountWrite, procs, sockets, commands, CallTypeOK, Counted
  <1>5. CASE Quit
    BY <1>5 DEF Quit, procs, sockets, commands, CallTypeOK
  <1>6. CASE \E c \in Client : Accept(c)
    BY <1>6 DEF Accept, procs, commands, CallTypeOK
  <1>7. QED
    BY <1>1, <1>2, <1>3, <1>4, <1>5, <1>6 DEF Main

\* So does SelectProc; its iterator because cmdList holds what was pushed.
LEMMA ThreadTypeOK ==
  ASSUME CallTypeOK, Counted, Listed, Connected, NEW c \in Client, SelectProc(c)
  PROVE  CallTypeOK'
  <1> USE BoundAssumption
  <1>1. CASE Copy(c)
    <2>1. mpc # "quit" => sAccept \in Client
      BY <1>1 DEF Copy, Counted, Running
    <2>2. PICK s \in {sAccept} \cup (IF mpc = "quit" THEN {NoSocket} ELSE {}) :
            psock' = [psock EXCEPT ![c] = s]
      BY <1>1 DEF Copy
    <2>3. \/ s \in Client /\ conn[s] # "new"
          \/ s = NoSocket /\ mpc = "quit"
      BY <2>1, <2>2 DEF Connected, Accepted, CallTypeOK
    <2>4. QED
      BY <1>1, <2>2, <2>3 DEF Copy, main, sockets, commands, CallTypeOK
  <1>2. CASE \/ Ends(c) \/ SendFails(c) \/ WalkEnds(c)
    BY <1>2 DEF Ends, SendFails, WalkEnds, main, sockets, commands, CallTypeOK
  <1>3. CASE Walk(c)
    BY <1>3 DEF Walk, main, sockets, commands, CallTypeOK
  <1>4. CASE SendCommand(c)
    <2>1. psock[c] \in Client /\ iter[c] \in 1 .. Len(cmdList)
      BY <1>4 DEF SendCommand, Dead, Open, CallTypeOK
    <2>2. cmdList[iter[c]] \in 1 .. MaxCmd /\ iter[c] + 1 \in 1 .. MaxCmd + 1
      BY <2>1 DEF CallTypeOK, Listed
    <2>3. Append(got[psock[c]], cmdList[iter[c]]) \in Seq(1 .. MaxCmd)
      BY <2>1, <2>2 DEF CallTypeOK
    <2>4. got' \in [Client -> Seq(1 .. MaxCmd)]
      BY <1>4, <2>1, <2>3 DEF SendCommand, CallTypeOK
    <2>5. iter' \in [Client -> 1 .. MaxCmd + 1]
      BY <1>4, <2>2 DEF SendCommand, CallTypeOK
    <2>6. QED
      BY <1>4, <2>4, <2>5 DEF SendCommand, main, commands, CallTypeOK
  <1>5. CASE ClearCommands(c)
    BY <1>5 DEF ClearCommands, main, sockets, CallTypeOK
  <1>6. CASE Close(c)
    BY <1>6 DEF Close, main, commands, CallTypeOK
  <1>7. CASE UncountRead(c)
    BY <1>7 DEF UncountRead, main, sockets, commands, CallTypeOK
  <1>8. CASE UncountWrite(c)
    BY <1>8 DEF UncountWrite, main, sockets, commands, CallTypeOK, Counted
  <1>9. CASE SendUnheard(c)
    <2>1. iter[c] \in Nat /\ Len(cmdList) \in Nat /\ pushed \in 0 .. MaxCmd
      BY DEF CallTypeOK
    <2>2. iter[c] + 1 \in 1 .. MaxCmd + 1
      BY <1>9, <2>1 DEF SendUnheard, Listed
    <2>3. QED
      BY <1>9, <2>2 DEF SendUnheard, main, sockets, commands, CallTypeOK
  <1>10. QED
    BY <1>1, <1>2, <1>3, <1>4, <1>5, <1>6, <1>7, <1>8, <1>9 DEF SelectProc

LEMMA NextCallTypeOK ==
  ASSUME CallTypeOK, Counted, Listed, Connected, [CallNext]_callVars
  PROVE  CallTypeOK'
  <1> USE BoundAssumption
  <1>1. CASE Push
    <2>1. cmdList' \in Seq(1 .. MaxCmd) /\ pushed' \in 0 .. MaxCmd
      BY <1>1 DEF Push, CallTypeOK
    <2>2. QED
      BY <1>1, <2>1 DEF Push, main, procs, sockets, CallTypeOK
  <1>2. CASE PushMovesList
    BY <1>2 DEF PushMovesList, main, procs, sockets, commands, CallTypeOK
  <1>3. CASE \E c \in Client : HangUp(c)
    BY <1>3 DEF HangUp, main, procs, commands, CallTypeOK
  <1>4. CASE UNCHANGED callVars
    BY <1>4 DEF callVars, CallTypeOK
  <1>5. QED
    BY <1>1, <1>2, <1>3, <1>4, MainTypeOK, ThreadTypeOK DEF CallNext

\* A thread that goes on leaves the set of threads as it is.
LEMMA SameRunning ==
  ASSUME CallTypeOK, NEW c \in Running,
         NEW a \in {"select", "walk", "clear", "close", "read", "write"},
         proc' = [proc EXCEPT ![c] = a]
  PROVE  Running' = Running
  BY DEF Running, CallTypeOK

\* mainThread and the count.
LEMMA MainCounted ==
  ASSUME CallTypeOK, Counted,
         Main \/ Quit \/ \E c \in Client : Accept(c)
  PROVE  Counted'
  <1>1. CASE Create
    <2>1. Running = {} /\ sAccept \in Client
      BY <1>1 DEF Create, Counted
    <2>2. Running' = {sAccept} /\ proc' = [proc EXCEPT ![sAccept] = "start"]
      BY <1>1, <2>1 DEF Create, Running, CallTypeOK
    <2>3. \A c \in Client : proc'[c] # "write"
      BY <2>1, <2>2 DEF Running, CallTypeOK
    <2>4. QED
      BY <1>1, <2>1, <2>2, <2>3 DEF Create, Counted
  <1>2. CASE Refuse \/ Quit \/ \E c \in Client : Accept(c)
    BY <1>2 DEF Refuse, Quit, Accept, procs, Counted, Running
  <1>3. CASE CountRead
    BY <1>3 DEF CountRead, procs, Counted, Running
  <1>4. CASE CountWrite
    BY <1>4 DEF CountWrite, procs, Counted, Running
  <1>5. QED
    BY <1>1, <1>2, <1>3, <1>4 DEF Main

\* SelectProc and the count.
LEMMA ThreadCounted ==
  ASSUME CallTypeOK, Counted, NEW c \in Client, SelectProc(c)
  PROVE  Counted'
  <1>1. c \in Running
    BY DEF SelectProc, Copy, Ends, Walk, SendCommand, SendUnheard, SendFails,
           WalkEnds, ClearCommands, Close, UncountRead, UncountWrite, Running
  <1>2. \A d \in Running : d = c
    BY <1>1 DEF Counted
  <1>3. CASE \/ Copy(c) \/ Ends(c) \/ Walk(c)
             \/ SendCommand(c) \/ SendUnheard(c) \/ SendFails(c)
             \/ WalkEnds(c) \/ ClearCommands(c) \/ Close(c)
    <2>1. /\ UNCHANGED <<main, clientCount, pread>>
          /\ \E a \in {"select", "walk", "clear", "close", "read"} :
               proc' = [proc EXCEPT ![c] = a]
      BY <1>3 DEF Copy, Ends, Walk, SendCommand, SendUnheard, SendFails,
                  WalkEnds, ClearCommands, Close, main, CallTypeOK
    <2>2. Running' = Running
      BY <1>1, <2>1, SameRunning
    <2>3. \A d \in Client : proc'[d] = "write" => proc[d] = "write"
      BY <2>1 DEF CallTypeOK
    <2>4. QED
      BY <2>1, <2>2, <2>3 DEF main, Counted
  <1>4. CASE UncountRead(c)
    <2>1. Running' = Running
      BY <1>1, <1>4, SameRunning DEF UncountRead
    <2>2. \A d \in Client : d # c => proc'[d] # "write"
      BY <1>2, <1>4 DEF UncountRead, Running, CallTypeOK
    <2>3. pread'[c] = clientCount
      BY <1>4 DEF UncountRead, CallTypeOK
    <2>4. clientCount = 0 \/ (clientCount = 1 /\ mpc \notin {"read", "write"})
      BY <1>1 DEF Counted, CallTypeOK
    <2>5. QED
      BY <1>4, <2>1, <2>2, <2>3, <2>4 DEF UncountRead, main, Counted
  <1>5. CASE UncountWrite(c)
    <2>1. Running' = {}
      BY <1>2, <1>5 DEF UncountWrite, Running, CallTypeOK
    <2>2. \A d \in Client : proc'[d] # "write"
      BY <2>1 DEF Running
    <2>3. mpc \in {"read", "write"} => clientCount' = -1
      BY <1>5 DEF UncountWrite, Counted
    <2>4. QED
      BY <1>5, <2>1, <2>2, <2>3 DEF UncountWrite, main, Counted
  <1>6. QED
    BY <1>3, <1>4, <1>5 DEF SelectProc

LEMMA NextCounted ==
  ASSUME CallTypeOK, Counted, [CallNext]_callVars
  PROVE  Counted'
  <1>1. CASE \/ Push \/ PushMovesList \/ (\E c \in Client : HangUp(c))
             \/ UNCHANGED callVars
    BY <1>1 DEF Push, PushMovesList, HangUp, callVars, main, procs, Counted,
                Running
  <1>2. QED
    BY <1>1, MainCounted, ThreadCounted DEF CallNext

\* An element of a list of commands, and a list with one more.
LEMMA Element ==
  ASSUME NEW s \in Seq(1 .. MaxCmd), NEW k \in DOMAIN s
  PROVE  k \in 1 .. Len(s) /\ s[k] \in 1 .. MaxCmd
  BY LenProperties, ElementOfSeq

LEMMA OneMore ==
  ASSUME NEW s \in Seq(1 .. MaxCmd), NEW e \in 1 .. MaxCmd
  PROVE  /\ Len(Append(s, e)) = Len(s) + 1
         /\ DOMAIN Append(s, e) = DOMAIN s \cup {Len(s) + 1}
         /\ \A k \in DOMAIN s : Append(s, e)[k] = s[k]
         /\ Append(s, e)[Len(s) + 1] = e
  <1>1. DOMAIN s = 1 .. Len(s) /\ Len(s) \in Nat
    BY LenProperties
  <1>2. /\ Append(s, e) \in Seq(1 .. MaxCmd)
        /\ Len(Append(s, e)) = Len(s) + 1
        /\ \A k \in 1 .. Len(s) : Append(s, e)[k] = s[k]
        /\ Append(s, e)[Len(s) + 1] = e
    BY AppendProperties
  <1>3. DOMAIN Append(s, e) = 1 .. Len(s) + 1
    BY <1>2, LenProperties
  <1>4. QED
    BY <1>1, <1>2, <1>3

\* The list of commands, as it grows, is walked and is cleared.
LEMMA NextListed ==
  ASSUME CallTypeOK, Listed, [CallNext]_callVars
  PROVE  Listed'
  <1>1. CASE Push
    <2> USE BoundAssumption
    <2>1. /\ Len(cmdList') = Len(cmdList) + 1
          /\ DOMAIN cmdList' = DOMAIN cmdList \cup {Len(cmdList) + 1}
          /\ \A k \in DOMAIN cmdList : cmdList'[k] = cmdList[k]
          /\ cmdList'[Len(cmdList) + 1] = pushed + 1
      BY <1>1, OneMore DEF Push, CallTypeOK
    <2>2. \A k \in DOMAIN cmdList : /\ cmdList[k] \in Nat
                                    /\ k \in 1 .. Len(cmdList)
      BY Element DEF CallTypeOK
    <2>3. \A k \in DOMAIN cmdList' : cmdList'[k] <= pushed'
      BY <1>1, <2>1, <2>2 DEF Push, CallTypeOK, Listed
    <2>4. Increasing(cmdList')
      BY <2>1, <2>2 DEF CallTypeOK, Listed, Increasing
    <2>5. \A c \in Client : \A m \in DOMAIN got'[c] : got'[c][m] <= pushed'
      <3>1. \A c \in Client : \A m \in DOMAIN got[c] : got[c][m] \in Nat
        BY Element DEF CallTypeOK
      <3>2. QED
        BY <1>1, <3>1 DEF Push, sockets, CallTypeOK, Listed
    <2>6. QED
      BY <1>1, <2>1, <2>3, <2>4, <2>5 DEF Push, CallTypeOK, Listed
  <1>2. ASSUME NEW c \in Client, SendCommand(c)
        PROVE  Listed'
    <2>1. psock[c] \in Client /\ iter[c] \in DOMAIN cmdList
      BY <1>2 DEF SendCommand, Dead, Open, CallTypeOK
    <2>2. cmdList[iter[c]] <= pushed /\ cmdList[iter[c]] \in 1 .. MaxCmd
      BY <2>1, Element DEF CallTypeOK, Listed
    <2>3. ASSUME NEW d \in Client, NEW m \in DOMAIN got'[d]
          PROVE  got'[d][m] <= pushed
      <3>1. CASE d = psock[c]
        <4>1. got'[d] = Append(got[d], cmdList[iter[c]])
          BY <1>2, <2>1, <3>1 DEF SendCommand, CallTypeOK
        <4>2. got[d] \in Seq(1 .. MaxCmd)
          BY DEF CallTypeOK
        <4>3. m \in DOMAIN got[d] \/ got'[d][m] = cmdList[iter[c]]
          BY <2>2, <4>1, <4>2
        <4>4. m \in DOMAIN got[d] => got'[d][m] = got[d][m]
          BY <2>2, <4>1, <4>2
        <4>5. QED
          BY <2>2, <4>3, <4>4 DEF Listed
      <3>2. CASE d # psock[c]
        BY <1>2, <2>1, <3>2 DEF SendCommand, CallTypeOK, Listed
      <3>3. QED
        BY <3>1, <3>2
    <2>4. QED
      BY <1>2, <2>3 DEF SendCommand, commands, Listed
  <1>3. CASE \E c \in Client : ClearCommands(c)
    BY <1>3 DEF ClearCommands, sockets, CallTypeOK, Listed, Increasing
  <1>4. CASE UNCHANGED <<got, commands>>
    BY <1>4 DEF commands, Listed
  <1>5. QED
    BY <1>1, <1>2, <1>3, <1>4
       DEF CallNext, Main, SelectProc, Create, Refuse, CountRead, CountWrite,
           Quit, PushMovesList, Accept, HangUp, Copy, Ends, Walk, SendUnheard,
           SendFails, WalkEnds, Close, UncountRead, UncountWrite, sockets, callVars,
           commands

LEMMA NextCommandsInOrder ==
  ASSUME CallTypeOK, Ahead, CommandsInOrder, [CallNext]_callVars
  PROVE  CommandsInOrder'
  <1>1. ASSUME NEW c \in Client, SendCommand(c)
        PROVE  CommandsInOrder'
    <2>1. /\ proc[c] = "walk" /\ ~Dead(psock[c])
          /\ psock[c] \in Client /\ iter[c] \in DOMAIN cmdList
      BY <1>1 DEF SendCommand, Dead, Open, CallTypeOK
    <2>2. \A m \in DOMAIN got[psock[c]] : got[psock[c]][m] < cmdList[iter[c]]
      BY <2>1 DEF Ahead, CallTypeOK
    <2>3. ASSUME NEW d \in Client, NEW m \in DOMAIN got'[d],
                 NEW n \in DOMAIN got'[d], m < n
          PROVE  got'[d][m] < got'[d][n]
      <3>1. CASE d = psock[c]
        <4>1. got'[d] = Append(got[d], cmdList[iter[c]])
          BY <1>1, <2>1, <3>1 DEF SendCommand, CallTypeOK
        <4>2. got[d] \in Seq(1 .. MaxCmd) /\ cmdList[iter[c]] \in 1 .. MaxCmd
          BY <2>1, Element DEF CallTypeOK
        <4>3. m \in DOMAIN got[d] /\ got'[d][m] = got[d][m]
          BY <2>3, <4>1, <4>2
        <4>4. CASE n \in DOMAIN got[d]
          BY <2>3, <4>1, <4>2, <4>3, <4>4 DEF CommandsInOrder
        <4>5. CASE n \notin DOMAIN got[d]
          BY <2>2, <3>1, <4>1, <4>2, <4>3, <4>5
        <4>6. QED
          BY <4>4, <4>5
      <3>2. CASE d # psock[c]
        BY <1>1, <2>1, <2>3, <3>2 DEF SendCommand, CallTypeOK, CommandsInOrder
      <3>3. QED
        BY <3>1, <3>2
    <2>4. QED
      BY <2>3 DEF CommandsInOrder
  <1>2. CASE UNCHANGED got
    BY <1>2 DEF CommandsInOrder
  <1>3. QED
    BY <1>1, <1>2
       DEF CallNext, Main, SelectProc, Create, Refuse, CountRead, CountWrite,
           Quit, Push, PushMovesList, Accept, HangUp, Copy, Ends, Walk,
           SendUnheard, SendFails, WalkEnds, ClearCommands, Close,
           UncountRead, UncountWrite, sockets, callVars

\* What a client has received, while its connection lasts, it received from
\* the thread that still sends to it.
LEMMA NextConnected ==
  ASSUME CallTypeOK, Counted, Connected, [CallNext]_callVars
  PROVE  Connected'
  <1> USE ClientAssumption
  <1>1. CASE \E d \in Client : Accept(d)
    <2>1. PICK d \in Client : Accept(d)
      BY <1>1
    <2>2. got[d] = << >>
      BY <2>1 DEF Accept, Connected, Accepted
    <2>3. \A s \in Client : conn'[s] = IF s = d THEN "open" ELSE conn[s]
      BY <2>1 DEF Accept, CallTypeOK
    <2>4. QED
      BY <2>1, <2>2, <2>3
         DEF Accept, procs, Connected, Accepted, Dead, Open, Sending
  <1>2. CASE Create
    <2>1. \A c \in Client : ~Sending(c)
      BY <1>2 DEF Create, Counted, Running, Sending
    <2>2. QED
      BY <1>2, <2>1 DEF Create, sockets, Connected, Accepted, Dead, Open
  <1>3. CASE Refuse
    BY <1>3 DEF Refuse, procs, Connected, Accepted, Dead, Open, Sending,
                CallTypeOK
  <1>4. CASE \/ Quit \/ CountRead \/ CountWrite \/ Push \/ PushMovesList
             \/ UNCHANGED callVars
    BY <1>4 DEF Quit, CountRead, CountWrite, Push, PushMovesList, procs,
                sockets, main, callVars, Connected, Accepted, Dead, Open,
                Sending
  <1>5. CASE \E c \in Client : HangUp(c)
    BY <1>5 DEF HangUp, main, procs, Connected, Accepted, Dead, Open, Sending
  <1>6. ASSUME NEW c \in Client, Copy(c)
        PROVE  Connected'
    BY <1>6 DEF Copy, main, sockets, Connected, Accepted, Dead, Open, Sending,
                CallTypeOK
  <1>7. ASSUME NEW c \in Client,
               Ends(c) \/ SendUnheard(c) \/ SendFails(c) \/ Walk(c)
                 \/ WalkEnds(c) \/ ClearCommands(c)
        PROVE  Connected'
    <2>1. /\ UNCHANGED <<main, psock, sockets>>
          /\ \A d \in Client : d # c => proc'[d] = proc[d]
          /\ Sending(c)' \/ Dead(psock[c])
      BY <1>7 DEF Ends, SendUnheard, SendFails, Walk, WalkEnds, ClearCommands,
                  Sending, Dead, Open, CallTypeOK
    <2>2. QED
      BY <2>1 DEF main, sockets, Connected, Accepted, Dead, Open, Sending
  <1>8. ASSUME NEW c \in Client, SendCommand(c)
        PROVE  Connected'
    BY <1>8 DEF SendCommand, main, Connected, Accepted, Dead, Open, Sending,
                CallTypeOK
  <1>9. ASSUME NEW c \in Client,
               Close(c) \/ UncountRead(c) \/ UncountWrite(c)
        PROVE  Connected'
    <2>1. /\ UNCHANGED <<main, psock, got, gone>>
          /\ \A d \in Client : Sending(d) => proc'[d] = proc[d]
      BY <1>9 DEF Close, UncountRead, UncountWrite, sockets, Sending,
                  CallTypeOK
    <2>2. \A s \in Client : conn'[s] \in {conn[s], "closed"}
      BY <1>9 DEF Close, UncountRead, UncountWrite, sockets, CallTypeOK
    <2>3. \A s \in Client : /\ Accepted(s) => Accepted(s)'
                            /\ Dead(s) => Dead(s)'
      BY <2>1, <2>2 DEF Accepted, Dead, Open
    <2>4. \A d \in Client : Sending(d) => Sending(d)'
      BY <2>1 DEF Sending
    <2>5. Accepted(sAccept)' /\ \A d \in Client : Accepted(psock[d])'
      BY <2>1, <2>2 DEF main, Connected, Accepted, CallTypeOK
    <2>6. QED
      BY <2>1, <2>3, <2>4, <2>5 DEF Connected
  <1>10. QED
    BY <1>1, <1>2, <1>3, <1>4, <1>5, <1>6, <1>7, <1>8, <1>9
       DEF CallNext, Main, SelectProc

\* A thread begins with a client that has received nothing, and sends what it
\* walks past.
LEMMA NextAhead ==
  ASSUME CallTypeOK, Counted, Listed, Connected, Ahead, [CallNext]_callVars
  PROVE  Ahead'
  <1> USE ClientAssumption
  <1>1. CASE \E d \in Client : Accept(d)
    <2>1. PICK d \in Client : Accept(d)
      BY <1>1
    <2>2. \A c \in Client : psock[c] # d
      BY <2>1 DEF Accept, Connected, Accepted
    <2>3. QED
      BY <2>1, <2>2 DEF Accept, procs, commands, Ahead, Dead, Open, CallTypeOK
  <1>2. CASE Create
    BY <1>2 DEF Create, sockets, commands, Ahead, Dead, Open, CallTypeOK,
                Counted
  <1>3. CASE Refuse
    BY <1>3 DEF Refuse, procs, commands, Ahead, Dead, Open, CallTypeOK
  <1>4. CASE \/ Quit \/ CountRead \/ CountWrite \/ PushMovesList
             \/ UNCHANGED callVars
    BY <1>4 DEF Quit, CountRead, CountWrite, PushMovesList, procs, sockets,
                commands, callVars, Ahead, Dead, Open
  <1>5. CASE \E c \in Client : HangUp(c)
    BY <1>5 DEF HangUp, procs, commands, Ahead, Dead, Open
  <1>6. CASE Push
    <2>1. /\ DOMAIN cmdList' = DOMAIN cmdList \cup {Len(cmdList) + 1}
          /\ \A k \in DOMAIN cmdList : cmdList'[k] = cmdList[k]
          /\ cmdList'[Len(cmdList) + 1] = pushed + 1
      BY <1>6, OneMore, BoundAssumption DEF Push, CallTypeOK
    <2>2. \A s \in Client : \A m \in DOMAIN got[s] : got[s][m] < pushed + 1
      <3>1. \A s \in Client : \A m \in DOMAIN got[s] : got[s][m] \in Nat
        BY Element DEF CallTypeOK
      <3>2. QED
        BY <3>1 DEF Listed, CallTypeOK
    <2>3. QED
      BY <1>6, <2>1, <2>2 DEF Push, procs, sockets, Ahead, Dead, Open,
                              CallTypeOK
  <1>7. ASSUME NEW c \in Client, Copy(c)
        PROVE  Ahead'
    <2>1. \A d \in Client : ~Sending(d)
      BY <1>7 DEF Copy, Counted, Running, Sending
    <2>2. psock'[c] \in Client => Dead(psock'[c]) \/ got[psock'[c]] = << >>
      BY <2>1 DEF Connected
    <2>3. \A d \in Client : d # c => proc'[d] \notin {"select", "walk"}
      BY <1>7, <2>1 DEF Copy, Sending, CallTypeOK
    <2>4. QED
      BY <1>7, <2>2, <2>3 DEF Copy, sockets, commands, Ahead, Dead, Open,
                              CallTypeOK
  <1>8. ASSUME NEW c \in Client, SendCommand(c)
        PROVE  Ahead'
    <2>1. /\ proc[c] = "walk" /\ ~Dead(psock[c])
          /\ psock[c] \in Client /\ iter[c] \in DOMAIN cmdList
      BY <1>8 DEF SendCommand, Dead, Open, CallTypeOK
    <2>2. /\ got[psock[c]] \in Seq(1 .. MaxCmd)
          /\ cmdList[iter[c]] \in 1 .. MaxCmd
      BY <2>1, Element DEF CallTypeOK
    <2>3. got'[psock[c]] = Append(got[psock[c]], cmdList[iter[c]])
      BY <1>8, <2>1 DEF SendCommand, CallTypeOK
    <2>4. \A m \in DOMAIN got'[psock[c]] :
            \/ got'[psock[c]][m] = cmdList[iter[c]]
            \/ /\ m \in DOMAIN got[psock[c]]
               /\ got'[psock[c]][m] = got[psock[c]][m]
      BY <2>2, <2>3, OneMore
    <2>5. iter'[c] = iter[c] + 1
      BY <1>8 DEF SendCommand, CallTypeOK
    <2>6. ASSUME NEW m \in DOMAIN got'[psock[c]], NEW k \in DOMAIN cmdList,
                 iter'[c] <= k
          PROVE  got'[psock[c]][m] < cmdList[k]
      <3>1. k \in Nat /\ iter[c] \in Nat /\ iter[c] < k
        BY <2>5, <2>6, Element DEF CallTypeOK
      <3>2. cmdList[iter[c]] < cmdList[k]
        BY <2>1, <3>1 DEF Listed, Increasing
      <3>3. m \in DOMAIN got[psock[c]] => got[psock[c]][m] < cmdList[k]
        BY <2>1, <3>1 DEF Ahead
      <3>4. QED
        BY <2>4, <3>2, <3>3
    <2>7. \A d \in Client : d # c => proc[d] \notin {"select", "walk"}
      BY <2>1 DEF Counted, Running
    <2>8. QED
      BY <1>8, <2>1, <2>6, <2>7 DEF SendCommand, commands, Ahead
  <1>9. ASSUME NEW c \in Client, ClearCommands(c)
        PROVE  Ahead'
    BY <1>9 DEF ClearCommands, Ahead
  <1>10. ASSUME NEW c \in Client,
                \/ Ends(c) \/ Walk(c) \/ SendFails(c) \/ WalkEnds(c)
                \/ Close(c) \/ UncountRead(c) \/ UncountWrite(c)
         PROVE  Ahead'
    <2>1. \A d \in Client : d # c => proc'[d] = proc[d] /\ iter'[d] = iter[d]
      BY <1>10 DEF Ends, Walk, SendFails, WalkEnds, Close, UncountRead,
                   UncountWrite, CallTypeOK
    <2>2. proc'[c] = "select" \/ proc'[c] = "walk" => proc[c] = "select"
      BY <1>10 DEF Ends, Walk, SendFails, WalkEnds, Close, UncountRead,
                   UncountWrite, CallTypeOK
    <2>3. \A d \in Client : Dead(psock[d]) => Dead(psock[d])'
      BY <1>10 DEF Ends, Walk, SendFails, WalkEnds, Close, UncountRead,
                   UncountWrite, sockets, Dead, Open, CallTypeOK
    <2>4. UNCHANGED <<psock, got, cmdList>>
      BY <1>10 DEF Ends, Walk, SendFails, WalkEnds, Close, UncountRead,
                   UncountWrite, sockets, commands
    <2>5. QED
      BY <2>1, <2>2, <2>3, <2>4 DEF Ahead
  <1>11. ASSUME NEW c \in Client, SendUnheard(c)
         PROVE  Ahead'
    <2>1. Dead(psock[c]) /\ UNCHANGED <<proc, psock, conn, gone, got, cmdList>>
      BY <1>11 DEF SendUnheard, sockets, commands, Dead
    <2>2. \A d \in Client : d # c => iter'[d] = iter[d]
      BY <1>11 DEF SendUnheard, CallTypeOK
    <2>3. QED
      BY <2>1, <2>2 DEF Ahead, Dead, Open
  <1>12. QED
    BY <1>1, <1>2, <1>3, <1>4, <1>5, <1>6, <1>7, <1>8, <1>9, <1>10,
       <1>11
       DEF CallNext, Main, SelectProc

LEMMA NextCallIInv == CallIInv /\ [CallNext]_callVars => CallIInv'
  BY NextCallTypeOK, NextCounted, NextListed, NextConnected, NextAhead,
     NextCommandsInOrder DEF CallIInv

LEMMA CallInvariance == CallSpec => []CallIInv
  BY InitCallIInv, NextCallIInv, PTL DEF CallSpec

\* The globals, the sockets and the lists of the Call plugin keep to their
\* ranges whatever the order of the unlocked reads and writes: clientCount
\* never leaves -1 .. 1, and SelectProc's iterator never runs past end().
THEOREM CallTypeCorrect == CallSpec => []CallTypeOK
  <1>1. CallIInv => CallTypeOK
    BY DEF CallIInv
  <1>2. QED
    BY <1>1, CallInvariance, PTL

\* However mainThread's increment and the threads' decrements of clientCount
\* interleave, there is at most one SelectProc, for every number of clients.
THEOREM OneThread == CallSpec => []OneClientRuns
  <1>1. ASSUME CallIInv
        PROVE  OneClientRuns
    <2>1. CASE Running = {}
      BY <2>1, FS_EmptySet DEF OneClientRuns
    <2>2. CASE Running # {}
      <3>1. PICK c \in Running : Running = {c}
        BY <1>1, <2>2 DEF CallIInv, Counted
      <3>2. Cardinality(Running) = 1
        BY <3>1, FS_Singleton
      <3>3. QED
        BY <3>2 DEF OneClientRuns
    <2>3. QED
      BY <2>1, <2>2
  <1>2. QED
    BY <1>1, CallInvariance, PTL

\* No client receives a command twice or after a later one, though a command
\* a client received may stay in cmdList for the next client.
THEOREM EachCommandOnce == CallSpec => []CommandsInOrder
  <1>1. CallIInv => CommandsInOrder
    BY DEF CallIInv
  <1>2. QED
    BY <1>1, CallInvariance, PTL

-----------------------------------------------------------------------------
(* The leases.                                                             *)

\* A call that is about to name a device has found no server of its own.
NoneYet == call.at = "name" => \A r \in Server : devid[r] # call.dev

\* While netThread holds tlock behind its test, the time stays old.
TakesStale == net.at = "take" => stale[net.on]

IInv == TypeOK /\ HeldMeansUsed /\ NoneYet /\ OneServerEach /\ TakesStale

USE NoneAssumption

LEMMA InitIInv == Init => IInv
  BY DEF Init, IInv, TypeOK, NoCall, HeldMeansUsed, Between, NoneYet,
         OneServerEach, TakesStale

\* Time passes, or netThread begins a round.
LEMMA QuietKeep ==
  ASSUME IInv, (\E s \in Server : Age(s)) \/ Round \/ UNCHANGED vars
  PROVE  IInv'
  <1>1. CASE \E s \in Server : Age(s)
    BY <1>1 DEF Age, IInv, TypeOK, NoCall, HeldMeansUsed, Between, NoneYet,
         OneServerEach, TakesStale
  <1>2. CASE Round
    BY <1>2 DEF Round, server, IInv, TypeOK, NoCall, HeldMeansUsed, Between,
         NoneYet, OneServerEach, TakesStale
  <1>3. CASE UNCHANGED vars
    BY <1>3 DEF vars, server, IInv, TypeOK, NoCall, HeldMeansUsed, Between,
         NoneYet, OneServerEach, TakesStale
  <1>4. QED
    BY <1>1, <1>2, <1>3

\* A call that finds a server.
LEMMA SearchKeep ==
  ASSUME IInv, NEW d \in Device, NEW s \in Server,
         Reuse(d, s) \/ Choose(d, s)
  PROVE  IInv'
  <1>1. CASE Reuse(d, s)
    BY <1>1 DEF Reuse, server, IInv, TypeOK, NoCall, HeldMeansUsed, Between,
         NoneYet, OneServerEach, TakesStale
  <1>2. CASE Choose(d, s)
    BY <1>2 DEF Choose, server, IInv, TypeOK, NoCall, HeldMeansUsed, Between,
         NoneYet, OneServerEach, TakesStale
  <1>3. QED
    BY <1>1, <1>2

\* The three writes of getFreeServer.
LEMMA GiveKeep ==
  ASSUME IInv, Name \/ Use \/ Stamp
  PROVE  IInv'
  <1>1. call \in [at : {"name", "use", "stamp", "picture", "erase"},
                  dev : Device, on : Server]
    BY DEF IInv, TypeOK, Name, Use, Stamp, NoCall
  <1>2. CASE Name
    <2>1. TypeOK'
      BY <1>1, <1>2 DEF IInv, TypeOK, Name, Goto
    <2>2. \A s \in Server : /\ s # call.on => devid'[s] = devid[s]
                            /\ s = call.on => devid'[s] = call.dev
      BY <1>1, <1>2 DEF IInv, TypeOK, Name
    <2>3. HeldMeansUsed'
      BY <1>1, <1>2, <2>2 DEF IInv, Name, Goto, HeldMeansUsed, Between
    <2>4. OneServerEach'
      BY <1>1, <1>2, <2>2 DEF IInv, Name, OneServerEach, NoneYet
    <2>5. NoneYet' /\ TakesStale'
      BY <1>1, <1>2 DEF IInv, Name, Goto, NoneYet, TakesStale
    <2>6. QED
      BY <2>1, <2>3, <2>4, <2>5 DEF IInv
  <1>3. CASE Use
    BY <1>1, <1>3 DEF Use, Goto, IInv, TypeOK, HeldMeansUsed, Between,
         NoneYet, OneServerEach, TakesStale
  <1>4. CASE Stamp
    <2>1. net.at = "take" => net.on # call.on
      BY <1>4 DEF Stamp, Locked, IInv, TypeOK
    <2>2. QED
      BY <1>1, <1>4, <2>1 DEF Stamp, Goto, IInv, TypeOK, HeldMeansUsed,
           Between, NoneYet, OneServerEach, TakesStale
  <1>5. QED
    BY <1>2, <1>3, <1>4

\* getWebVerify, and the end of a lease.
LEMMA EndKeep ==
  ASSUME IInv,
         \/ Picture \/ NoPicture \/ Erase
         \/ \E d \in Device, s \in Server : Release(d, s)
  PROVE  IInv'
  <1>1. CASE Picture
    <2>1. net.at = "take" => net.on # call.on
      BY <1>1 DEF Picture, Locked, IInv, TypeOK
    <2>2. QED
      BY <1>1, <2>1 DEF Picture, NoCall, IInv, TypeOK, HeldMeansUsed,
           Between, NoneYet, OneServerEach, TakesStale
  <1>2. CASE NoPicture
    BY <1>2 DEF NoPicture, NoCall, server, IInv, TypeOK, HeldMeansUsed,
         Between, NoneYet, OneServerEach, TakesStale
  <1>3. CASE Erase
    BY <1>3 DEF Erase, NoCall, IInv, TypeOK, HeldMeansUsed, Between, NoneYet,
         OneServerEach, TakesStale
  <1>4. CASE \E d \in Device, s \in Server : Release(d, s)
    BY <1>4 DEF Release, NoCall, IInv, TypeOK, HeldMeansUsed, Between,
         NoneYet, OneServerEach, TakesStale
  <1>5. QED
    BY <1>1, <1>2, <1>3, <1>4

\* netThread's probe.
LEMMA ProbeKeep ==
  ASSUME IInv, (\E s \in Server : Online(s) \/ Offline(s)) \/ Unuse \/ Clear
  PROVE  IInv'
  <1>1. CASE \E s \in Server : Online(s) \/ Offline(s)
    BY <1>1 DEF Online, Offline, IInv, TypeOK, HeldMeansUsed, Between,
         NoneYet, OneServerEach, TakesStale
  <1>2. CASE Unuse
    BY <1>2 DEF Unuse, IInv, TypeOK, HeldMeansUsed, Between, NoneYet,
         OneServerEach, TakesStale
  <1>3. CASE Clear
    <2>1. /\ TypeOK' /\ net'.at = "check" /\ net'.on = net.on
          /\ \A s \in Server : /\ s # net.on => devid'[s] = devid[s]
                              /\ s = net.on => devid'[s] = None
      BY <1>3 DEF Clear, IInv, TypeOK, NoCall
    <2>2. HeldMeansUsed' /\ OneServerEach'
      BY <1>3, <2>1 DEF Clear, IInv, HeldMeansUsed, Between, OneServerEach
    <2>3. NoneYet' /\ TakesStale'
      BY <1>3, <2>1 DEF Clear, IInv, TypeOK, NoCall, NoneYet, TakesStale
    <2>4. QED
      BY <2>1, <2>2, <2>3 DEF IInv
  <1>4. QED
    BY <1>1, <1>2, <1>3

\* netThread's test of the time.
LEMMA TimeKeep ==
  ASSUME IInv, Check \/ InTime \/ TimedOut \/ Take
  PROVE  IInv'
  <1>1. CASE Check \/ InTime
    BY <1>1 DEF Check, InTime, server, IInv, TypeOK, HeldMeansUsed, Between,
         NoneYet, OneServerEach, TakesStale
  <1>2. CASE TimedOut
    BY <1>2 DEF TimedOut, IInv, TypeOK, HeldMeansUsed, Between, NoneYet,
         OneServerEach, TakesStale
  <1>3. CASE Take
    <2>1. /\ TypeOK' /\ net'.at = "next"
          /\ \A s \in Server : /\ s # net.on => devid'[s] = devid[s]
                              /\ s = net.on => devid'[s] = None
      BY <1>3 DEF Take, IInv, TypeOK, NoCall
    <2>2. HeldMeansUsed' /\ OneServerEach'
      BY <1>3, <2>1 DEF Take, IInv, HeldMeansUsed, Between, OneServerEach
    <2>3. NoneYet' /\ TakesStale'
      BY <1>3, <2>1 DEF Take, IInv, TypeOK, NoCall, NoneYet, TakesStale
    <2>4. QED
      BY <2>1, <2>2, <2>3 DEF IInv
  <1>4. QED
    BY <1>1, <1>2, <1>3

LEMMA NextIInv == IInv /\ [Next]_vars => IInv'
  <1>1. ASSUME IInv, Next
        PROVE  IInv'
    <2>1. CASE Call
      BY <1>1, <2>1, SearchKeep, GiveKeep, EndKeep DEF Call
    <2>2. CASE netThread
      BY <1>1, <2>2, QuietKeep, ProbeKeep, TimeKeep DEF netThread, Own
    <2>3. QED
      BY <1>1, <2>1, <2>2, QuietKeep DEF Next
  <1>2. QED
    BY <1>1, QuietKeep

LEMMA Invariance == Spec => []IInv
  BY InitIInv, NextIInv, PTL DEF Spec

\* The fields of the servers and the positions of the threads keep to their
\* ranges (the struct of WebSearchClient.h), for all servers and devices.
THEOREM TypeCorrect == Spec => []TypeOK
  <1>1. IInv => TypeOK
    BY DEF IInv
  <1>2. QED
    BY <1>1, Invariance, PTL

\* A device's server is in use, so netThread's test of the time will not pass
\* over it, though getFreeServer, cancelSearch and netThread write beused and
\* devid one after the other and without a lock.
THEOREM LeaseIsInUse == Spec => []HeldMeansUsed
  <1>1. IInv => HeldMeansUsed
    BY DEF IInv
  <1>2. QED
    BY <1>1, Invariance, PTL

\* getFreeServer never leaves a device with two servers.
THEOREM OneLeaseEach == Spec => []OneServerEach
  <1>1. IInv => OneServerEach
    BY DEF IInv
  <1>2. QED
    BY <1>1, Invariance, PTL

\* netThread takes an online server only after its 60 seconds: what tlock,
\* held over both writes, is for.
THEOREM TakenAfterSilence == Spec => OnlyStaleTaken
  <1>1. IInv /\ [Next]_vars =>
          [\A s \in Server : Take /\ net.on = s => stale[s]]_vars
    BY DEF IInv, TakesStale, Take
  <1>2. QED
    BY <1>1, Invariance, PTL DEF Spec, OnlyStaleTaken
=============================================================================
