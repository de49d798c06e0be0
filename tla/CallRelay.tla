----------------------------- MODULE CallRelay -----------------------------
(***************************************************************************)
(* The Call plugin (xxplug_recive_Call): mainThread accepts clients on     *)
(* port 9561 and gives one of them at a time a thread, SelectProc, that    *)
(* sends it the commands CallStart and CallStop push on cmdList.           *)
(*                                                                         *)
(* Nothing protects the globals: clientCount is read and written by both   *)
(* threads, SelectProc takes the socket out of mainThread's variable       *)
(* sAccept whenever it gets to run, and cmdList grows while SelectProc     *)
(* walks it.  A client is named by its connection, a SelectProc by the     *)
(* client it was created for.                                              *)
(***************************************************************************)
EXTENDS Integers, FiniteSets, Sequences

CONSTANTS Client,    \* the clients; each connects once
          MaxCmd,    \* bound: the commands pushed
          NoSocket   \* INVALID_SOCKET, and a thread that has read no socket

ASSUME ClientAssumption == NoSocket \notin Client
ASSUME BoundAssumption == MaxCmd \in Nat

VARIABLES up,           \* the process has not crashed
          mpc,          \* where mainThread is
          sAccept,      \* the socket accept() returned last
          clientCount,  \* the global
          mread,        \* the value clientCount++ has read
          conn,         \* each client's socket, at the server
          gone,         \* the clients that have hung up
          proc,         \* where each client's SelectProc is
          psock,        \* the socket each SelectProc works on
          pread,        \* the value clientCount-- has read
          cmdList,      \* the pushed commands, numbered from 1
          pushed,       \* how many commands were pushed
          iter,         \* SelectProc's iterator
          got           \* the commands each client received

main == <<mpc, sAccept, mread>>
procs == <<proc, psock, pread, iter>>
sockets == <<conn, gone, got>>
commands == <<cmdList, pushed>>
callVars == <<up, mpc, sAccept, clientCount, mread, conn, gone, proc,
              psock, pread, cmdList, pushed, iter, got>>

CallInit ==
  /\ up = TRUE
  /\ mpc = "accept" /\ sAccept = NoSocket
  /\ clientCount = 0 /\ mread = 0
  /\ conn = [c \in Client |-> "new"] /\ gone = {}
  /\ proc = [c \in Client |-> "none"]
  /\ psock = [c \in Client |-> NoSocket]
  /\ pread = [c \in Client |-> 0]
  /\ cmdList = << >> /\ pushed = 0
  /\ iter = [c \in Client |-> 1]
  /\ got = [c \in Client |-> << >>]

-----------------------------------------------------------------------------
(* mainThread.                                                             *)

Accept(c) ==
  /\ up /\ mpc = "accept" /\ conn[c] = "new"
  /\ conn' = [conn EXCEPT ![c] = "open"]
  /\ sAccept' = c
  /\ mpc' = "check"
  /\ UNCHANGED <<up, mread, clientCount, gone, got, procs, commands>>

\* (Wrong: every client gets a thread.)
CreateAnyway ==
  /\ up /\ mpc = "check"
  /\ proc' = [proc EXCEPT ![sAccept] = "start"]
  /\ mpc' = "read"
  /\ UNCHANGED <<up, sAccept, mread, clientCount, psock, pread, iter, sockets,
                 commands>>

\* clientCount == 0: pthread_create(SelectProc, &sAccept).
Create ==
  /\ up /\ mpc = "check" /\ clientCount = 0
  /\ proc' = [proc EXCEPT ![sAccept] = "start"]
  /\ mpc' = "read"
  /\ UNCHANGED <<up, sAccept, mread, clientCount, psock, pread, iter, sockets,
                 commands>>

\* "Already have a Client!"
Refuse ==
  /\ up /\ mpc = "check" /\ clientCount # 0
  /\ conn' = [conn EXCEPT ![sAccept] = "closed"]
  /\ mpc' = "accept"
  /\ UNCHANGED <<up, sAccept, mread, clientCount, gone, got, procs, commands>>

\* (Wrong: mainThread goes on after a failed accept.)
QuitNever ==
  /\ up /\ mpc \in {"accept", "check"}
  /\ mpc = "check" => clientCount = 0
  /\ sAccept' = IF mpc = "accept" THEN NoSocket ELSE sAccept
  /\ mpc' = IF mpc = "accept" THEN "accept" ELSE "quit"
  /\ UNCHANGED <<up, mread, clientCount, procs, sockets, commands>>

\* accept() or pthread_create() fails: mainThread closes the listener and ends.
\* sAccept holds what accept() returned.
Quit ==
  /\ up /\ mpc \in {"accept", "check"}
  /\ mpc = "check" => clientCount = 0
  /\ sAccept' = IF mpc = "accept" THEN NoSocket ELSE sAccept
  /\ mpc' = "quit"
  /\ UNCHANGED <<up, mread, clientCount, procs, sockets, commands>>

\* clientCount++ after the thread was created: a read and a write.
CountRead ==
  /\ up /\ mpc = "read"
  /\ mread' = clientCount
  /\ mpc' = "write"
  /\ UNCHANGED <<up, sAccept, clientCount, procs, sockets, commands>>

CountWrite ==
  /\ up /\ mpc = "write"
  /\ clientCount' = mread + 1
  /\ mread' = 0
  /\ mpc' = "accept"
  /\ UNCHANGED <<up, sAccept, procs, sockets, commands>>

-----------------------------------------------------------------------------
(* SelectProc, the thread created for client c.                            *)

\* sAccept = *(SOCKET*)lpParameter: what mainThread's variable holds by now,
\* or, when mainThread has returned and its stack is gone, no socket at all.
Copy(c) ==
  /\ up /\ proc[c] = "start"
  /\ \E s \in {sAccept} \cup (IF mpc = "quit" THEN {NoSocket} ELSE {}) :
       psock' = [psock EXCEPT ![c] = s]
  /\ proc' = [proc EXCEPT ![c] = "select"]
  /\ UNCHANGED <<up, main, clientCount, pread, iter, sockets, commands>>

Open(s) == s # NoSocket /\ conn[s] = "open"
Dead(s) == ~Open(s) \/ s \in gone

\* (Wrong: the end of the connection is not noticed by recv.)
EndsUnnoticed(c) ==
  /\ up /\ proc[c] = "select"
  /\ ~Open(psock[c])
  /\ proc' = [proc EXCEPT ![c] = "close"]
  /\ UNCHANGED <<up, main, clientCount, psock, pread, iter, sockets, commands>>

\* select() fails on a closed socket, recv() returns 0 from a client that hung
\* up.
Ends(c) ==
  /\ up /\ proc[c] = "select"
  /\ Dead(psock[c])
  /\ proc' = [proc EXCEPT ![c] = "close"]
  /\ UNCHANGED <<up, main, clientCount, psock, pread, iter, sockets, commands>>

\* select() times out or a heartbeat "XT" is answered: on to the commands.
Walk(c) ==
  /\ up /\ proc[c] = "select"
  /\ Open(psock[c])
  /\ iter' = [iter EXCEPT ![c] = 1]
  /\ proc' = [proc EXCEPT ![c] = "walk"]
  /\ UNCHANGED <<up, main, clientCount, psock, pread, sockets, commands>>

\* One command goes out.
SendCommand(c) ==
  /\ up /\ proc[c] = "walk" /\ iter[c] <= Len(cmdList)
  /\ ~Dead(psock[c])
  /\ got' = [got EXCEPT ![psock[c]] = Append(@, cmdList[iter[c]])]
  /\ iter' = [iter EXCEPT ![c] = @ + 1]
  /\ UNCHANGED <<up, main, clientCount, proc, psock, pread, conn, gone,
                 commands>>

\* TCP takes a command for a client that has hung up; nobody receives it.
SendUnheard(c) ==
  /\ up /\ proc[c] = "walk" /\ iter[c] <= Len(cmdList)
  /\ Open(psock[c]) /\ psock[c] \in gone
  /\ iter' = [iter EXCEPT ![c] = @ + 1]
  /\ UNCHANGED <<up, main, clientCount, proc, psock, pread, sockets, commands>>

\* send() fails; cmdList stays as it is, the commands sent included.
SendFails(c) ==
  /\ up /\ proc[c] = "walk" /\ iter[c] <= Len(cmdList)
  /\ Dead(psock[c])
  /\ proc' = [proc EXCEPT ![c] = "close"]
  /\ UNCHANGED <<up, main, clientCount, psock, pread, iter, sockets, commands>>

\* iter == cmdList.end().
WalkEnds(c) ==
  /\ up /\ proc[c] = "walk" /\ iter[c] > Len(cmdList)
  /\ proc' = [proc EXCEPT ![c] = "clear"]
  /\ UNCHANGED <<up, main, clientCount, psock, pread, iter, sockets, commands>>

\* (Wrong: the commands that were sent stay in the list.)
ClearNothing(c) ==
  /\ up /\ proc[c] = "clear"
  /\ proc' = [proc EXCEPT ![c] = "select"]
  /\ UNCHANGED <<up, main, clientCount, psock, pread, iter, sockets, commands>>

\* cmdList.clear(); Sleep(100).
ClearCommands(c) ==
  /\ up /\ proc[c] = "clear"
  /\ cmdList' = << >>
  /\ proc' = [proc EXCEPT ![c] = "select"]
  /\ UNCHANGED <<up, main, clientCount, psock, pread, iter, sockets, pushed>>

\* _END: closesocket, unless it is INVALID_SOCKET.
Close(c) ==
  /\ up /\ proc[c] = "close"
  /\ conn' = [s \in Client |-> IF s = psock[c] THEN "closed" ELSE conn[s]]
  /\ proc' = [proc EXCEPT ![c] = "read"]
  /\ UNCHANGED <<up, main, clientCount, psock, pread, iter, gone, got,
                 commands>>

\* clientCount--: a read and a write.
UncountRead(c) ==
  /\ up /\ proc[c] = "read"
  /\ pread' = [pread EXCEPT ![c] = clientCount]
  /\ proc' = [proc EXCEPT ![c] = "write"]
  /\ UNCHANGED <<up, main, clientCount, psock, iter, sockets, commands>>

UncountWrite(c) ==
  /\ up /\ proc[c] = "write"
  /\ clientCount' = pread[c] - 1
  /\ pread' = [pread EXCEPT ![c] = 0]
  /\ proc' = [proc EXCEPT ![c] = "done"]
  /\ UNCHANGED <<up, main, psock, iter, sockets, commands>>

-----------------------------------------------------------------------------
(* The web client's requests, and the call clients.                        *)

\* CallStart ("THQQ") or CallStop ("THJS"): cmdList.push_back.
Push ==
  /\ up /\ pushed < MaxCmd
  /\ pushed' = pushed + 1
  /\ cmdList' = Append(cmdList, pushed + 1)
  /\ UNCHANGED <<up, main, clientCount, procs, sockets>>

\* push_back moves the vector while SelectProc walks it: the iterator is left
\* in freed memory and never meets end().
PushMovesList ==
  /\ up /\ pushed < MaxCmd
  /\ \E c \in Client : proc[c] = "walk"
  /\ up' = FALSE
  /\ UNCHANGED <<main, clientCount, procs, sockets, commands>>

HangUp(c) ==
  /\ up /\ conn[c] = "open" /\ c \notin gone
  /\ gone' = gone \cup {c}
  /\ UNCHANGED <<up, main, clientCount, procs, conn, got, commands>>

Main == Create \/ Refuse \/ CountRead \/ CountWrite

SelectProc(c) ==
  \/ Copy(c) \/ Ends(c) \/ Walk(c)
  \/ SendCommand(c) \/ SendUnheard(c) \/ SendFails(c)
  \/ WalkEnds(c) \/ ClearCommands(c) \/ Close(c)
  \/ UncountRead(c) \/ UncountWrite(c)

CallNext ==
  \/ Main \/ Quit \/ Push \/ PushMovesList
  \/ \E c \in Client : Accept(c) \/ HangUp(c) \/ SelectProc(c)

CallSpec == CallInit /\ [][CallNext]_callVars

\* The threads are scheduled; recv() on a dead connection returns as soon as
\* select() has reported it, so a thread does not walk past it for ever.
\* (One SelectProc runs at a time, so what is fair to all is fair to each.)
CallFairness ==
  /\ WF_callVars(Main)
  /\ WF_callVars(\E c \in Client : SelectProc(c))
  /\ SF_callVars(\E c \in Client : Ends(c))

CallFairSpec == CallSpec /\ CallFairness

-----------------------------------------------------------------------------
(* Properties.                                                             *)

\* clientCount stays within one of zero, and a thread that has read its socket
\* read one that was accepted (line 41 reads mainThread's variable), unless
\* mainThread has ended and its variable holds INVALID_SOCKET or is gone.
CallTypeOK ==
  /\ up \in BOOLEAN
  /\ mpc \in {"accept", "check", "read", "write", "quit"}
  /\ sAccept \in Client \cup {NoSocket}
  /\ clientCount \in -1 .. 1 /\ mread \in -1 .. 1
  /\ conn \in [Client -> {"new", "open", "closed"}]
  /\ gone \subseteq Client
  /\ proc \in [Client -> {"none", "start", "select", "walk", "clear", "close",
                          "read", "write", "done"}]
  /\ psock \in [Client -> Client \cup {NoSocket}]
  /\ pread \in [Client -> -1 .. 1]
  /\ cmdList \in Seq(1 .. MaxCmd)
  /\ pushed \in 0 .. MaxCmd
  /\ iter \in [Client -> 1 .. MaxCmd + 1]
  /\ got \in [Client -> Seq(1 .. MaxCmd)]
  /\ \A c \in Client : proc[c] \notin {"none", "start"} =>
       \/ psock[c] \in Client /\ conn[psock[c]] # "new"
       \/ psock[c] = NoSocket /\ mpc = "quit"

Running == {c \in Client : proc[c] \notin {"none", "done"}}

\* "Make sure only one client runs": though the count may be wrong for good,
\* there are never two threads to walk and clear cmdList.
OneClientRuns == Cardinality(Running) <= 1

\* A client receives each command at most once and in the order they were
\* pushed, also those left over by a client before it.
CommandsInOrder ==
  \A c \in Client : \A m, n \in DOMAIN got[c] :
    m < n => got[c][m] < got[c][n]

\* The thread of a client that hung up ends and closes the socket.
HangUpIsNoticed ==
  \A c \in Client : psock[c] \in gone ~> (~up \/ proc[c] = "done")

\* "Decrement the client count on exit": when no thread runs and mainThread
\* waits for a client, the count is zero, so the next client is let in.
CountReturnsToZero ==
  mpc = "accept" /\ Running = {} => clientCount = 0
=============================================================================
