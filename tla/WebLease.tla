------------------------------ MODULE WebLease ------------------------------
(***************************************************************************)
(* The library WebSearch of the plugin SearchInfo: the servers that search *)
(* a web page for a device are leased.  A device that asks for the page's  *)
(* verification picture is given a free server, which stays its own until  *)
(* it searches, cancels, lets 60 seconds pass, or the server is offline.   *)
(*                                                                         *)
(* Calls of the library come one at a time, under the plugin's mutex;      *)
(* netThread runs beside them and takes only the lock of the timestamp.    *)
(* Both use the server's soap: what a call or a probe gets is left open.   *)
(***************************************************************************)
EXTENDS Naturals

CONSTANTS Server,
          Device,  \* the users: devid is the plugin's username
          None     \* no device, no server

ASSUME NoneAssumption == None \notin Device \cup Server

VARIABLES beused,      \* 1: in use
          netstation,  \* 0: online
          devid,       \* whose the server is
          stale,       \* timestamp is 60 seconds old, or was never set
          call,        \* the call of the library that is running
          net,         \* netThread
          todo         \* the servers it has not been to in this round

server == <<beused, netstation, devid, stale>>
vars == <<server, call, net, todo>>

NoCall == [at |-> "none", dev |-> None, on |-> None]

Init ==
  /\ beused = [s \in Server |-> 0]
  /\ netstation = [s \in Server |-> 0]
  /\ devid = [s \in Server |-> None]
  /\ stale = [s \in Server |-> TRUE]
  /\ call = NoCall
  /\ net = [at |-> "next", on |-> None]
  /\ todo = Server

\* tlock: netThread holds it from the test of the timestamp to memset.
Locked(s) == net = [at |-> "take", on |-> s]

\* 60 seconds pass.
Age(s) ==
  /\ ~stale[s]
  /\ stale' = [stale EXCEPT ![s] = TRUE]
  /\ UNCHANGED <<beused, netstation, devid, call, net, todo>>

-----------------------------------------------------------------------------
(* The calls.                                                              *)

Goto(l) == call' = [call EXCEPT !.at = l]

\* getVerify: the device's own server, asked for a picture.
Reuse(d, s) ==
  /\ call.at = "none"
  /\ devid[s] = d
  /\ call' = [at |-> "picture", dev |-> d, on |-> s]
  /\ UNCHANGED <<server, net, todo>>

\* getFreeServer: none is the device's own, this one is free.
Choose(d, s) ==
  /\ call.at = "none"
  /\ \A r \in Server : devid[r] # d
  /\ beused[s] = 0 /\ netstation[s] = 0
  /\ call' = [at |-> "name", dev |-> d, on |-> s]
  /\ UNCHANGED <<server, net, todo>>

\* (Wrong: the server is never marked in use.)
NameOnly ==
  /\ call.at = "name"
  /\ devid' = [devid EXCEPT ![call.on] = call.dev]
  /\ Goto("stamp")
  /\ UNCHANGED <<beused, netstation, stale, net, todo>>

Name ==
  /\ call.at = "name"
  /\ devid' = [devid EXCEPT ![call.on] = call.dev]
  /\ Goto("use")
  /\ UNCHANGED <<beused, netstation, stale, net, todo>>

Use ==
  /\ call.at = "use"
  /\ beused' = [beused EXCEPT ![call.on] = 1]
  /\ Goto("stamp")
  /\ UNCHANGED <<netstation, devid, stale, net, todo>>

\* (Wrong: the timestamp is written without the lock.)
StampUnlocked ==
  /\ call.at = "stamp"
  /\ stale' = [stale EXCEPT ![call.on] = FALSE]
  /\ Goto("picture")
  /\ UNCHANGED <<beused, netstation, devid, net, todo>>

Stamp ==
  /\ call.at = "stamp"
  /\ ~Locked(call.on)
  /\ stale' = [stale EXCEPT ![call.on] = FALSE]
  /\ Goto("picture")
  /\ UNCHANGED <<beused, netstation, devid, net, todo>>

\* getWebVerify: the server's picture, and the time of it.
Picture ==
  /\ call.at = "picture"
  /\ ~Locked(call.on)
  /\ stale' = [stale EXCEPT ![call.on] = FALSE]
  /\ call' = NoCall
  /\ UNCHANGED <<beused, netstation, devid, net, todo>>

\* The server does not answer or answers an error; the lease stays.
NoPicture ==
  /\ call.at = "picture"
  /\ call' = NoCall
  /\ UNCHANGED <<server, net, todo>>

\* getCarInfo whose search succeeds (one that does not changes nothing), or
\* cancelSearch: the server is free.
Release(d, s) ==
  /\ call.at = "none"
  /\ devid[s] = d
  /\ beused' = [beused EXCEPT ![s] = 0]
  /\ call' = [at |-> "erase", dev |-> d, on |-> s]
  /\ UNCHANGED <<netstation, devid, stale, net, todo>>

Erase ==
  /\ call.at = "erase"
  /\ devid' = [devid EXCEPT ![call.on] = None]
  /\ call' = NoCall
  /\ UNCHANGED <<beused, netstation, stale, net, todo>>

-----------------------------------------------------------------------------
(* netThread.                                                              *)

\* Sleep(30000), and all servers again.
Round ==
  /\ net.at = "next" /\ todo = {}
  /\ todo' = Server
  /\ UNCHANGED <<server, call, net>>

\* testNet.
Online(s) ==
  /\ net.at = "next" /\ s \in todo
  /\ todo' = todo \ {s}
  /\ netstation' = [netstation EXCEPT ![s] = 0]
  /\ net' = [at |-> "check", on |-> s]
  /\ UNCHANGED <<beused, devid, stale, call>>

\* (Wrong: netstation counts the failures.)
OfflineCounts(s) ==
  /\ net.at = "next" /\ s \in todo
  /\ todo' = todo \ {s}
  /\ netstation' = [netstation EXCEPT ![s] = @ + 1]
  /\ net' = [at |-> "unuse", on |-> s]
  /\ UNCHANGED <<beused, devid, stale, call>>

Offline(s) ==
  /\ net.at = "next" /\ s \in todo
  /\ todo' = todo \ {s}
  /\ netstation' = [netstation EXCEPT ![s] = 1]
  /\ net' = [at |-> "unuse", on |-> s]
  /\ UNCHANGED <<beused, devid, stale, call>>

Unuse ==
  /\ net.at = "unuse"
  /\ beused' = [beused EXCEPT ![net.on] = 0]
  /\ net' = [net EXCEPT !.at = "clear"]
  /\ UNCHANGED <<netstation, devid, stale, call, todo>>

Clear ==
  /\ net.at = "clear"
  /\ devid' = [devid EXCEPT ![net.on] = None]
  /\ net' = [net EXCEPT !.at = "check"]
  /\ UNCHANGED <<beused, netstation, stale, call, todo>>

\* (Wrong: only a server that has a device is looked at.)
CheckDevice ==
  /\ net.at = "check"
  /\ net' = [net EXCEPT !.at = IF devid[net.on] # None THEN "test" ELSE "next"]
  /\ UNCHANGED <<server, call, todo>>

\* if(beused == 1), before the lock.
Check ==
  /\ net.at = "check"
  /\ net' = [net EXCEPT !.at = IF beused[net.on] = 1 THEN "test" ELSE "next"]
  /\ UNCHANGED <<server, call, todo>>

InTime ==
  /\ net.at = "test" /\ ~stale[net.on]
  /\ net' = [net EXCEPT !.at = "next"]
  /\ UNCHANGED <<server, call, todo>>

TimedOut ==
  /\ net.at = "test" /\ stale[net.on]
  /\ beused' = [beused EXCEPT ![net.on] = 0]
  /\ net' = [net EXCEPT !.at = "take"]
  /\ UNCHANGED <<netstation, devid, stale, call, todo>>

Take ==
  /\ net.at = "take"
  /\ devid' = [devid EXCEPT ![net.on] = None]
  /\ net' = [net EXCEPT !.at = "next"]
  /\ UNCHANGED <<beused, netstation, stale, call, todo>>

Call ==
  \/ \E d \in Device, s \in Server :
       Reuse(d, s) \/ Choose(d, s) \/ Release(d, s)
  \/ Name \/ Use \/ Stamp \/ Picture \/ NoPicture \/ Erase

\* What netThread does between two probes.
Own == Round \/ Unuse \/ Clear \/ Check \/ InTime \/ TimedOut \/ Take

netThread == Own \/ \E s \in Server : Online(s) \/ Offline(s)

Next == (\E s \in Server : Age(s)) \/ Call \/ netThread

\* netThread goes on between its probes, where it waits for tlock only, which
\* nobody keeps.  A probe itself has no timeout: it may never come back.
Spec == Init /\ [][Next]_vars /\ WF_vars(Own)

-----------------------------------------------------------------------------
(* Properties.                                                             *)

\* The servers' fields keep to their ranges, and the positions of the two
\* threads to the program's.
TypeOK ==
  /\ beused \in [Server -> 0..1]
  /\ netstation \in [Server -> 0..1]
  /\ devid \in [Server -> Device \cup {None}]
  /\ stale \in [Server -> BOOLEAN]
  /\ \/ call = NoCall
     \/ call \in [at : {"name", "use", "stamp", "picture", "erase"},
                  dev : Device, on : Server]
  /\ net \in [at : {"next", "unuse", "clear", "check", "test", "take"},
             on : Server \cup {None}]
  /\ net.at # "next" => net.on \in Server
  /\ todo \subseteq Server

\* Between its two writes of beused and devid a thread leaves them apart.
Between(s) ==
  \/ call.on = s /\ call.at \in {"use", "erase"}
  \/ net.on = s /\ net.at \in {"clear", "take"}

\* A device's server is in use, though netThread writes both fields beside
\* the calls and without a lock; or nobody would ever take it back, and
\* netThread's test of the time would pass over it.
HeldMeansUsed ==
  \A s \in Server : devid[s] # None => beused[s] = 1 \/ Between(s)

\* No device has two servers, though netThread may take the first while the
\* device is given the second.
OneServerEach ==
  \A r, s \in Server : devid[r] = devid[s] /\ devid[r] # None => r = s

\* netThread takes an online server from a device only after its 60 seconds,
\* or before getFreeServer has returned; never from one given meanwhile.
OnlyStaleTaken ==
  [][\A s \in Server : Take /\ net.on = s => stale[s]]_vars

\* A server whose device falls silent is free again in the end, even one that
\* a race has left in use and nobody's; as long as netThread's probes come
\* back, of whichever servers: one that never does ends all of this.
SilentFreed ==
  []<>(net.at # "next") =>
    \A s \in Server :
      (beused[s] = 1 /\ stale[s]) ~> (beused[s] = 0 \/ ~stale[s])
=============================================================================
