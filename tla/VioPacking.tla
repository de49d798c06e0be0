---------------------------- MODULE VioPacking ----------------------------
(***************************************************************************)
(* UpdateVioData's violation records and their packages.  The web asks for *)
(* a package; packAffirmData starts a thread that selects the records,     *)
(* marks them downloaded and makes a zip file, without the plugin's mutex, *)
(* on the connection, with the global username and with the static buffer  *)
(* of itoaa that the handlers use.                                         *)
(* What affirmVioData and insertViodata add to the blacklist is Blacklist. *)
(***************************************************************************)
EXTENDS Naturals

CONSTANTS Vio,      \* violation records, by vioid
          Pack,     \* the packages that are asked for
          User,
          Visible,  \* the records of the users in a user's group
          None      \* no user

ASSUME UserAssumption == Visible \in [User -> SUBSET Vio] /\ None \notin User

VARIABLES affirm,    \* column: 0 not yet, 1 affirmed, 2 rejected; None: no row
          download,  \* column
          username,  \* the plugin's global
          pc,        \* each package's thread
          user,      \* history: who asked for the package
          fresh,     \* whether it asks for download = 0 only
          names,     \* GetNameList: whose records
          idList,    \* the records selected
          file,      \* the package on disk
          mixed,     \* history: packages for which GetNameList did not read the
                     \* requester's group
          beside,    \* history: the packages whose selected records were not
                     \* yet marked when this one selected
          unmarked,  \* history: packages whose UPDATE did not happen, or whose
                     \* SELECT did not ask for the value of download it meant
          excused    \* history: records marked by an empty package, or whose
                     \* package was not made or is deleted

record == <<affirm, download>>
thread == <<pc, names, idList, file>>
history == <<user, mixed, beside, unmarked, excused>>
vars == <<record, username, fresh, thread, history>>

Stored == {v \in Vio : affirm[v] # None}

Init ==
  /\ affirm = [v \in Vio |-> None]
  /\ download = [v \in Vio |-> 0]
  /\ username = None
  /\ pc = [k \in Pack |-> "idle"]
  /\ user = [k \in Pack |-> None]
  /\ fresh = [k \in Pack |-> FALSE]
  /\ names = [k \in Pack |-> {}]
  /\ idList = [k \in Pack |-> {}]
  /\ file = [k \in Pack |-> "none"]
  /\ mixed = {} /\ unmarked = {} /\ excused = {}
  /\ beside = [k \in Pack |-> {}]

-----------------------------------------------------------------------------
(* The handlers, under the plugin's mutex.                                 *)

\* CheckUsername assigns the global before every handler; a package whose
\* thread has not read it yet may now be another user's.
CheckUsername(u) ==
  /\ username' = u
  /\ mixed' = mixed \cup {k \in Pack : pc[k] = "names" /\ user[k] # u}

\* Any request that changes no record, or whose statement fails.
OtherRequest(u) ==
  /\ CheckUsername(u)
  /\ UNCHANGED <<record, fresh, thread, user, beside, unmarked, excused>>

\* A checkpoint's record is affirmed from the start; a phone's takes over its
\* disposetype.  An existing record stays.
insertViodata(u, v, a) ==
  /\ CheckUsername(u)
  /\ v \notin Stored
  /\ affirm' = [affirm EXCEPT ![v] = a]
  /\ UNCHANGED <<download, fresh, thread, user, beside, unmarked, excused>>

\* The web's verdict, any number of times.
affirmVioData(u, v, a) ==
  /\ CheckUsername(u)
  /\ v \in Stored
  /\ affirm' = [affirm EXCEPT ![v] = a]
  /\ UNCHANGED <<download, fresh, thread, user, beside, unmarked, excused>>

\* packAffirmData counts records, whosever and whether affirmed or not, and
\* starts the thread if there are any.  The thread asks for affirm = 1 as well,
\* so it may find none of them.
packAffirmData(u, k, f) ==
  /\ pc[k] = "idle"
  /\ \E v \in Stored : f => download[v] = 0
  /\ CheckUsername(u)
  /\ pc' = [pc EXCEPT ![k] = "names"]
  /\ user' = [user EXCEPT ![k] = u]
  /\ fresh' = [fresh EXCEPT ![k] = f]
  /\ UNCHANGED <<record, names, idList, file, beside, unmarked, excused>>

\* The web deletes a zip file.
deletePack(u, k) ==
  /\ file[k] = "zip"
  /\ CheckUsername(u)
  /\ file' = [file EXCEPT ![k] = "deleted"]
  /\ excused' = excused \cup idList[k]
  /\ UNCHANGED <<record, fresh, pc, names, idList, user, beside, unmarked>>

-----------------------------------------------------------------------------
(* packDataThread.                                                         *)

\* GetNameList: the users of the group of username.  (What later queries fail
\* to read is among what Select may leave out.)
GetNameList(k) ==
  /\ pc[k] = "names"
  /\ username # None
  /\ names' = [names EXCEPT ![k] = Visible[username]]
  /\ pc' = [pc EXCEPT ![k] = "select"]
  /\ UNCHANGED <<record, username, fresh, idList, file, history>>

\* The SELECT of the user's datafilter fails: it stays "", and every user's
\* datafilter is LIKE '%'.
GetNameListFails(k) ==
  /\ pc[k] = "names"
  /\ names' = [names EXCEPT ![k] = Vio]
  /\ mixed' = mixed \cup {k}
  /\ pc' = [pc EXCEPT ![k] = "select"]
  /\ UNCHANGED <<record, username, fresh, idList, file, user, beside, unmarked,
                 excused>>

Unpacked(k) ==
  {v \in names[k] : affirm[v] = 1 /\ (fresh[k] => download[v] = 0)}

\* (Wrong: the condition on the column download is left out.)
SelectDownloaded(k) ==
  /\ pc[k] = "select"
  /\ \E S \in SUBSET {v \in names[k] : affirm[v] = 1} :
       idList' = [idList EXCEPT ![k] = S]
  /\ file' = [file EXCEPT ![k] = "folder"]
  /\ beside' = [beside EXCEPT ![k] = {j \in Pack : pc[j] = "mark"}]
  /\ pc' = [pc EXCEPT ![k] = "mark"]
  /\ UNCHANGED <<record, username, fresh, names, user, mixed, unmarked, excused>>

\* (Wrong: the condition on deviceuser is left out.)
SelectEverybodys(k) ==
  /\ pc[k] = "select"
  /\ \E S \in SUBSET {v \in Vio : affirm[v] = 1} :
       idList' = [idList EXCEPT ![k] = S]
  /\ file' = [file EXCEPT ![k] = "folder"]
  /\ beside' = [beside EXCEPT ![k] = {j \in Pack : pc[j] = "mark"}]
  /\ pc' = [pc EXCEPT ![k] = "mark"]
  /\ UNCHANGED <<record, username, fresh, names, user, mixed, unmarked, excused>>

\* One SELECT for each name, of which some may fail; pictures and the table
\* go to a folder.
Select(k) ==
  /\ pc[k] = "select"
  /\ \E S \in SUBSET Unpacked(k) : idList' = [idList EXCEPT ![k] = S]
  /\ file' = [file EXCEPT ![k] = "folder"]
  /\ beside' = [beside EXCEPT ![k] = {j \in Pack : pc[j] = "mark"}]
  /\ pc' = [pc EXCEPT ![k] = "mark"]
  /\ UNCHANGED <<record, username, fresh, names, user, mixed, unmarked, excused>>

\* itoaa's static buffer, of which the SELECT takes the value of download, is
\* overwritten by a handler's answer: any value is asked for.
SelectGarbled(k) ==
  /\ pc[k] = "select"
  /\ \E S \in SUBSET {v \in names[k] : affirm[v] = 1} :
       idList' = [idList EXCEPT ![k] = S]
  /\ file' = [file EXCEPT ![k] = "folder"]
  /\ beside' = [beside EXCEPT ![k] = {j \in Pack : pc[j] = "mark"}]
  /\ unmarked' = unmarked \cup {k}
  /\ pc' = [pc EXCEPT ![k] = "mark"]
  /\ UNCHANGED <<record, username, fresh, names, user, mixed, excused>>

\* (Wrong: the records that match now are marked, not those selected.)
MarkMatching(k) ==
  /\ pc[k] = "mark"
  /\ download' = [v \in Vio |-> IF v \in Unpacked(k) THEN 1 ELSE download[v]]
  /\ pc' = [pc EXCEPT ![k] = "zip"]
  /\ UNCHANGED <<affirm, username, fresh, names, idList, file, history>>

\* UPDATE ... SET download = 1 WHERE 1=1 AND ( id = ... ): with an empty
\* idList the condition is 1=1, and every record is marked.
Mark(k) ==
  LET S == IF idList[k] = {} THEN Stored ELSE idList[k] IN
  /\ pc[k] = "mark"
  /\ download' = [v \in Vio |-> IF v \in S THEN 1 ELSE download[v]]
  /\ excused' = IF idList[k] = {} THEN excused \cup Stored ELSE excused
  /\ pc' = [pc EXCEPT ![k] = "zip"]
  /\ UNCHANGED <<affirm, username, fresh, names, idList, file, user, mixed,
                 beside, unmarked>>

MarkFails(k) ==
  /\ pc[k] = "mark"
  /\ unmarked' = unmarked \cup {k}
  /\ pc' = [pc EXCEPT ![k] = "zip"]
  /\ UNCHANGED <<record, username, fresh, names, idList, file, user, mixed,
                 beside, excused>>

\* makezip, then DeleteFolder.
Zip(k) ==
  /\ pc[k] = "zip"
  /\ file' = [file EXCEPT ![k] = "zip"]
  /\ pc' = [pc EXCEPT ![k] = "done"]
  /\ UNCHANGED <<record, username, fresh, names, idList, history>>

\* makezip fails; its result is printed, and the folder deleted all the same.
ZipFails(k) ==
  /\ pc[k] = "zip"
  /\ file' = [file EXCEPT ![k] = "deleted"]
  /\ excused' = excused \cup idList[k]
  /\ pc' = [pc EXCEPT ![k] = "done"]
  /\ UNCHANGED <<record, username, fresh, names, idList, user, mixed, beside,
                 unmarked>>

Running == {k \in Pack : pc[k] \notin {"idle", "done"}}

\* The process ends: threads are gone, and a folder that is not zipped yet is
\* not a package the web can list.
Crash ==
  /\ pc' = [k \in Pack |-> IF k \in Running THEN "done" ELSE pc[k]]
  /\ username' = None
  /\ unmarked' = unmarked \cup {k \in Running : pc[k] # "zip"}
  /\ excused' = excused \cup UNION {idList[k] : k \in Running}
  /\ UNCHANGED <<record, fresh, names, idList, file, user, mixed, beside>>

Handler(u) ==
  \/ OtherRequest(u)
  \/ \E v \in Vio : (\E a \in 0..1 : insertViodata(u, v, a))
                    \/ (\E a \in 1..2 : affirmVioData(u, v, a))
  \/ \E k \in Pack : (\E f \in BOOLEAN : packAffirmData(u, k, f))
                     \/ deletePack(u, k)

packDataThread(k) ==
  \/ GetNameList(k) \/ GetNameListFails(k)
  \/ Select(k) \/ SelectGarbled(k) \/ Mark(k) \/ MarkFails(k)
  \/ Zip(k) \/ ZipFails(k)

Next ==
  \/ \E u \in User : Handler(u)
  \/ \E k \in Pack : packDataThread(k)
  \/ Crash

Spec == Init /\ [][Next]_vars

-----------------------------------------------------------------------------
(* Properties.                                                             *)

\* The columns and the threads' lists keep to their ranges.
TypeOK ==
  /\ affirm \in [Vio -> 0..2 \cup {None}]
  /\ download \in [Vio -> 0..1]
  /\ username \in User \cup {None}
  /\ pc \in [Pack -> {"idle", "names", "select", "mark", "zip", "done"}]
  /\ user \in [Pack -> User \cup {None}]
  /\ fresh \in [Pack -> BOOLEAN]
  /\ names \in [Pack -> SUBSET Vio]
  /\ idList \in [Pack -> SUBSET Vio]
  /\ file \in [Pack -> {"none", "folder", "zip", "deleted"}]
  /\ mixed \subseteq Pack /\ unmarked \subseteq Pack /\ excused \subseteq Vio
  /\ beside \in [Pack -> SUBSET Pack]

\* The package of k is there for the web, or about to be.
OnHand(k) == file[k] = "zip" \/ pc[k] = "zip"

\* A record that is marked downloaded is in a package, unless the package was
\* lost or deleted later, or an empty one marked everything.
DownloadedIsPacked ==
  \A v \in Vio :
    download[v] = 1 /\ v \notin excused =>
      \E k \in Pack : v \in idList[k] /\ OnHand(k)

\* Two packages of records not yet downloaded share one only when the second
\* selected before the first had marked, the mark failed, or the condition on
\* download was garbled.
PackedTwiceOnlyBeside ==
  \A j, k \in Pack :
    j # k /\ fresh[j] /\ fresh[k] /\ idList[j] \cap idList[k] # {} =>
      \/ j \in beside[k] \/ k \in beside[j]
      \/ j \in unmarked \/ k \in unmarked

\* A package holds what its requester's group may see, though the thread asks
\* the global username, unless another user's request came between or the
\* SELECT of that group failed.
PackedForRequester ==
  \A k \in Pack \ mixed : idList[k] # {} => idList[k] \subseteq Visible[user[k]]
=============================================================================
