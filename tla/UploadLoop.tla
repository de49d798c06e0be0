----------------------------- MODULE UploadLoop -----------------------------
(***************************************************************************)
(* DataTransfer (DataTransfer/src/main.cpp): one loop that takes affirmed  *)
(* violation records out of the database, puts their pictures on an FTP    *)
(* server, sends their XML over TCP to the centre and marks them, upload   *)
(* = 1 when done and 2 when a picture could not be put.                    *)
(*                                                                         *)
(* Records are numbered in the order the SELECT returns them.  A fault is  *)
(* a lost connection, a failed put or UPDATE, or a crash with restart;     *)
(* MaxFaults bounds them.  A picnum may be more than a record has paths:   *)
(* the phone gives it, and the columns hold the first NSLOT - 1 pictures.  *)
(***************************************************************************)
EXTENDS Naturals, FiniteSets

CONSTANTS N,          \* how many records are ever affirmed
          LIMIT,      \* the rows of one SELECT ("LIMIT 0,10")
          NSLOT,      \* the length of img_path[] and img_dstpath[] (5)
          Picnum,     \* the picnum of each record, as its phone gave it
          Disposable, \* bound: the records that may be disposed of
          MaxFaults   \* bound on the faults

ASSUME SizeAssumption ==
  N \in Nat /\ LIMIT \in Nat \ {0} /\ NSLOT \in Nat \ {0}
ASSUME PicnumAssumption == Picnum \in [1 .. N -> Nat]
ASSUME BoundAssumption == MaxFaults \in Nat /\ Disposable \subseteq 1 .. N

VARIABLES pc,        \* where the loop is
          g_ftpCon,  \* connected and logged in, once and for all
          g_tcpCon,  \* whether the socket to the centre is believed open
          tcpUp,     \* whether the centre still holds its end
          vioList,   \* the records of the batch still to be handled
          i,         \* the index main() uses for img_path and img_dstpath
          j,         \* how many pictures of the record were handled
          affirmed,  \* records 1 .. affirmed have affirm = 1
          disposed,  \* the records with disposetype # 0
          upload,    \* the upload column
          put,       \* the pictures <<record, slot>> on the FTP server
          sent,      \* how often each record's XML was handed to TCP in full
          faults,    \* the faults so far
          lapses     \* those that lose a mark: a crash, a failed UPDATE

loop == <<pc, vioList, i, j>>
links == <<g_ftpCon, g_tcpCon, tcpUp>>
table == <<affirmed, disposed, upload>>
outside == <<put, sent>>
count == <<faults, lapses>>
vars == <<pc, g_ftpCon, g_tcpCon, tcpUp, vioList, i, j, affirmed, disposed,
          upload, put, sent, faults, lapses>>

Record == 1 .. N
Current == CHOOSE r \in vioList : \A q \in vioList : r <= q

Init ==
  /\ pc = "ftp"
  /\ g_ftpCon = FALSE /\ g_tcpCon = FALSE /\ tcpUp = FALSE
  /\ vioList = {} /\ i = 0 /\ j = 0
  /\ affirmed = 0 /\ disposed = {}
  /\ upload = [r \in Record |-> 0]
  /\ put = {}
  /\ sent = [r \in Record |-> 0]
  /\ faults = 0 /\ lapses = 0

Fault == faults < MaxFaults /\ faults' = faults + 1

-----------------------------------------------------------------------------
(* The table, as the plugins change it.                                    *)

\* affirmVioData() affirms the next record.
Affirm ==
  /\ affirmed < N
  /\ affirmed' = affirmed + 1
  /\ UNCHANGED <<loop, links, disposed, upload, outside, count>>

\* A record is disposed of before the loop has selected it or afterwards.
Dispose(r) ==
  /\ r <= affirmed /\ r \in Disposable \ disposed
  /\ disposed' = disposed \cup {r}
  /\ UNCHANGED <<loop, links, affirmed, upload, outside, count>>

-----------------------------------------------------------------------------
(* The loop.                                                               *)

\* while(!g_ftpCon): only the first time, m_ftp_ctl is never NULL again.
ConnectFtp ==
  /\ pc = "ftp"
  /\ g_ftpCon' = TRUE
  /\ pc' = "tcp"
  /\ UNCHANGED <<vioList, i, j, g_tcpCon, tcpUp, table, outside, count>>

\* (Wrong: the socket that failed is used again.)
KeepTcp ==
  /\ pc = "tcp"
  /\ g_tcpCon' = TRUE
  /\ pc' = "select"
  /\ UNCHANGED <<vioList, i, j, g_ftpCon, tcpUp, table, outside, count>>

\* while(!g_tcpCon) TcpCliConnect.
ConnectTcp ==
  /\ pc = "tcp"
  /\ g_tcpCon' = TRUE
  /\ tcpUp' = (g_tcpCon => tcpUp)
  /\ pc' = "select"
  /\ UNCHANGED <<vioList, i, j, g_ftpCon, table, outside, count>>

\* (Wrong: the SELECT does not ask for upload = 0.)
PendingMarked == {r \in 1 .. affirmed : r \notin disposed}

Pending == {r \in 1 .. affirmed : upload[r] = 0 /\ r \notin disposed}

\* (Wrong: a row too many.)
BatchOneMore == {r \in Pending : Cardinality({q \in Pending : q < r}) <= LIMIT}

\* The rows of the SELECT.
Batch == {r \in Pending : Cardinality({q \in Pending : q < r}) < LIMIT}

\* GetViodata().  The loop counts the record in its printf, i++, before it
\* uses i: 1 for the first record.
GetViodata ==
  /\ pc = "select"
  /\ vioList' = Batch
  /\ i' = IF Batch = {} THEN 0 ELSE 1
  /\ j' = 0
  /\ pc' = IF Batch = {} THEN "ftp" ELSE "put"
  /\ UNCHANGED <<links, table, outside, count>>

\* What img_path[i] is of record r: one of its 4 (NSLOT - 1) paths, an empty
\* string (the fifth entry, a missing picture, or beyond img_path the zeroed
\* img_dstpath), and past both arrays the record's vioid.
ImgPath(r) ==
  IF i < NSLOT - 1 /\ i < Picnum[r] THEN "picture"
  ELSE IF i < 2 * NSLOT THEN "" ELSE "vioid"

\* ftpUpPic("") returns 0 at once.
SkipPic ==
  /\ pc = "put" /\ j < Picnum[Current]
  /\ ImgPath(Current) = ""
  /\ j' = j + 1
  /\ UNCHANGED <<pc, vioList, i, links, table, outside, count>>

\* ftpUpPic puts the picture, FtpPut returns 1.
PutPic ==
  /\ pc = "put" /\ j < Picnum[Current]
  /\ ImgPath(Current) = "picture"
  /\ put' = put \cup {<<Current, i>>}
  /\ j' = j + 1
  /\ UNCHANGED <<pc, vioList, i, links, table, sent, count>>

\* FtpPut returns 1 and the server has not kept the file: FtpXfer ignores the
\* reply FtpClose waits for.
PutPicRefused ==
  /\ pc = "put" /\ j < Picnum[Current]
  /\ ImgPath(Current) = "picture"
  /\ j' = j + 1
  /\ Fault
  /\ UNCHANGED <<pc, vioList, i, links, table, outside, lapses>>

\* ftpUpPic returns -2: no such local file (always so for a vioid), a short
\* write, a control connection the server has dropped.  The record is given
\* up.
PutPicFails ==
  /\ pc = "put" /\ j < Picnum[Current]
  /\ \/ ImgPath(Current) = "vioid" /\ UNCHANGED count
     \/ ImgPath(Current) = "picture" /\ Fault /\ UNCHANGED lapses
  /\ pc' = "mark2"
  /\ UNCHANGED <<vioList, i, j, links, table, outside>>

\* TcpCliSendN() hands the whole XML to the connection; whether the centre
\* is still there shows only later.
SendXml ==
  /\ pc = "put" /\ j = Picnum[Current]
  /\ sent' = [sent EXCEPT ![Current] = @ + 1]
  /\ pc' = "mark1"
  /\ UNCHANGED <<vioList, i, j, links, table, put, count>>

\* (Wrong: a record whose XML was not sent is marked as well.)
SendXmlFailsMarked ==
  /\ pc = "put" /\ j = Picnum[Current]
  /\ ~tcpUp
  /\ g_tcpCon' = FALSE
  /\ pc' = "mark1"
  /\ UNCHANGED <<vioList, i, j, g_ftpCon, tcpUp, table, outside, count>>

\* send() fails: TcpCliDisConnect, and the rest of the batch is dropped.
SendXmlFails ==
  /\ pc = "put" /\ j = Picnum[Current]
  /\ ~tcpUp
  /\ g_tcpCon' = FALSE
  /\ vioList' = {} /\ i' = 0 /\ j' = 0
  /\ pc' = "ftp"
  /\ UNCHANGED <<g_ftpCon, tcpUp, table, outside, count>>

\* The next record of the batch, or END.
Continue ==
  /\ vioList' = vioList \ {Current}
  /\ j' = 0
  /\ i' = IF vioList = {Current} THEN 0 ELSE i + 1
  /\ pc' = IF vioList = {Current} THEN "ftp" ELSE "put"

\* (Wrong: the UPDATE is not sent.)
MarkNothing ==
  /\ pc \in {"mark1", "mark2"}
  /\ Continue
  /\ UNCHANGED <<links, table, outside, count>>

\* SetViodataUpload().
Mark ==
  /\ pc \in {"mark1", "mark2"}
  /\ upload' = [upload EXCEPT ![Current] = IF pc = "mark1" THEN 1 ELSE 2]
  /\ Continue
  /\ UNCHANGED <<links, affirmed, disposed, outside, count>>

\* The UPDATE fails; its result is not looked at.
MarkFails ==
  /\ pc \in {"mark1", "mark2"}
  /\ Fault /\ lapses' = lapses + 1
  /\ Continue
  /\ UNCHANGED <<links, table, outside>>

-----------------------------------------------------------------------------
(* Outside the loop.                                                       *)

\* The centre goes away.
TcpDrop ==
  /\ tcpUp
  /\ tcpUp' = FALSE
  /\ Fault
  /\ UNCHANGED <<loop, g_ftpCon, g_tcpCon, table, outside, lapses>>

\* The process dies (FtpXfer writes through the nData FtpAccess has not set
\* when it returns a negative error) and is started again.
Crash ==
  /\ Fault /\ lapses' = lapses + 1
  /\ pc' = "ftp"
  /\ g_ftpCon' = FALSE /\ g_tcpCon' = FALSE /\ tcpUp' = FALSE
  /\ vioList' = {} /\ i' = 0 /\ j' = 0
  /\ UNCHANGED <<table, outside>>

Work ==
  \/ ConnectFtp \/ ConnectTcp \/ GetViodata
  \/ SkipPic \/ PutPic \/ PutPicRefused \/ PutPicFails
  \/ SendXml \/ SendXmlFails \/ Mark \/ MarkFails

Next ==
  \/ Work
  \/ Affirm \/ (\E r \in Record : Dispose(r))
  \/ TcpDrop \/ Crash

Spec == Init /\ [][Next]_vars

\* The loop never stops, and the servers accept a connection in the end.
FairSpec == Spec /\ WF_vars(Work)

-----------------------------------------------------------------------------
(* Properties.                                                             *)

\* The columns and the loop's variables stay in their ranges; i is an index
\* of a record of the batch.
TypeOK ==
  /\ pc \in {"ftp", "tcp", "select", "put", "mark1", "mark2"}
  /\ {g_ftpCon, g_tcpCon, tcpUp} \subseteq BOOLEAN
  /\ vioList \subseteq Record /\ Cardinality(vioList) <= LIMIT
  /\ pc \in {"put", "mark1", "mark2"} =>
       vioList # {} /\ i \in 1 .. LIMIT /\ j \in 0 .. Picnum[Current]
  /\ affirmed \in 0 .. N /\ disposed \subseteq Record
  /\ upload \in [Record -> {0, 1, 2}]
  /\ put \subseteq Record \X (0 .. NSLOT - 1)
  /\ sent \in [Record -> Nat]
  /\ faults \in 0 .. MaxFaults /\ lapses \in 0 .. faults

\* A record is marked uploaded only after its whole XML went out on a socket
\* that reported no error.
UploadedMeansSent ==
  \A r \in Record : upload[r] = 1 => sent[r] > 0

\* The centre gets a record again only because a mark was lost, in a crash or
\* a failed UPDATE: a lost connection alone never makes the loop resend.
Pairs == {p \in Record \X (2 .. MaxFaults + 2) : p[2] <= sent[p[1]]}
ResentOnlyAfterLapse == Cardinality(Pairs) <= lapses

\* The loop and its column are an Outbox: a record is sent and not yet marked
\* only while the loop is at the UPDATE of it.
Box == INSTANCE Outbox
         WITH Row <- Record, deliveries <- sent,
              state <- [r \in Record |->
                          IF upload[r] # 0 THEN "marked"
                          ELSE IF pc = "mark1" /\ r = Current THEN "sent"
                          ELSE "waiting"]

UploadOutbox == Box!Spec

\* Once connections fail no more, every affirmed record is uploaded, given up
\* or disposed of: none is left behind by a batch that was cut short.
EveryRecordSettled ==
  \A r \in Record : (affirmed >= r) ~> (upload[r] # 0 \/ r \in disposed)

\* The comment and the message of the loop: every picture of a record has
\* been put when its XML goes out ("ftp sends the pictures", "Pic Send OK!").
UploadedMeansPicturesPut ==
  \A r \in Record :
    upload[r] = 1 =>
      \A s \in 0 .. NSLOT - 2 : s < Picnum[r] => <<r, s>> \in put
=============================================================================
