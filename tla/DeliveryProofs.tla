--------------------------- MODULE DeliveryProofs ---------------------------
(***************************************************************************)
(* What holds of DataTransfer's upload loop and of the GPS plugin's        *)
(* DataSendThread, which send rows of a table to another system over TCP   *)
(* and mark them afterwards, for every number of rows.                     *)
(*                                                                         *)
(* ResentOnlyAfterLapse counts: a lost mark leaves one record that was     *)
(* sent and will be selected again (Unmarked), and sending that record     *)
(* again uses the lapse up (LapsesPay).  This and UploadedMeansSent need   *)
(* to know that the records of a batch are unmarked and that the one at    *)
(* mark1 was sent (InBatch).                                               *)
(*                                                                         *)
(* UpflagCountsSends needs to know what DataSendThread has in hand: the    *)
(* rows it has still to send are unmarked and not in idList, and idList is *)
(* empty but in a pass (Pass).                                             *)
(*                                                                         *)
(* Both are an Outbox.  A step changes the place of one row, or takes all  *)
(* the rows in hand back to waiting (OutboxStep, GpsOutboxStep); what it   *)
(* sends was unmarked and not in hand already, by InBatch and by Pass.     *)
(***************************************************************************)
EXTENDS UploadLoop, GpsForwarder, FiniteSetTheorems, TLAPS

-----------------------------------------------------------------------------
(* The violation records.                                                  *)

\* The rest of the batch: i grows as the batch shrinks, its records are still
\* unmarked, and the one at mark1 was sent.
InBatch ==
  /\ pc \in {"put", "mark1", "mark2"} =>
       i + Cardinality(vioList) <= LIMIT + 1
  /\ \A r \in vioList : upload[r] = 0
  /\ pc = "mark1" => sent[Current] > 0
  /\ pc \in {"ftp", "tcp", "select"} => vioList = {}

\* The records whose next SELECT will have them sent again.
Unmarked == {r \in Record : /\ sent[r] > 0 /\ upload[r] = 0
                            /\ ~(pc = "mark1" /\ r = Current)}

\* Every lapse leaves one such record, and its next sending uses it up.
LapsesPay == Cardinality(Pairs) + Cardinality(Unmarked) <= lapses

UploadIInv == TypeOK /\ InBatch /\ UploadedMeansSent /\ LapsesPay

\* A set of records has a first and a last one.
LEMMA FirstExists ==
  ASSUME NEW S \in SUBSET Nat, S # {}
  PROVE  \E r \in S : \A q \in S : r <= q
  <1>1. PICK r \in S : \A q \in S : ~(<<q, r>> \in OpToRel(<, Nat))
    BY WFMin, NatLessThanWellFounded
  <1>2. \A q \in S : ~(q < r)
    BY <1>1 DEF OpToRel
  <1>3. QED
    BY <1>2

LEMMA LastExists ==
  ASSUME NEW S \in SUBSET Record, S # {}
  PROVE  \E r \in S : \A q \in S : q <= r
  <1> DEFINE Mirror == {N - r : r \in S}
  <1>1. Mirror \in SUBSET Nat /\ Mirror # {}
    <2>1. \A r \in S : N - r \in Nat
      BY SizeAssumption DEF Record
    <2>2. QED
      BY <2>1
  <1> HIDE DEF Mirror
  <1>2. PICK m \in Mirror : \A n \in Mirror : m <= n
    BY <1>1, FirstExists
  <1>3. PICK r \in S : m = N - r
    BY DEF Mirror
  <1>4. \A q \in S : N - q \in Mirror
    BY DEF Mirror
  <1>5. \A q \in S : N - r <= N - q
    BY <1>2, <1>3, <1>4
  <1>6. QED
    BY <1>5, SizeAssumption DEF Record

LEMMA CurrentInBatch ==
  ASSUME vioList \subseteq Record, vioList # {}
  PROVE  Current \in vioList /\ Current \in Record
  <1>1. vioList \in SUBSET Nat
    BY SizeAssumption DEF Record
  <1>2. \E r \in vioList : \A q \in vioList : r <= q
    BY <1>1, FirstExists
  <1>3. QED
    BY <1>2 DEF Current

LEMMA NextInNewBatch ==
  ASSUME vioList' \subseteq Record, vioList' # {}
  PROVE  Current' \in Record
  <1>1. vioList' \in SUBSET Nat
    BY SizeAssumption DEF Record
  <1>2. \E r \in vioList' : \A q \in vioList' : r <= q
    BY <1>1, FirstExists
  <1>3. QED
    BY <1>2 DEF Current

LEMMA RecordsFinite ==
  /\ IsFiniteSet(Record)
  /\ \A S \in SUBSET Record : IsFiniteSet(S) /\ Cardinality(S) \in Nat
  <1>1. IsFiniteSet(Record)
    BY FS_Interval, SizeAssumption DEF Record
  <1>2. ASSUME NEW S \in SUBSET Record
        PROVE  IsFiniteSet(S) /\ Cardinality(S) \in Nat
    BY <1>1, FS_Subset, FS_CardinalityType
  <1>3. QED
    BY <1>1, <1>2

\* The SELECT returns LIMIT rows at most.
LEMMA BatchSize ==
  ASSUME TypeOK
  PROVE  /\ Batch \subseteq Record /\ Cardinality(Batch) <= LIMIT
         /\ \A r \in Batch : upload[r] = 0
  <1>1. Pending \subseteq Record /\ Batch \subseteq Pending
    BY SizeAssumption DEF TypeOK, Pending, Batch, Record
  <1>2. CASE Batch = {}
    BY <1>2, FS_EmptySet, SizeAssumption
  <1>3. CASE Batch # {}
    <2>1. PICK r \in Batch : \A q \in Batch : q <= r
      BY <1>1, <1>3, LastExists
    <2> DEFINE Before == {q \in Pending : q < r}
    <2>2. Cardinality(Before) < LIMIT
      BY DEF Batch
    <2>3. Before \in SUBSET Record /\ r \notin Before
      <3>1. r \in Record /\ ~(r < r)
        BY <1>1, SizeAssumption DEF Record
      <3>2. QED
        BY <1>1, <3>1
    <2>4. Batch \subseteq Before \cup {r}
      BY <1>1, <2>1, SizeAssumption DEF Record
    <2> HIDE DEF Before
    <2>5. IsFiniteSet(Before) /\ Cardinality(Before) \in Nat
      BY <2>3, RecordsFinite
    <2>6. /\ IsFiniteSet(Before \cup {r})
          /\ Cardinality(Before \cup {r}) = Cardinality(Before) + 1
      BY <2>3, <2>5, FS_AddElement
    <2>7. Cardinality(Batch) <= Cardinality(Before \cup {r})
      BY <2>4, <2>6, FS_Subset
    <2>8. Cardinality(Batch) \in Nat
      BY <1>1, RecordsFinite
    <2>9. Cardinality(Batch) <= LIMIT
      BY <2>2, <2>5, <2>6, <2>7, <2>8, SizeAssumption
    <2>10. QED
      BY <1>1, <2>9 DEF Pending
  <1>4. QED
    BY <1>1, <1>2, <1>3 DEF Pending

LEMMA InitUploadIInv == Init => UploadIInv
  <1> SUFFICES ASSUME Init
               PROVE  UploadIInv
    OBVIOUS
  <1> USE SizeAssumption, PicnumAssumption, BoundAssumption DEF Init
  <1>1. TypeOK
    <2>1. Cardinality(vioList) = 0
      BY FS_EmptySet
    <2>2. {g_ftpCon, g_tcpCon, tcpUp} \subseteq BOOLEAN
      OBVIOUS
    <2>3. QED
      BY <2>1, <2>2 DEF TypeOK
  <1>2. InBatch /\ UploadedMeansSent
    BY DEF InBatch, UploadedMeansSent
  <1>3. LapsesPay
    <2>1. Pairs = {} /\ Unmarked = {}
      BY DEF Pairs, Unmarked
    <2>2. QED
      BY <2>1, FS_EmptySet DEF LapsesPay
  <1>4. QED
    BY <1>1, <1>2, <1>3 DEF UploadIInv

\* The links' variables are Boolean.
LEMMA NextLinks ==
  ASSUME TypeOK, [Next]_vars
  PROVE  {g_ftpCon, g_tcpCon, tcpUp}' \subseteq BOOLEAN
  BY DEF TypeOK, Next, Work, ConnectFtp, ConnectTcp, GetViodata, SkipPic,
         PutPic, PutPicRefused, PutPicFails, SendXml, SendXmlFails, Mark,
         MarkFails, Affirm, Dispose, TcpDrop, Crash, vars, links

\* The batch, when a record has been handled.
LEMMA RestOfBatch ==
  ASSUME TypeOK, InBatch, pc \in {"mark1", "mark2"}, Continue
  PROVE  /\ Current \in Record /\ Current \in vioList
         /\ vioList' \subseteq vioList \ {Current}
         /\ Cardinality(vioList') <= LIMIT
         /\ pc' \in {"ftp", "put"}
         /\ pc' = "ftp" => vioList' = {}
         /\ pc' = "put" => /\ vioList' # {} /\ i' \in 1 .. LIMIT
                           /\ i' + Cardinality(vioList') <= LIMIT + 1
                           /\ Current' \in Record
         /\ j' = 0
  <1>1. Current \in Record /\ Current \in vioList
    BY CurrentInBatch DEF TypeOK
  <1>2. IsFiniteSet(vioList) /\ Cardinality(vioList) \in Nat
    BY RecordsFinite DEF TypeOK
  <1>3. vioList' = vioList \ {Current}
    BY DEF Continue
  <1>4. /\ IsFiniteSet(vioList')
        /\ Cardinality(vioList') = Cardinality(vioList) - 1
    BY <1>1, <1>2, <1>3, FS_RemoveElement
  <1>5. vioList' # {} => Cardinality(vioList') # 0
    BY <1>4, FS_EmptySet
  <1>6. Cardinality(vioList') \in Nat
    BY <1>4, FS_CardinalityType
  <1>7. vioList' = {} <=> vioList = {Current}
    BY <1>1, <1>3
  <1>8. vioList' # {} => Current' \in Record
    <2>1. vioList' \subseteq Record
      BY <1>3 DEF TypeOK
    <2>2. QED
      BY <2>1, NextInNewBatch
  <1>9. QED
    BY <1>1, <1>2, <1>3, <1>4, <1>5, <1>6, <1>7, <1>8, SizeAssumption
       DEF Continue, TypeOK, InBatch

\* A fault is counted, and a lapse with its fault.
LEMMA FaultCounts ==
  ASSUME TypeOK,
         \/ UNCHANGED count
         \/ Fault /\ (lapses' = lapses \/ lapses' = lapses + 1)
  PROVE  faults' \in 0 .. MaxFaults /\ lapses' \in 0 .. faults'
  <1>1. faults \in 0 .. MaxFaults /\ lapses \in 0 .. faults
    BY DEF TypeOK
  <1>2. QED
    BY <1>1, BoundAssumption DEF Fault, count

LEMMA NextTypeOK ==
  ASSUME TypeOK, InBatch, [Next]_vars
  PROVE  TypeOK'
  <1> USE SizeAssumption, PicnumAssumption, BoundAssumption
  <1>1. {g_ftpCon, g_tcpCon, tcpUp}' \subseteq BOOLEAN
    BY NextLinks
  <1>2. vioList' = vioList => Current' = Current
    BY DEF Current
  <1>3. CASE ConnectFtp \/ ConnectTcp
    BY <1>1, <1>3 DEF ConnectFtp, ConnectTcp, table, outside, count, TypeOK
  <1>4. CASE GetViodata
    <2>1. vioList' \subseteq Record /\ Cardinality(vioList') <= LIMIT
      BY <1>4, BatchSize DEF GetViodata
    <2>2. pc' = "put" => vioList' # {} /\ j' \in 0 .. Picnum[Current']
      BY <1>4, <2>1, NextInNewBatch DEF GetViodata, Record
    <2>3. QED
      BY <1>1, <1>4, <2>1, <2>2 DEF GetViodata, table, outside, count, TypeOK
  <1>5. CASE SkipPic \/ PutPic \/ PutPicRefused
    <2>1. Current \in Record /\ Picnum[Current] \in Nat
      BY <1>5, CurrentInBatch
         DEF SkipPic, PutPic, PutPicRefused, TypeOK, Record
    <2>2. j' \in 0 .. Picnum[Current']
      <3>1. Current' = Current
        BY <1>5 DEF SkipPic, PutPic, PutPicRefused, Current
      <3>2. j' = j + 1 /\ j < Picnum[Current] /\ pc = "put"
        BY <1>5 DEF SkipPic, PutPic, PutPicRefused
      <3>3. j \in 0 .. Picnum[Current]
        BY <3>2 DEF TypeOK
      <3>4. QED
        BY <2>1, <3>1, <3>2, <3>3
    <2>3. put' \subseteq Record \X (0 .. NSLOT - 1)
      BY <1>5, <2>1
         DEF SkipPic, PutPic, PutPicRefused, ImgPath, TypeOK, outside
    <2>4. faults' \in 0 .. MaxFaults /\ lapses' \in 0 .. faults'
      BY <1>5, FaultCounts
         DEF SkipPic, PutPic, PutPicRefused, outside, count
    <2>5. QED
      BY <1>1, <1>5, <2>2, <2>3, <2>4
         DEF SkipPic, PutPic, PutPicRefused, table, outside, TypeOK
  <1>6. CASE PutPicFails
    <2>1. faults' \in 0 .. MaxFaults /\ lapses' \in 0 .. faults'
      BY <1>6, FaultCounts DEF PutPicFails, count
    <2>2. QED
      BY <1>1, <1>2, <1>6, <2>1 DEF PutPicFails, table, outside, TypeOK
  <1>7. CASE SendXml
    <2>1. sent' \in [Record -> Nat]
      <3>1. Current \in Record => sent[Current] + 1 \in Nat
        BY DEF TypeOK
      <3>2. QED
        BY <1>7, <3>1 DEF SendXml, TypeOK
    <2>2. QED
      BY <1>1, <1>2, <1>7, <2>1 DEF SendXml, table, count, TypeOK
  <1>8. CASE SendXmlFails
    BY <1>1, <1>8, FS_EmptySet DEF SendXmlFails, table, outside, count, TypeOK
  <1>9. CASE Mark \/ MarkFails
    <2>1. upload' \in [Record -> {0, 1, 2}]
      BY <1>9 DEF Mark, MarkFails, table, TypeOK
    <2>2. faults' \in 0 .. MaxFaults /\ lapses' \in 0 .. faults'
      BY <1>9, FaultCounts DEF Mark, MarkFails, count
    <2>3. /\ vioList' \subseteq Record /\ Cardinality(vioList') <= LIMIT
          /\ pc' \in {"ftp", "put"} /\ j' = 0
          /\ pc' = "put" => vioList' # {} /\ i' \in 1 .. LIMIT
      BY <1>9, RestOfBatch DEF Mark, MarkFails, TypeOK
    <2>4. pc' = "put" => Picnum[Current'] \in Nat
      BY <1>9, RestOfBatch DEF Mark, MarkFails, Record
    <2>5. QED
      BY <1>1, <1>9, <2>1, <2>2, <2>3, <2>4
         DEF Mark, MarkFails, table, outside, TypeOK
  <1>10. CASE Affirm \/ \E r \in Record : Dispose(r)
    <2>1. affirmed' \in 0 .. N /\ disposed' \subseteq Record
      BY <1>10 DEF Affirm, Dispose, TypeOK
    <2>2. UNCHANGED <<loop, upload, outside, count>>
      BY <1>10 DEF Affirm, Dispose
    <2>3. QED
      BY <1>1, <1>2, <2>1, <2>2 DEF loop, outside, count, TypeOK
  <1>11. CASE TcpDrop \/ Crash
    <2>1. faults' \in 0 .. MaxFaults /\ lapses' \in 0 .. faults'
      BY <1>11, FaultCounts DEF TcpDrop, Crash
    <2>2. CASE TcpDrop
      BY <1>1, <1>2, <2>1, <2>2 DEF TcpDrop, loop, table, outside, TypeOK
    <2>3. CASE Crash
      <3>1. /\ vioList' \subseteq Record /\ Cardinality(vioList') <= LIMIT
        BY <2>3, FS_EmptySet DEF Crash
      <3>2. QED
        BY <1>1, <2>1, <2>3, <3>1 DEF Crash, table, outside, TypeOK
    <2>4. QED
      BY <1>11, <2>2, <2>3
  <1>12. CASE UNCHANGED vars
    BY <1>1, <1>2, <1>12 DEF vars, TypeOK
  <1>13. QED
    BY <1>3, <1>4, <1>5, <1>6, <1>7, <1>8, <1>9, <1>10, <1>11, <1>12
       DEF Next, Work

LEMMA NextInBatch ==
  ASSUME TypeOK, InBatch, [Next]_vars
  PROVE  InBatch'
  <1> USE SizeAssumption, PicnumAssumption
  <1>1. CASE UNCHANGED <<vioList, upload>>
    <2>1. Current' = Current
      BY <1>1 DEF Current
    <2>2. pc = "put" => Current \in Record /\ sent[Current] \in Nat
      BY CurrentInBatch DEF TypeOK
    <2>4. CASE ConnectFtp \/ ConnectTcp
      BY <2>1, <2>4
         DEF ConnectFtp, ConnectTcp, table, outside, InBatch
    <2>5. CASE SkipPic \/ PutPic \/ PutPicRefused \/ PutPicFails
      <3>1. pc = "put" /\ pc' \in {"put", "mark2"} /\ i' = i
        BY <2>5 DEF SkipPic, PutPic, PutPicRefused, PutPicFails
      <3>2. QED
        BY <1>1, <2>1, <3>1 DEF InBatch
    <2>6. CASE SendXml
      <3>1. sent'[Current] > 0
        BY <2>2, <2>6 DEF SendXml, TypeOK
      <3>2. QED
        BY <1>1, <2>1, <2>6, <3>1 DEF SendXml, InBatch
    <2>7. CASE UNCHANGED <<loop, sent>>
      BY <1>1, <2>1, <2>7 DEF loop, InBatch
    <2>8. CASE pc' = "ftp" /\ vioList' = {} /\ j' = 0
      BY <2>8 DEF InBatch
    <2>9. CASE GetViodata
      BY <1>1, <2>9, <2>8 DEF GetViodata, InBatch
    <2>10. CASE Mark \/ MarkFails
      <3>1. Current \in vioList /\ Current \notin vioList'
        BY <2>10, RestOfBatch DEF Mark, MarkFails
      <3>2. QED
        BY <1>1, <3>1
    <2>11. QED
      BY <2>4, <2>5, <2>6, <2>7, <2>8, <2>9, <2>10
         DEF Next, Work, Affirm, Dispose, TcpDrop, Crash, SendXmlFails, vars,
             loop, outside
  <1>2. CASE GetViodata
    <2>1. /\ vioList' \subseteq Record /\ Cardinality(vioList') <= LIMIT
          /\ \A r \in vioList' : upload'[r] = 0
      BY <1>2, BatchSize DEF GetViodata, table
    <2>2. Cardinality(vioList') \in Nat
      BY <2>1, RecordsFinite
    <2>3. QED
      BY <1>2, <2>1, <2>2 DEF GetViodata, InBatch
  <1>3. CASE SendXmlFails \/ Crash
    BY <1>3 DEF SendXmlFails, Crash, InBatch
  <1>4. CASE Mark \/ MarkFails
    <2>1. \A r \in vioList' : upload'[r] = 0
      BY <1>4, RestOfBatch DEF Mark, MarkFails, table, InBatch, TypeOK
    <2>2. QED
      BY <1>4, <2>1, RestOfBatch DEF Mark, MarkFails, InBatch
  <1>5. QED
    BY <1>1, <1>2, <1>3, <1>4
       DEF Next, Work, ConnectFtp, ConnectTcp, SkipPic, PutPic, PutPicRefused,
           PutPicFails, SendXml, Affirm, Dispose, TcpDrop, vars, loop, table

LEMMA NextUploadedMeansSent ==
  ASSUME TypeOK, InBatch, UploadedMeansSent, [Next]_vars
  PROVE  UploadedMeansSent'
  <1>1. CASE SendXml
    <2>1. \A r \in Record : sent'[r] >= sent[r]
      BY <1>1 DEF SendXml, TypeOK
    <2>2. QED
      BY <1>1, <2>1 DEF SendXml, table, UploadedMeansSent, TypeOK
  <1>2. CASE Mark
    BY <1>2 DEF Mark, outside, InBatch, UploadedMeansSent, TypeOK
  <1>3. CASE UNCHANGED <<upload, sent>>
    BY <1>3 DEF UploadedMeansSent
  <1>4. QED
    BY <1>1, <1>2, <1>3
       DEF Next, Work, ConnectFtp, ConnectTcp, GetViodata, SkipPic, PutPic,
           PutPicRefused, PutPicFails, SendXmlFails, MarkFails, Affirm,
           Dispose, TcpDrop, Crash, vars, table, outside

LEMMA PairsFinite ==
  /\ IsFiniteSet(Pairs) /\ Cardinality(Pairs) \in Nat
  /\ IsFiniteSet(Unmarked) /\ Cardinality(Unmarked) \in Nat
  <1>1. IsFiniteSet(2 .. MaxFaults + 2)
    BY FS_Interval, BoundAssumption
  <1>2. IsFiniteSet(Record \X (2 .. MaxFaults + 2))
    BY <1>1, RecordsFinite, FS_Product
  <1>3. Pairs \in SUBSET (Record \X (2 .. MaxFaults + 2))
    BY DEF Pairs
  <1>4. Unmarked \in SUBSET Record
    BY DEF Unmarked
  <1>5. QED
    BY <1>2, <1>3, <1>4, FS_Subset, FS_CardinalityType, RecordsFinite

LEMMA AddedElement ==
  ASSUME NEW S, NEW x, IsFiniteSet(S)
  PROVE  /\ IsFiniteSet(S \cup {x})
         /\ Cardinality(S \cup {x}) <= Cardinality(S) + 1
  <1>1. Cardinality(S) \in Nat
    BY FS_CardinalityType
  <1>2. /\ IsFiniteSet(S \cup {x})
        /\ Cardinality(S \cup {x}) =
             IF x \in S THEN Cardinality(S) ELSE Cardinality(S) + 1
    BY FS_AddElement
  <1>3. QED
    BY <1>1, <1>2

\* The XML goes out: the first time the record becomes one that a lapse may
\* have sent again, a further time a lapse has.
LEMMA SendPays ==
  ASSUME TypeOK, InBatch, LapsesPay, SendXml
  PROVE  LapsesPay'
  <1>1. Current \in vioList /\ Current \in Record /\ pc = "put"
    BY CurrentInBatch DEF SendXml, TypeOK
  <1>2. Current' = Current
    BY DEF SendXml, Current
  <1>3. upload[Current] = 0 /\ sent[Current] \in Nat
    BY <1>1 DEF InBatch, TypeOK
  <1>4. \A r \in Record :
          sent'[r] = IF r = Current THEN sent[r] + 1 ELSE sent[r]
    BY DEF SendXml, TypeOK
  <1>5. Unmarked' = Unmarked \ {Current}
    BY <1>1, <1>2, <1>4 DEF SendXml, table, Unmarked
  <1>6. Pairs' \subseteq Pairs \cup {<<Current, sent[Current] + 1>>}
    <2>1. ASSUME NEW p \in Pairs'
          PROVE  p \in Pairs \cup {<<Current, sent[Current] + 1>>}
      <3>1. /\ p \in Record \X (2 .. MaxFaults + 2) /\ p[2] <= sent'[p[1]]
        BY DEF Pairs
      <3>2. p[1] \in Record /\ p[2] \in Nat /\ p = <<p[1], p[2]>>
        BY <3>1, BoundAssumption
      <3>3. CASE p[1] # Current \/ p[2] <= sent[Current]
        BY <1>4, <3>1, <3>2, <3>3 DEF Pairs
      <3>4. CASE p[1] = Current /\ ~(p[2] <= sent[Current])
        <4>1. p[2] = sent[Current] + 1
          BY <1>3, <1>4, <3>1, <3>2, <3>4
        <4>2. QED
          BY <3>2, <3>4, <4>1
      <3>5. QED
        BY <3>3, <3>4
    <2>2. QED
      BY <2>1
  <1>7. lapses' = lapses /\ lapses \in Nat
    BY DEF SendXml, count, TypeOK
  <1>8. CASE sent[Current] = 0
    <2>1. Pairs' \subseteq Pairs
      BY <1>4, <1>8, BoundAssumption DEF Pairs
    <2>2. /\ Cardinality(Pairs') <= Cardinality(Pairs)
          /\ Cardinality(Pairs') \in Nat
      BY <2>1, PairsFinite, FS_Subset, FS_CardinalityType
    <2>3. /\ Cardinality(Unmarked') <= Cardinality(Unmarked)
          /\ Cardinality(Unmarked') \in Nat
      BY <1>5, PairsFinite, FS_Subset, FS_CardinalityType
    <2>4. QED
      BY <1>7, <2>2, <2>3, PairsFinite DEF LapsesPay
  <1>9. CASE sent[Current] > 0
    <2>1. Current \in Unmarked
      BY <1>1, <1>3, <1>9 DEF Unmarked
    <2>2. Cardinality(Unmarked') = Cardinality(Unmarked) - 1
      BY <1>5, <2>1, PairsFinite, FS_RemoveElement
    <2>3. /\ IsFiniteSet(Pairs \cup {<<Current, sent[Current] + 1>>})
          /\ Cardinality(Pairs \cup {<<Current, sent[Current] + 1>>})
               <= Cardinality(Pairs) + 1
      BY PairsFinite, AddedElement
    <2>4. /\ IsFiniteSet(Pairs')
          /\ Cardinality(Pairs')
               <= Cardinality(Pairs \cup {<<Current, sent[Current] + 1>>})
      BY <1>6, <2>3, FS_Subset
    <2>5. /\ Cardinality(Pairs') \in Nat
          /\ Cardinality(Pairs \cup {<<Current, sent[Current] + 1>>}) \in Nat
      BY <2>3, <2>4, FS_CardinalityType
    <2>6. QED
      BY <1>7, <2>2, <2>3, <2>4, <2>5, PairsFinite DEF LapsesPay
  <1>10. QED
    BY <1>3, <1>8, <1>9

\* A mark that is lost leaves one unmarked record.
LEMMA LapsePays ==
  ASSUME TypeOK, InBatch, LapsesPay, MarkFails \/ Crash
  PROVE  LapsesPay'
  <1>1. lapses' = lapses + 1 /\ lapses \in Nat
    BY DEF MarkFails, Crash, TypeOK
  <1>2. Pairs' = Pairs
    BY DEF MarkFails, Crash, outside, Pairs
  <1>3. Unmarked' \subseteq Unmarked \cup {Current}
    BY DEF MarkFails, Crash, Continue, table, outside, Unmarked
  <1>4. /\ IsFiniteSet(Unmarked \cup {Current})
        /\ Cardinality(Unmarked \cup {Current}) <= Cardinality(Unmarked) + 1
    BY PairsFinite, AddedElement
  <1>5. /\ IsFiniteSet(Unmarked')
        /\ Cardinality(Unmarked') <= Cardinality(Unmarked \cup {Current})
    BY <1>3, <1>4, FS_Subset
  <1>6. /\ Cardinality(Unmarked') \in Nat
        /\ Cardinality(Unmarked \cup {Current}) \in Nat
    BY <1>4, <1>5, FS_CardinalityType
  <1>7. QED
    BY <1>1, <1>2, <1>4, <1>5, <1>6, PairsFinite DEF LapsesPay

LEMMA NextLapsesPay ==
  ASSUME TypeOK, InBatch, LapsesPay, [Next]_vars
  PROVE  LapsesPay'
  <1>1. CASE SendXml
    BY <1>1, SendPays
  <1>2. CASE MarkFails \/ Crash
    BY <1>2, LapsePays
  <1>3. CASE ~SendXml /\ ~MarkFails /\ ~Crash
    <2>1. lapses' = lapses /\ sent' = sent
      BY <1>3 DEF Next, Work, ConnectFtp, ConnectTcp, GetViodata, SkipPic,
                  PutPic, PutPicRefused, PutPicFails, SendXmlFails, Mark,
                  Affirm, Dispose, TcpDrop, vars, outside, count
    <2>2. Unmarked' \subseteq Unmarked
      <3>1. CASE Mark
        <4>1. Current \in Record
          BY <3>1, RestOfBatch DEF Mark
        <4>2. \A r \in Record : upload'[r] = 0 => r # Current /\ upload[r] = 0
          BY <3>1, <4>1 DEF Mark, TypeOK
        <4>3. QED
          BY <2>1, <4>2 DEF Unmarked
      <3>2. CASE /\ upload' = upload
                 /\ pc = "mark1" => pc' = "mark1" /\ vioList' = vioList
        BY <2>1, <3>2 DEF Unmarked, Current
      <3>3. QED
        BY <1>3, <3>1, <3>2
           DEF Next, Work, ConnectFtp, ConnectTcp, GetViodata, SkipPic,
               PutPic, PutPicRefused, PutPicFails, SendXmlFails, Affirm,
               Dispose, TcpDrop, vars, table, loop
    <2>3. Pairs' = Pairs
      BY <2>1 DEF Pairs
    <2>4. /\ Cardinality(Unmarked') <= Cardinality(Unmarked)
          /\ Cardinality(Unmarked') \in Nat
      BY <2>2, PairsFinite, FS_Subset, FS_CardinalityType
    <2>5. QED
      BY <2>1, <2>3, <2>4, PairsFinite DEF LapsesPay, TypeOK
  <1>4. QED
    BY <1>1, <1>2, <1>3

LEMMA NextUploadIInv == UploadIInv /\ [Next]_vars => UploadIInv'
  BY NextTypeOK, NextInBatch, NextUploadedMeansSent, NextLapsesPay
     DEF UploadIInv

LEMMA UploadInvariance == Spec => []UploadIInv
  BY InitUploadIInv, NextUploadIInv, PTL DEF Spec

\* The loop's indexes and lists and the columns keep to their ranges, for
\* every number of records and every LIMIT: a batch has LIMIT rows at most,
\* and i counts within it.
THEOREM UploadTypeCorrect == Spec => []TypeOK
  <1>1. UploadIInv => TypeOK
    BY DEF UploadIInv
  <1>2. QED
    BY <1>1, UploadInvariance, PTL

\* Whatever fails, and wherever the loop is cut short, no record is marked
\* uploaded whose XML did not go out.
THEOREM MarkedAfterSending == Spec => []UploadedMeansSent
  <1>1. UploadIInv => UploadedMeansSent
    BY DEF UploadIInv
  <1>2. QED
    BY <1>1, UploadInvariance, PTL

\* The centre receives a record again at most once for every lost mark: lost
\* connections and dropped batches alone never make the loop resend.
THEOREM LapsesBoundResends == Spec => []ResentOnlyAfterLapse
  <1>1. ASSUME UploadIInv
        PROVE  ResentOnlyAfterLapse
    <2>1. Cardinality(Pairs) + Cardinality(Unmarked) <= lapses
      BY <1>1 DEF UploadIInv, LapsesPay
    <2>2. lapses \in Nat
      BY <1>1 DEF UploadIInv, TypeOK
    <2>3. QED
      BY <2>1, <2>2, PairsFinite DEF ResentOnlyAfterLapse
  <1>2. QED
    BY <1>1, UploadInvariance, PTL

\* A record that is marked, uploaded or given up, keeps its mark and is not
\* sent any more, though the loop works on rows it selected a while ago.
MarkIsFinal ==
  [][\A r \in Record :
       upload[r] # 0 => upload'[r] = upload[r] /\ sent'[r] = sent[r]]_vars

\* MarkIsFinal holds for every number of records, of batches and of crashes:
\* nobody but the loop marks, so what it selected stays unmarked (InBatch).
THEOREM MarkedIsLeftAlone == Spec => MarkIsFinal
  <1>1. ASSUME UploadIInv, [Next]_vars, NEW r \in Record, upload[r] # 0
        PROVE  upload'[r] = upload[r] /\ sent'[r] = sent[r]
    <2>1. /\ r \notin vioList
          /\ upload \in [Record -> {0, 1, 2}] /\ sent \in [Record -> Nat]
      BY <1>1 DEF UploadIInv, InBatch, TypeOK
    <2>2. CASE Mark
      <3>1. Current \in vioList
        BY <1>1, <2>2, CurrentInBatch DEF Mark, UploadIInv, TypeOK
      <3>2. QED
        BY <2>1, <2>2, <3>1 DEF Mark, outside
    <2>3. CASE SendXml
      <3>1. Current \in vioList
        BY <1>1, <2>3, CurrentInBatch DEF SendXml, UploadIInv, TypeOK
      <3>2. QED
        BY <2>1, <2>3, <3>1 DEF SendXml, table
    <2>4. CASE UNCHANGED <<upload, sent>>
      BY <2>4
    <2>5. QED
      BY <1>1, <2>2, <2>3, <2>4
         DEF Next, Work, ConnectFtp, ConnectTcp, GetViodata, SkipPic, PutPic,
             PutPicRefused, PutPicFails, SendXmlFails, MarkFails, Affirm,
             Dispose, TcpDrop, Crash, vars, table, outside
  <1>2. UploadIInv /\ [Next]_vars =>
          [\A r \in Record :
             upload[r] # 0 =>
               upload'[r] = upload[r] /\ sent'[r] = sent[r]]_vars
    BY <1>1
  <1>3. QED
    BY <1>2, UploadInvariance, PTL DEF Spec, MarkIsFinal

\* Where a record is in the Outbox.
Phase(r) ==
  IF upload[r] # 0 THEN "marked"
  ELSE IF pc = "mark1" /\ r = Current THEN "sent" ELSE "waiting"

LEMMA InitOutbox == Init => Box!Init
  BY DEF Init, Box!Init

\* A step of one record, or of none, is a step of the Outbox.
LEMMA OutboxStep ==
  ASSUME TypeOK',
         \A r \in Record :
           \/ /\ Phase(r) = "waiting" /\ Phase(r)' = "sent"
              /\ sent'[r] = sent[r] + 1
           \/ /\ sent'[r] = sent[r]
              /\ \/ Phase(r)' = Phase(r)
                 \/ Phase(r) = "sent" /\ Phase(r)' \in {"marked", "waiting"}
                 \/ Phase(r) = "waiting" /\ Phase(r)' = "marked"
  PROVE  Box!Next
  <1> DEFINE S == [r \in Record |-> Phase(r)]
  <1>1. S' \in [Record -> {"waiting", "sent", "marked"}]
    BY DEF Phase
  <1>2. sent' \in [Record -> Nat]
    BY DEF TypeOK
  <1>3. \A r \in Record : S[r] = Phase(r) /\ S'[r] = Phase(r)'
    OBVIOUS
  <1>4. ASSUME NEW r \in Record
        PROVE  Box!Deliver(r) \/ Box!Move(r) \/ Box!Rest(r)
    BY <1>3 DEF Box!Deliver, Box!Move, Box!Rest, Phase
  <1>5. QED
    BY <1>1, <1>2, <1>4 DEF Box!Next, Phase

LEMMA NextOutbox ==
  ASSUME UploadIInv, UploadIInv', [Next]_vars
  PROVE  [Box!Next]_(Box!ovars)
  <1>1. TypeOK /\ TypeOK' /\ InBatch
    BY DEF UploadIInv
  <1>2. CASE SendXml
    <2>1. Current \in vioList /\ Current \in Record /\ Current' = Current
      BY <1>1, <1>2, CurrentInBatch DEF SendXml, TypeOK, Current
    <2>2. upload[Current] = 0
      BY <1>1, <2>1 DEF InBatch
    <2>3. \A r \in Record :
            sent'[r] = IF r = Current THEN sent[r] + 1 ELSE sent[r]
      BY <1>1, <1>2 DEF SendXml, TypeOK
    <2>4. Box!Next
      BY <1>1, <1>2, <2>1, <2>2, <2>3, OutboxStep DEF SendXml, table, Phase
    <2>5. QED
      BY <2>4
  <1>3. CASE Mark
    <2>1. Current \in vioList /\ Current \in Record /\ pc' # "mark1"
      BY <1>1, <1>3, RestOfBatch DEF Mark
    <2>2. upload[Current] = 0 /\ upload'[Current] # 0
      BY <1>1, <1>3, <2>1 DEF Mark, InBatch, TypeOK
    <2>3. \A r \in Record : r # Current => upload'[r] = upload[r]
      BY <1>1, <1>3 DEF Mark, TypeOK
    <2>4. Box!Next
      BY <1>1, <1>3, <2>1, <2>2, <2>3, OutboxStep DEF Mark, outside, Phase
    <2>5. QED
      BY <2>4
  <1>4. CASE UNCHANGED <<upload, sent>> /\ pc' # "mark1"
    BY <1>1, <1>4, OutboxStep DEF Phase
  <1>5. CASE UNCHANGED <<upload, sent, pc, vioList>>
    BY <1>5 DEF Box!ovars, Current
  <1>6. QED
    BY <1>2, <1>3, <1>4, <1>5
       DEF Next, Work, ConnectFtp, ConnectTcp, GetViodata, SkipPic, PutPic,
           PutPicRefused, PutPicFails, SendXmlFails, MarkFails, Continue,
           Affirm, Dispose, TcpDrop, Crash, vars, loop, table, outside

\* DataTransfer implements the Outbox: a record goes out again only when its
\* own mark was lost between sending and UPDATE, and nothing that happens to
\* the rest of its batch makes it do so.
THEOREM UploadIsOutbox == Spec => UploadOutbox
  <1>1. UploadIInv /\ UploadIInv' /\ [Next]_vars => [Box!Next]_(Box!ovars)
    BY NextOutbox
  <1>2. QED
    BY <1>1, InitOutbox, UploadInvariance, PTL
       DEF Spec, UploadOutbox, Box!Spec

-----------------------------------------------------------------------------
(* The positions.                                                          *)

\* What a pass has in hand: no row of it is marked before the last was sent,
\* and a point on idList is not either, unless an UPDATE met it by mistake.
Pass ==
  /\ rows # {} => gpc = "send"
  /\ idList # {} => gpc \in {"send", "mark"}
  /\ \A p \in rows : p \notin idList /\ sends[p] < MaxSent
  /\ \A p \in rows : upflag[p] = 0
  /\ \A p \in idList \ lapsed : upflag[p] = 0

SentOnce(p) == sends[p] = upflag[p] + (IF p \in idList THEN 1 ELSE 0)

GpsIInv == GpsTypeOK /\ Pass /\ UpflagCountsSends

USE PointAssumption DEF Point

LEMMA InitGpsIInv == GpsInit => GpsIInv
  <1>1. ASSUME GpsInit
        PROVE  GpsTypeOK
    <2>1. IsConnect = 0 /\ gpc \in {"window", "mark"}
      BY <1>1 DEF GpsInit
    <2>2. link \in BOOLEAN
      BY <1>1 DEF GpsInit
    <2>3. /\ stored \subseteq Point /\ rows \subseteq stored
          /\ idList \subseteq stored /\ lapsed \subseteq stored
      BY <1>1 DEF GpsInit
    <2>4. /\ upflag \in [Point -> 0..1] /\ old \in 0..NPoint
          /\ since \in 0..old /\ sends \in [Point -> 0..MaxSent]
      BY <1>1 DEF GpsInit
    <2>5. QED
      BY <2>1, <2>2, <2>3, <2>4 DEF GpsTypeOK
  <1>2. GpsInit => Pass
    BY DEF GpsInit, Pass
  <1>3. GpsInit => UpflagCountsSends
    BY DEF GpsInit, UpflagCountsSends
  <1>4. QED
    BY <1>1, <1>2, <1>3 DEF GpsIInv

\* What happens outside of DataSendThread.
LEMMA OutsideKeep ==
  ASSUME GpsIInv,
         \/ \E p \in Point : InserGPSData(p)
         \/ Age \/ Break \/ UNCHANGED gpsVars
  PROVE  GpsIInv'
  <1>1. CASE \E p \in Point : InserGPSData(p)
    BY <1>1 DEF InserGPSData, thread, GpsIInv, GpsTypeOK, Pass,
        UpflagCountsSends
  <1>2. CASE Age
    BY <1>2 DEF Age, thread, GpsIInv, GpsTypeOK, Pass,
        UpflagCountsSends
  <1>3. CASE Break
    BY <1>3 DEF Break, gpsTable, thread, GpsIInv, GpsTypeOK, Pass,
        UpflagCountsSends
  <1>4. CASE UNCHANGED gpsVars
    BY <1>4 DEF gpsVars, gpsTable, thread, GpsIInv, GpsTypeOK, Pass,
        UpflagCountsSends
  <1>5. QED
    BY <1>1, <1>2, <1>3, <1>4

\* A pass begins.
LEMMA BeginKeep ==
  ASSUME GpsIInv, Window \/ ConnectServer \/ Select
  PROVE  GpsIInv'
  <1>1. CASE Window
    BY <1>1 DEF Window, gpsTable, GpsIInv, GpsTypeOK, Pass,
        UpflagCountsSends
  <1>2. CASE ConnectServer
    BY <1>2 DEF ConnectServer, gpsTable, GpsIInv, GpsTypeOK, Pass,
        UpflagCountsSends
  <1>3. CASE Select
    BY <1>3 DEF Select, gpsTable, GpsIInv, GpsTypeOK, Pass,
        UpflagCountsSends
  <1>4. QED
    BY <1>1, <1>2, <1>3

\* A row is sent and comes on idList.
LEMMA SendKeep ==
  ASSUME GpsIInv, Send
  PROVE  GpsIInv'
  <1>1. PICK p \in rows : /\ sends' = [sends EXCEPT ![p] = @ + 1]
                          /\ idList' = idList \cup {p}
                          /\ rows' = rows \ {p}
    BY DEF Send
  <1>2. p \in Point /\ sends[p] < MaxSent /\ p \notin idList
    BY <1>1 DEF GpsIInv, GpsTypeOK, Pass
  <1>3. \A q \in Point : sends'[q] = IF q = p THEN sends[p] + 1 ELSE sends[q]
    BY <1>1, <1>2 DEF GpsIInv, GpsTypeOK
  <1>4. /\ gpc = "send" /\ UNCHANGED <<stored, upflag, old, gpc, since>>
        /\ UNCHANGED <<IsConnect, link, lapsed>>
    BY DEF Send, gpsTable
  <1>5. GpsTypeOK'
    <2>1. sends[p] + 1 \in 0..MaxSent
      BY <1>2 DEF GpsIInv, GpsTypeOK
    <2>2. sends' \in [Point -> 0..MaxSent]
      BY <1>1, <1>2, <2>1 DEF GpsIInv, GpsTypeOK
    <2>3. QED
      BY <1>1, <1>2, <1>4, <2>2 DEF GpsIInv, GpsTypeOK
  <1>6. Pass'
    BY <1>1, <1>2, <1>3, <1>4 DEF GpsIInv, GpsTypeOK, Pass
  <1>7. UpflagCountsSends'
    <2>1. ASSUME NEW q \in Point \ lapsed
          PROVE  SentOnce(q)'
      <3>1. sends[q] = upflag[q] + (IF q \in idList THEN 1 ELSE 0)
        BY DEF GpsIInv, UpflagCountsSends
      <3>2. upflag[p] \in 0..1
        BY <1>2 DEF GpsIInv, GpsTypeOK
      <3>3. QED
        BY <1>1, <1>2, <1>3, <1>4, <3>1, <3>2 DEF SentOnce
    <2>2. QED
      BY <1>4, <2>1 DEF UpflagCountsSends, SentOnce
  <1>8. QED
    BY <1>5, <1>6, <1>7 DEF GpsIInv

\* The rows are left, and the marking begins; it ends when idList is empty.
LEMMA EndKeep ==
  ASSUME GpsIInv, SendFails \/ AllSent \/ Done
  PROVE  GpsIInv'
  <1>1. CASE SendFails
    <2>1. GpsTypeOK'
      <3>1. IsConnect' = 0 /\ gpc' \in {"window", "mark"}
        BY <1>1 DEF SendFails
      <3>2. link' \in BOOLEAN
        BY <1>1 DEF SendFails
      <3>3. /\ stored' \subseteq Point /\ rows' \subseteq stored'
            /\ idList' \subseteq stored' /\ lapsed' \subseteq stored'
        BY <1>1 DEF SendFails, gpsTable, GpsIInv, GpsTypeOK
      <3>4. /\ upflag' \in [Point -> 0..1] /\ old' \in 0..NPoint
            /\ since' \in 0..old' /\ sends' \in [Point -> 0..MaxSent]
        BY <1>1 DEF SendFails, gpsTable, GpsIInv, GpsTypeOK
      <3>5. QED
        BY <3>1, <3>2, <3>3, <3>4 DEF GpsTypeOK
    <2>2. Pass'
      BY <1>1 DEF SendFails, gpsTable, GpsIInv, Pass
    <2>3. UpflagCountsSends'
      BY <1>1 DEF SendFails, gpsTable, GpsIInv, Pass, UpflagCountsSends
    <2>4. QED
      BY <2>1, <2>2, <2>3 DEF GpsIInv
  <1>2. CASE AllSent
    BY <1>2 DEF AllSent, gpsTable, GpsIInv, GpsTypeOK, Pass,
        UpflagCountsSends
  <1>3. CASE Done
    BY <1>3 DEF Done, gpsTable, GpsIInv, GpsTypeOK, Pass,
        UpflagCountsSends
  <1>4. QED
    BY <1>1, <1>2, <1>3

\* The UPDATE of a row.
LEMMA MarkKeep ==
  ASSUME GpsIInv, NEW p \in Point, MarkPoint(p)
  PROVE  GpsIInv'
  <1>1. p \in idList /\ gpc = "mark" /\ idList' = idList \ {p}
    BY DEF MarkPoint
  <1>2. \A q \in Point : upflag'[q] = IF q = p THEN 1 ELSE upflag[q]
    BY DEF MarkPoint, GpsIInv, GpsTypeOK
  <1>3. GpsTypeOK'
    BY DEF MarkPoint, GpsIInv, GpsTypeOK
  <1>4. Pass'
    BY <1>1, <1>2 DEF MarkPoint, GpsIInv, GpsTypeOK, Pass
  <1>5. UpflagCountsSends'
    BY <1>1, <1>2 DEF MarkPoint, GpsIInv, GpsTypeOK, Pass,
        UpflagCountsSends
  <1>6. QED
    BY <1>3, <1>4, <1>5 DEF GpsIInv

\* The UPDATE fails, or marks another row.
LEMMA LapseKeep ==
  ASSUME GpsIInv, NEW p \in Point,
         MarkPointFails(p) \/ \E q \in Point : MarkAnother(p, q)
  PROVE  GpsIInv'
  <1>1. CASE MarkPointFails(p)
    BY <1>1 DEF MarkPointFails, gpsTable, GpsIInv, GpsTypeOK, Pass,
        UpflagCountsSends
  <1>2. ASSUME NEW q \in Point, MarkAnother(p, q)
        PROVE  GpsIInv'
    <2>1. \A r \in Point : upflag'[r] = IF r = q THEN 1 ELSE upflag[r]
      BY <1>2 DEF MarkAnother, GpsIInv, GpsTypeOK
    <2>2. GpsTypeOK'
      BY <1>2 DEF MarkAnother, GpsIInv, GpsTypeOK
    <2>3. Pass'
      BY <1>2, <2>1 DEF MarkAnother, GpsIInv, GpsTypeOK, Pass
    <2>4. UpflagCountsSends'
      BY <1>2, <2>1 DEF MarkAnother, GpsIInv, UpflagCountsSends
    <2>5. QED
      BY <2>2, <2>3, <2>4 DEF GpsIInv
  <1>3. QED
    BY <1>1, <1>2

LEMMA RestartKeep ==
  ASSUME GpsIInv, Restart
  PROVE  GpsIInv'
  <1>1. GpsTypeOK'
    <2>1. IsConnect' = 0 /\ gpc' \in {"window", "mark"}
      BY DEF Restart
    <2>2. link' \in BOOLEAN
      BY DEF Restart
    <2>3. /\ stored' \subseteq Point /\ rows' \subseteq stored'
          /\ idList' \subseteq stored' /\ lapsed' \subseteq stored'
      BY DEF Restart, gpsTable, GpsIInv, GpsTypeOK
    <2>4. /\ upflag' \in [Point -> 0..1] /\ old' \in 0..NPoint
          /\ since' \in 0..old' /\ sends' \in [Point -> 0..MaxSent]
      BY DEF Restart, gpsTable, GpsIInv, GpsTypeOK
    <2>5. QED
      BY <2>1, <2>2, <2>3, <2>4 DEF GpsTypeOK
  <1>2. Pass'
    BY DEF Restart, gpsTable, GpsIInv, Pass
  <1>3. UpflagCountsSends'
    BY DEF Restart, gpsTable, GpsIInv, Pass, UpflagCountsSends
  <1>4. QED
    BY <1>1, <1>2, <1>3 DEF GpsIInv

LEMMA NextGpsIInv == GpsIInv /\ [GpsNext]_gpsVars => GpsIInv'
  <1>1. ASSUME GpsIInv, DataSendThread
        PROVE  GpsIInv'
    BY <1>1, BeginKeep, SendKeep, EndKeep, MarkKeep, LapseKeep
       DEF DataSendThread
  <1>2. QED
    BY <1>1, OutsideKeep, RestartKeep DEF GpsNext

LEMMA GpsInvariance == GpsSpec => []GpsIInv
  BY InitGpsIInv, NextGpsIInv, PTL DEF GpsSpec

\* The columns and DataSendThread's lists keep to their ranges, and rows are
\* sent only while the thread believes in its connection.
THEOREM GpsTypeCorrect == GpsSpec => []GpsTypeOK
  <1>1. GpsIInv => GpsTypeOK
    BY DEF GpsIInv
  <1>2. QED
    BY <1>1, GpsInvariance, PTL

\* However passes are cut short and begun again, a point goes out once for
\* its upflag, for every number of points; the exceptions are those whose
\* UPDATE did not happen or met another row.
THEOREM SentOncePerMark == GpsSpec => []UpflagCountsSends
  <1>1. GpsIInv => UpflagCountsSends
    BY DEF GpsIInv
  <1>2. QED
    BY <1>1, GpsInvariance, PTL

\* Where a point is in the Outbox.
Stage(p) ==
  IF upflag[p] = 1 THEN "marked"
  ELSE IF p \in idList THEN "sent" ELSE "waiting"

LEMMA InitGpsOutbox == GpsInit => GpsBox!Init
  BY DEF GpsInit, GpsBox!Init

LEMMA GpsOutboxStep ==
  ASSUME GpsTypeOK',
         \A p \in Point :
           \/ /\ Stage(p) = "waiting" /\ Stage(p)' = "sent"
              /\ sends'[p] = sends[p] + 1
           \/ /\ sends'[p] = sends[p]
              /\ \/ Stage(p)' = Stage(p)
                 \/ Stage(p) = "sent" /\ Stage(p)' \in {"marked", "waiting"}
                 \/ Stage(p) = "waiting" /\ Stage(p)' = "marked"
  PROVE  GpsBox!Next
  <1> DEFINE S == [p \in Point |-> Stage(p)]
  <1>1. S' \in [Point -> {"waiting", "sent", "marked"}]
    BY DEF Stage
  <1>2. sends' \in [Point -> Nat]
    BY DEF GpsTypeOK
  <1>3. \A p \in Point : S[p] = Stage(p) /\ S'[p] = Stage(p)'
    OBVIOUS
  <1>4. ASSUME NEW p \in Point
        PROVE  GpsBox!Deliver(p) \/ GpsBox!Move(p) \/ GpsBox!Rest(p)
    BY <1>3 DEF GpsBox!Deliver, GpsBox!Move, GpsBox!Rest, Stage
  <1>5. QED
    BY <1>1, <1>2, <1>4 DEF GpsBox!Next, Stage

LEMMA NextGpsOutbox ==
  ASSUME GpsIInv, GpsIInv', [GpsNext]_gpsVars
  PROVE  [GpsBox!Next]_(GpsBox!ovars)
  <1>1. GpsTypeOK /\ GpsTypeOK' /\ Pass
    BY DEF GpsIInv
  <1>2. CASE Send
    <2>1. PICK p \in rows : /\ sends' = [sends EXCEPT ![p] = @ + 1]
                            /\ idList' = idList \cup {p}
      BY <1>2 DEF Send
    <2>2. p \in Point /\ upflag[p] = 0 /\ p \notin idList
      BY <1>1, <2>1 DEF GpsTypeOK, Pass
    <2>3. \A q \in Point :
            sends'[q] = IF q = p THEN sends[q] + 1 ELSE sends[q]
      BY <1>1, <2>1 DEF GpsTypeOK
    <2>4. GpsBox!Next
      BY <1>1, <1>2, <2>1, <2>2, <2>3, GpsOutboxStep DEF Send, gpsTable, Stage
    <2>5. QED
      BY <2>4
  <1>3. CASE sends' = sends /\ upflag' = upflag /\ idList' \subseteq idList
    BY <1>1, <1>3, GpsOutboxStep DEF Stage
  <1>4. ASSUME NEW p \in Point, NEW q \in Point,
               MarkPoint(q) \/ MarkAnother(p, q)
        PROVE  GpsBox!Next
    <2>1. /\ sends' = sends /\ idList' \subseteq idList
          /\ \A r \in Point : upflag'[r] = IF r = q THEN 1 ELSE upflag[r]
      BY <1>1, <1>4 DEF MarkPoint, MarkAnother, GpsTypeOK
    <2>2. QED
      BY <1>1, <2>1, GpsOutboxStep DEF Stage
  <1>5. CASE UNCHANGED <<sends, upflag, idList>>
    BY <1>5 DEF GpsBox!ovars
  <1>6. QED
    BY <1>2, <1>3, <1>4, <1>5
       DEF GpsNext, DataSendThread, InserGPSData, Age, Break, Window,
           ConnectServer, Select, SendFails, AllSent, MarkPoint,
           MarkPointFails, Done, Restart, gpsVars, gpsTable, thread

\* So does DataSendThread: a position goes out again only when its UPDATE did
\* not happen, whatever other row an UPDATE may meet.
THEOREM ForwarderIsOutbox == GpsSpec => GpsOutbox
  <1>1. /\ GpsIInv /\ GpsIInv' /\ [GpsNext]_gpsVars
        => [GpsBox!Next]_(GpsBox!ovars)
    BY NextGpsOutbox
  <1>2. QED
    BY <1>1, InitGpsOutbox, GpsInvariance, PTL
       DEF GpsSpec, GpsOutbox, GpsBox!Spec
=============================================================================
