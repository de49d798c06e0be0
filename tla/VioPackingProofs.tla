------------------------- MODULE VioPackingProofs -------------------------
(***************************************************************************)
(* What holds of the packages for any number of records, packages and      *)
(* users.                                                                  *)
(*                                                                         *)
(* The three properties need to know what a package's thread has at each   *)
(* of its positions: no records before its SELECT (Early), records that    *)
(* are marked behind its UPDATE (Marked), and names that its requester's   *)
(* group has (Requester).                                                  *)
(***************************************************************************)
EXTENDS VioPacking, TLAPS

Early ==
  \A k \in Pack : pc[k] \in {"idle", "names", "select"} =>
    file[k] = "none" /\ idList[k] = {}

Marked ==
  \A k \in Pack \ unmarked : pc[k] \in {"zip", "done"} =>
    \A v \in idList[k] : download[v] = 1

Requester ==
  \A k \in Pack \ mixed :
    /\ pc[k] = "names" => username = user[k]
    /\ pc[k] = "select" => names[k] \subseteq Visible[user[k]]

IInv ==
  /\ TypeOK
  /\ Early /\ Marked /\ Requester
  /\ DownloadedIsPacked /\ PackedTwiceOnlyBeside /\ PackedForRequester

USE UserAssumption

LEMMA InitIInv == Init => IInv
  <1>1. Init => TypeOK
    BY DEF Init, TypeOK
  <1>2. Init => Early /\ Marked /\ Requester
    BY DEF Init, Early, Marked, Requester
  <1>3. Init => DownloadedIsPacked
    BY DEF Init, DownloadedIsPacked
  <1>4. Init => PackedTwiceOnlyBeside /\ PackedForRequester
    BY DEF Init, PackedTwiceOnlyBeside, PackedForRequester
  <1>5. QED
    BY <1>1, <1>2, <1>3, <1>4 DEF IInv

\* A handler that leaves the packages alone.
LEMMA RecordKeep ==
  ASSUME IInv, NEW u \in User,
         \/ OtherRequest(u)
         \/ \E v \in Vio, a \in 0..2 :
              insertViodata(u, v, a) \/ affirmVioData(u, v, a)
  PROVE  IInv'
  <1>2. TypeOK'
    BY DEF OtherRequest, insertViodata, affirmVioData, CheckUsername, record,
         thread, history, IInv, TypeOK
  <1>3. Early'
    BY DEF OtherRequest, insertViodata, affirmVioData, CheckUsername, record,
         thread, history, IInv, TypeOK, Early
  <1>4. Marked'
    BY DEF OtherRequest, insertViodata, affirmVioData, CheckUsername, record,
         thread, history, IInv, TypeOK, Marked
  <1>5. Requester'
    BY DEF OtherRequest, insertViodata, affirmVioData, CheckUsername, record,
         thread, history, IInv, TypeOK, Requester
  <1>6. DownloadedIsPacked'
    BY DEF OtherRequest, insertViodata, affirmVioData, CheckUsername, record,
         thread, history, IInv, TypeOK, Early, DownloadedIsPacked, OnHand
  <1>7. PackedTwiceOnlyBeside'
    BY DEF OtherRequest, insertViodata, affirmVioData, CheckUsername, record,
         thread, history, IInv, TypeOK, Early, Marked, PackedTwiceOnlyBeside
  <1>8. PackedForRequester'
    BY DEF OtherRequest, insertViodata, affirmVioData, CheckUsername, record,
         thread, history, IInv, TypeOK, Early, Requester, PackedForRequester
  <1>9. QED
    BY <1>2, <1>3, <1>4, <1>5, <1>6, <1>7, <1>8 DEF IInv

\* A package is asked for.
LEMMA StartKeep ==
  ASSUME IInv, NEW u \in User, NEW k \in Pack, NEW f \in BOOLEAN,
         packAffirmData(u, k, f)
  PROVE  IInv'
  <1>1. /\ pc'[k] = "names"
        /\ user'[k] = u
        /\ fresh'[k] = f
        /\ \A j \in Pack : j # k =>
             pc'[j] = pc[j] /\ user'[j] = user[j] /\ fresh'[j] = fresh[j]
    BY DEF packAffirmData, CheckUsername, record, thread, history, IInv,
         TypeOK
  <1>2. TypeOK'
    BY DEF packAffirmData, CheckUsername, record, thread, history, IInv,
         TypeOK
  <1>3. Early'
    BY <1>1 DEF packAffirmData, CheckUsername, record, thread, history, IInv,
         TypeOK, Early
  <1>4. Marked'
    BY <1>1 DEF packAffirmData, CheckUsername, record, thread, history, IInv,
         TypeOK, Marked
  <1>5. Requester'
    BY <1>1 DEF packAffirmData, CheckUsername, record, thread, history, IInv,
         TypeOK, Requester
  <1>6. DownloadedIsPacked'
    BY <1>1 DEF packAffirmData, CheckUsername, record, thread, history, IInv,
         TypeOK, Early, DownloadedIsPacked, OnHand
  <1>7. PackedTwiceOnlyBeside'
    BY <1>1 DEF packAffirmData, CheckUsername, record, thread, history, IInv,
         TypeOK, Early, Marked, PackedTwiceOnlyBeside
  <1>8. PackedForRequester'
    BY <1>1 DEF packAffirmData, CheckUsername, record, thread, history, IInv,
         TypeOK, Early, Requester, PackedForRequester
  <1>9. QED
    BY <1>2, <1>3, <1>4, <1>5, <1>6, <1>7, <1>8 DEF IInv

\* A package is deleted.
LEMMA DeleteKeep ==
  ASSUME IInv, NEW u \in User, NEW k \in Pack, deletePack(u, k)
  PROVE  IInv'
  <1>1. /\ file'[k] = "deleted"
        /\ \A j \in Pack : j # k => file'[j] = file[j]
    BY DEF deletePack, CheckUsername, record, thread, history, IInv, TypeOK
  <1>2. TypeOK'
    BY DEF deletePack, CheckUsername, record, thread, history, IInv, TypeOK
  <1>3. Early'
    BY <1>1 DEF deletePack, CheckUsername, record, thread, history, IInv,
         TypeOK, Early
  <1>4. Marked'
    BY <1>1 DEF deletePack, CheckUsername, record, thread, history, IInv,
         TypeOK, Marked
  <1>5. Requester'
    BY <1>1 DEF deletePack, CheckUsername, record, thread, history, IInv,
         TypeOK, Requester
  <1>6. DownloadedIsPacked'
    BY <1>1 DEF deletePack, CheckUsername, record, thread, history, IInv,
         TypeOK, Early, DownloadedIsPacked, OnHand
  <1>7. PackedTwiceOnlyBeside'
    BY <1>1 DEF deletePack, CheckUsername, record, thread, history, IInv,
         TypeOK, Early, Marked, PackedTwiceOnlyBeside
  <1>8. PackedForRequester'
    BY <1>1 DEF deletePack, CheckUsername, record, thread, history, IInv,
         TypeOK, Early, Requester, PackedForRequester
  <1>9. QED
    BY <1>2, <1>3, <1>4, <1>5, <1>6, <1>7, <1>8 DEF IInv

\* GetNameList.
LEMMA NamesKeep ==
  ASSUME IInv, NEW k \in Pack, GetNameList(k) \/ GetNameListFails(k)
  PROVE  IInv'
  <1>1. /\ pc'[k] = "select"
        /\ \A j \in Pack : j # k => pc'[j] = pc[j] /\ names'[j] = names[j]
    BY DEF GetNameList, GetNameListFails, record, thread, history, IInv,
         TypeOK
  <1>2. TypeOK'
    BY DEF GetNameList, GetNameListFails, record, thread, history, IInv,
         TypeOK
  <1>3. Early'
    BY <1>1 DEF GetNameList, GetNameListFails, record, thread, history, IInv,
         TypeOK, Early
  <1>4. Marked'
    BY <1>1 DEF GetNameList, GetNameListFails, record, thread, history, IInv,
         TypeOK, Marked
  <1>5. Requester'
    BY <1>1 DEF GetNameList, GetNameListFails, record, thread, history, IInv,
         TypeOK, Requester
  <1>6. DownloadedIsPacked'
    BY <1>1 DEF GetNameList, GetNameListFails, record, thread, history, IInv,
         TypeOK, Early, DownloadedIsPacked, OnHand
  <1>7. PackedTwiceOnlyBeside'
    BY <1>1 DEF GetNameList, GetNameListFails, record, thread, history, IInv,
         TypeOK, Early, Marked, PackedTwiceOnlyBeside
  <1>8. PackedForRequester'
    BY <1>1 DEF GetNameList, GetNameListFails, record, thread, history, IInv,
         TypeOK, Early, Requester, PackedForRequester
  <1>9. QED
    BY <1>2, <1>3, <1>4, <1>5, <1>6, <1>7, <1>8 DEF IInv

\* The SELECT.
LEMMA SelectKeep ==
  ASSUME IInv, NEW k \in Pack, Select(k)
  PROVE  IInv'
  <1>1. /\ pc'[k] = "mark"
        /\ file'[k] = "folder"
        /\ idList'[k] \subseteq Unpacked(k)
        /\ beside'[k] = {j \in Pack : pc[j] = "mark"}
        /\ \A j \in Pack : j # k =>
             /\ pc'[j] = pc[j] /\ file'[j] = file[j]
             /\ idList'[j] = idList[j] /\ beside'[j] = beside[j]
    BY DEF Select, record, thread, history, IInv, TypeOK
  <1>2. TypeOK'
    BY DEF Select, record, thread, history, IInv, TypeOK, Unpacked
  <1>3. Early'
    BY <1>1 DEF Select, record, thread, history, IInv, TypeOK, Early, Unpacked
  <1>4. Marked'
    BY <1>1 DEF Select, record, thread, history, IInv, TypeOK, Marked,
         Unpacked
  <1>5. Requester'
    BY <1>1 DEF Select, record, thread, history, IInv, TypeOK, Requester,
         Unpacked
  <1>6. DownloadedIsPacked'
    BY <1>1 DEF Select, record, thread, history, IInv, TypeOK, Early,
         DownloadedIsPacked, OnHand, Unpacked
  <1>7. PackedTwiceOnlyBeside'
    BY <1>1 DEF Select, record, thread, history, IInv, TypeOK, Early, Marked,
         PackedTwiceOnlyBeside, Unpacked
  <1>8. PackedForRequester'
    BY <1>1 DEF Select, record, thread, history, IInv, TypeOK, Early,
         Requester, PackedForRequester, Unpacked
  <1>9. QED
    BY <1>2, <1>3, <1>4, <1>5, <1>6, <1>7, <1>8 DEF IInv

\* The SELECT with another value of download.
LEMMA GarbledKeep ==
  ASSUME IInv, NEW k \in Pack, SelectGarbled(k)
  PROVE  IInv'
  <1>1. /\ pc'[k] = "mark"
        /\ file'[k] = "folder"
        /\ idList'[k] \subseteq names[k]
        /\ beside'[k] = {j \in Pack : pc[j] = "mark"}
        /\ \A j \in Pack : j # k =>
             /\ pc'[j] = pc[j] /\ file'[j] = file[j]
             /\ idList'[j] = idList[j] /\ beside'[j] = beside[j]
    BY DEF SelectGarbled, record, thread, history, IInv, TypeOK
  <1>2. TypeOK'
    BY DEF SelectGarbled, record, thread, history, IInv, TypeOK
  <1>3. Early'
    BY <1>1 DEF SelectGarbled, record, thread, history, IInv, TypeOK, Early
  <1>4. Marked'
    BY <1>1 DEF SelectGarbled, record, thread, history, IInv, TypeOK, Marked
  <1>5. Requester'
    BY <1>1 DEF SelectGarbled, record, thread, history, IInv, TypeOK,
         Requester
  <1>6. DownloadedIsPacked'
    BY <1>1 DEF SelectGarbled, record, thread, history, IInv, TypeOK, Early,
         DownloadedIsPacked, OnHand
  <1>7. PackedTwiceOnlyBeside'
    BY <1>1 DEF SelectGarbled, record, thread, history, IInv, TypeOK, Early,
         Marked, PackedTwiceOnlyBeside
  <1>8. PackedForRequester'
    BY <1>1 DEF SelectGarbled, record, thread, history, IInv, TypeOK, Early,
         Requester, PackedForRequester
  <1>9. QED
    BY <1>2, <1>3, <1>4, <1>5, <1>6, <1>7, <1>8 DEF IInv

\* The UPDATE.
LEMMA MarkKeep ==
  ASSUME IInv, NEW k \in Pack, Mark(k)
  PROVE  IInv'
  <1>1. /\ pc'[k] = "zip"
        /\ \A j \in Pack : j # k => pc'[j] = pc[j]
    BY DEF Mark, record, thread, history, IInv, TypeOK
  <1>2. TypeOK'
    <2>1. download' \in [Vio -> 0..1]
      BY DEF Mark, IInv, TypeOK
    <2>2. pc' \in [Pack -> {"idle", "names", "select", "mark", "zip", "done"}]
      BY DEF Mark, IInv, TypeOK
    <2>3. excused' \subseteq Vio
      BY DEF Mark, Stored, IInv, TypeOK
    <2>4. QED
      BY <2>1, <2>2, <2>3 DEF Mark, IInv, TypeOK
  <1>3. Early'
    BY <1>1 DEF Mark, record, thread, history, IInv, TypeOK, Early
  <1>4. Marked'
    BY <1>1 DEF Mark, record, thread, history, IInv, TypeOK, Marked
  <1>5. Requester'
    BY <1>1 DEF Mark, record, thread, history, IInv, TypeOK, Requester
  <1>6. DownloadedIsPacked'
    BY <1>1 DEF Mark, record, thread, history, IInv, TypeOK, Early,
         DownloadedIsPacked, OnHand
  <1>7. PackedTwiceOnlyBeside'
    BY <1>1 DEF Mark, record, thread, history, IInv, TypeOK, Early, Marked,
         PackedTwiceOnlyBeside
  <1>8. PackedForRequester'
    BY <1>1 DEF Mark, record, thread, history, IInv, TypeOK, Early, Requester,
         PackedForRequester
  <1>9. QED
    BY <1>2, <1>3, <1>4, <1>5, <1>6, <1>7, <1>8 DEF IInv

\* The UPDATE fails.
LEMMA MarkFailsKeep ==
  ASSUME IInv, NEW k \in Pack, MarkFails(k)
  PROVE  IInv'
  <1>1. /\ pc'[k] = "zip"
        /\ \A j \in Pack : j # k => pc'[j] = pc[j]
    BY DEF MarkFails, record, thread, history, IInv, TypeOK
  <1>2. TypeOK'
    BY DEF MarkFails, record, thread, history, IInv, TypeOK
  <1>3. Early'
    BY <1>1 DEF MarkFails, record, thread, history, IInv, TypeOK, Early
  <1>4. Marked'
    BY <1>1 DEF MarkFails, record, thread, history, IInv, TypeOK, Marked
  <1>5. Requester'
    BY <1>1 DEF MarkFails, record, thread, history, IInv, TypeOK, Requester
  <1>6. DownloadedIsPacked'
    BY <1>1 DEF MarkFails, record, thread, history, IInv, TypeOK, Early,
         DownloadedIsPacked, OnHand
  <1>7. PackedTwiceOnlyBeside'
    BY <1>1 DEF MarkFails, record, thread, history, IInv, TypeOK, Early,
         Marked, PackedTwiceOnlyBeside
  <1>8. PackedForRequester'
    BY <1>1 DEF MarkFails, record, thread, history, IInv, TypeOK, Early,
         Requester, PackedForRequester
  <1>9. QED
    BY <1>2, <1>3, <1>4, <1>5, <1>6, <1>7, <1>8 DEF IInv

\* The folder becomes a file, or is lost.
LEMMA ZipKeep ==
  ASSUME IInv, NEW k \in Pack, Zip(k) \/ ZipFails(k)
  PROVE  IInv'
  <1>1. /\ pc'[k] = "done"
        /\ \A j \in Pack : j # k => pc'[j] = pc[j] /\ file'[j] = file[j]
    BY DEF Zip, ZipFails, record, thread, history, IInv, TypeOK
  <1>2. TypeOK'
    BY DEF Zip, ZipFails, record, thread, history, IInv, TypeOK
  <1>3. Early'
    BY <1>1 DEF Zip, ZipFails, record, thread, history, IInv, TypeOK, Early
  <1>4. Marked'
    BY <1>1 DEF Zip, ZipFails, record, thread, history, IInv, TypeOK, Marked
  <1>5. Requester'
    BY <1>1 DEF Zip, ZipFails, record, thread, history, IInv, TypeOK,
         Requester
  <1>6. DownloadedIsPacked'
    BY <1>1 DEF Zip, ZipFails, record, thread, history, IInv, TypeOK, Early,
         DownloadedIsPacked, OnHand
  <1>7. PackedTwiceOnlyBeside'
    BY <1>1 DEF Zip, ZipFails, record, thread, history, IInv, TypeOK, Early,
         Marked, PackedTwiceOnlyBeside
  <1>8. PackedForRequester'
    BY <1>1 DEF Zip, ZipFails, record, thread, history, IInv, TypeOK, Early,
         Requester, PackedForRequester
  <1>9. QED
    BY <1>2, <1>3, <1>4, <1>5, <1>6, <1>7, <1>8 DEF IInv

\* The process ends.
LEMMA CrashKeep ==
  ASSUME IInv, Crash
  PROVE  IInv'
  <1>2. TypeOK'
    BY DEF Crash, record, thread, history, IInv, TypeOK, Running
  <1>3. Early'
    BY DEF Crash, record, thread, history, IInv, TypeOK, Early, Running
  <1>4. Marked'
    BY DEF Crash, record, thread, history, IInv, TypeOK, Marked, Running
  <1>5. Requester'
    BY DEF Crash, record, thread, history, IInv, TypeOK, Requester, Running
  <1>6. DownloadedIsPacked'
    BY DEF Crash, record, thread, history, IInv, TypeOK, Early,
         DownloadedIsPacked, OnHand, Running
  <1>7. PackedTwiceOnlyBeside'
    BY DEF Crash, record, thread, history, IInv, TypeOK, Early, Marked,
         PackedTwiceOnlyBeside, Running
  <1>8. PackedForRequester'
    BY DEF Crash, record, thread, history, IInv, TypeOK, Early, Requester,
         PackedForRequester, Running
  <1>9. QED
    BY <1>2, <1>3, <1>4, <1>5, <1>6, <1>7, <1>8 DEF IInv

\* Nothing happens.
LEMMA StutterKeep ==
  ASSUME IInv, UNCHANGED vars
  PROVE  IInv'
  <1>2. TypeOK'
    BY DEF vars, record, thread, history, IInv, TypeOK
  <1>3. Early'
    BY DEF vars, record, thread, history, IInv, TypeOK, Early
  <1>4. Marked'
    BY DEF vars, record, thread, history, IInv, TypeOK, Marked
  <1>5. Requester'
    BY DEF vars, record, thread, history, IInv, TypeOK, Requester
  <1>6. DownloadedIsPacked'
    BY DEF vars, record, thread, history, IInv, TypeOK, Early,
         DownloadedIsPacked, OnHand
  <1>7. PackedTwiceOnlyBeside'
    BY DEF vars, record, thread, history, IInv, TypeOK, Early, Marked,
         PackedTwiceOnlyBeside
  <1>8. PackedForRequester'
    BY DEF vars, record, thread, history, IInv, TypeOK, Early, Requester,
         PackedForRequester
  <1>9. QED
    BY <1>2, <1>3, <1>4, <1>5, <1>6, <1>7, <1>8 DEF IInv

LEMMA NextIInv == IInv /\ [Next]_vars => IInv'
  <1>1. ASSUME IInv, NEW u \in User, Handler(u)
        PROVE  IInv'
    <2>1. ASSUME NEW v \in Vio, NEW a \in 0..2,
                 insertViodata(u, v, a) \/ affirmVioData(u, v, a)
          PROVE  IInv'
      BY <1>1, <2>1, RecordKeep
    <2>2. 0..1 \subseteq 0..2 /\ 1..2 \subseteq 0..2
      OBVIOUS
    <2>3. CASE \E v \in Vio : \/ \E a \in 0..1 : insertViodata(u, v, a)
                              \/ \E a \in 1..2 : affirmVioData(u, v, a)
      BY <2>1, <2>2, <2>3
    <2>4. QED
      BY <1>1, <2>3, RecordKeep, StartKeep, DeleteKeep DEF Handler
  <1>2. ASSUME IInv, NEW k \in Pack, packDataThread(k)
        PROVE  IInv'
    BY <1>2, NamesKeep, SelectKeep, GarbledKeep, MarkKeep, MarkFailsKeep,
       ZipKeep DEF packDataThread
  <1>3. QED
    BY <1>1, <1>2, CrashKeep, StutterKeep DEF Next

LEMMA Invariance == Spec => []IInv
  BY InitIInv, NextIInv, PTL DEF Spec

\* The columns and what the threads keep stay in their ranges.
THEOREM TypeCorrect == Spec => []TypeOK
  <1>1. IInv => TypeOK
    BY DEF IInv
  <1>2. QED
    BY <1>1, Invariance, PTL

\* A record marked downloaded is in a package that is there or lost by a named
\* mishap, for any number of threads that select and mark beside each other.
THEOREM MarkedIsPacked == Spec => []DownloadedIsPacked
  <1>1. IInv => DownloadedIsPacked
    BY DEF IInv
  <1>2. QED
    BY <1>1, Invariance, PTL

\* Two packages of fresh records overlap only when one selected between the
\* other's SELECT and UPDATE, or a statement went wrong.
THEOREM PackedOnce == Spec => []PackedTwiceOnlyBeside
  <1>1. IInv => PackedTwiceOnlyBeside
    BY DEF IInv
  <1>2. QED
    BY <1>1, Invariance, PTL

\* A package shows its requester no other group's records, though its thread
\* reads a global that every request assigns, but in the two cases named.
THEOREM PackedForItsUser == Spec => []PackedForRequester
  <1>1. IInv => PackedForRequester
    BY DEF IInv
  <1>2. QED
    BY <1>1, Invariance, PTL
=============================================================================
