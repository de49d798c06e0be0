------------------------ MODULE TicketNumbersProofs ------------------------
(***************************************************************************)
(* Proofs about TicketNumbers, for every number of phones, numbers and     *)
(* records and every LIMIT.                                                *)
(*                                                                         *)
(* ClaimedIsNotFree and GivenTwiceOnlyInDoubt are inductive together, with *)
(* ClaimedOnce, which says the same of one phone: a number that is         *)
(* selected is free, hence nobody's unless it is in doubt, and a step that *)
(* makes a claimed number free, or lets it be claimed twice, puts it in    *)
(* doubt.  UsedIsAccountedFor is inductive beside them.                    *)
(***************************************************************************)
EXTENDS TicketNumbers, TLAPS

\* A phone has a number in one place only; one that does not wait has no
\* answer.
ClaimedOnce ==
  \A d \in Device :
    /\ (held[d] \cap answer[d]) \subseteq doubt
    /\ (held[d] \cap Filed(d)) \subseteq doubt
    /\ (answer[d] \cap Filed(d)) \subseteq doubt
Idle == \A d \in Device : ~waiting[d] => answer[d] = {}

Safe == ClaimedIsNotFree /\ GivenTwiceOnlyInDoubt /\ ClaimedOnce

IInv == TypeOK /\ Idle /\ Safe

USE NumberAssumption, RowsAssumption, NoneAssumption

-----------------------------------------------------------------------------
(* The statements.                                                         *)

\* What a SELECT returns is free.
LEMMA SelectedFree ==
  ASSUME TypeOK, NEW limit, NEW ids \in Selected(limit)
  PROVE  ids \subseteq FreeNumbers
  <1>1. CASE ids = {}
    BY <1>1
  <1>2. ASSUME NEW S \in SUBSET FreeRows, ids = {x.number : x \in S}
        PROVE  ids \subseteq FreeNumbers
    <2>1. ASSUME NEW x \in FreeRows
          PROVE  x.number \in FreeNumbers
      <3>1. x.number \in Number /\ x.copy \in 1..MaxRows
        BY <2>1 DEF FreeRows, Rows
      <3>2. x.copy <= table[x.number][0]
        BY <2>1 DEF FreeRows
      <3>3. ASSUME NEW n \in Number, NEW i \in 1..MaxRows, i <= table[n][0]
            PROVE  n \in FreeNumbers
        <4>1. table[n][0] \in Nat
          BY DEF TypeOK
        <4>2. QED
          BY <3>3, <4>1 DEF FreeNumbers
      <3>4. QED
        BY <3>1, <3>2, <3>3, Zenon
    <2>2. QED
      BY <1>2, <2>1
  <1>3. QED
    BY <1>1, <1>2 DEF Selected, kSubset

\* UPDATE ... SET isuse = 1 keeps the ranges and takes the numbers off offer.
LEMMA UpdateMarks ==
  ASSUME TypeOK, NEW ids \in SUBSET Number, table' = Update(ids, 1)
  PROVE  /\ table' \in [Number -> [{0, 1} -> Nat]]
         /\ \A n \in Number : table'[n][0] + table'[n][1] <= MaxRows
         /\ FreeNumbers' = FreeNumbers \ ids
         /\ UsedNumbers' \subseteq UsedNumbers \cup ids
  <1>1. ASSUME NEW n \in Number
        PROVE  /\ table'[n] \in [{0, 1} -> Nat]
               /\ table'[n][0] + table'[n][1] <= MaxRows
               /\ n \in ids => table'[n][0] = 0
               /\ n \notin ids => table'[n] = table[n]
    BY DEF TypeOK, Update
  <1>2. table' = [n \in Number |-> table'[n]]
    BY DEF Update
  <1>3. QED
    BY <1>1, <1>2 DEF FreeNumbers, UsedNumbers

\* UPDATE ... SET isuse = 0 puts the number, and no other, on offer.
LEMMA UpdateReleases ==
  ASSUME TypeOK, NEW m \in Number, table' = Update({m}, 0)
  PROVE  /\ table' \in [Number -> [{0, 1} -> Nat]]
         /\ \A n \in Number : table'[n][0] + table'[n][1] <= MaxRows
         /\ FreeNumbers' \subseteq FreeNumbers \cup {m}
         /\ UsedNumbers' = UsedNumbers \ {m}
  <1>1. ASSUME NEW n \in Number
        PROVE  /\ table'[n] \in [{0, 1} -> Nat]
               /\ table'[n][0] + table'[n][1] <= MaxRows
               /\ n = m => table'[n][1] = 0
               /\ n # m => table'[n] = table[n]
    BY DEF TypeOK, Update
  <1>2. table' = [n \in Number |-> table'[n]]
    BY DEF Update
  <1>3. FreeNumbers' \subseteq FreeNumbers \cup {m}
    BY <1>1 DEF FreeNumbers
  <1>4. ASSUME NEW n \in Number
        PROVE  n \in UsedNumbers' <=> n \in UsedNumbers /\ n # m
    BY <1>1 DEF UsedNumbers
  <1>5. UsedNumbers' = UsedNumbers \ {m}
    BY <1>4 DEF UsedNumbers
  <1>6. QED
    BY <1>1, <1>2, <1>3, <1>5

\* Added numbers are on offer; the rows in use stay.
LEMMA AddKeeps ==
  ASSUME TypeOK, NEW added \in SUBSET Number,
         \A n \in added : table[n][0] + table[n][1] < MaxRows,
         table' = [n \in Number |-> IF n \in added
                                    THEN [table[n] EXCEPT ![0] = @ + 1]
                                    ELSE table[n]]
  PROVE  /\ table' \in [Number -> [{0, 1} -> Nat]]
         /\ \A n \in Number : table'[n][0] + table'[n][1] <= MaxRows
         /\ FreeNumbers' \subseteq FreeNumbers \cup added
         /\ UsedNumbers' = UsedNumbers
  <1>1. ASSUME NEW n \in Number
        PROVE  /\ table'[n] \in [{0, 1} -> Nat]
               /\ table'[n][0] + table'[n][1] <= MaxRows
               /\ table'[n][1] = table[n][1]
               /\ n \notin added => table'[n] = table[n]
    BY DEF TypeOK
  <1>2. QED
    BY <1>1 DEF FreeNumbers, UsedNumbers

\* INSERT gives a document to the phone that files it.
LEMMA FiledGrows ==
  ASSUME NEW d \in Device, NEW n, NEW v,
         documents' = documents \cup {[by |-> d, number |-> n, vio |-> v]}
  PROVE  \A e \in Device :
           Filed(e)' = IF e = d THEN Filed(e) \cup {n} ELSE Filed(e)
  <1>. DEFINE doc == [by |-> d, number |-> n, vio |-> v]
  <1>1. ASSUME NEW e \in Device
        PROVE  Filed(e)' = IF e = d THEN Filed(e) \cup {n} ELSE Filed(e)
    <2>1. {x \in documents' : x.by = e} =
            {x \in documents : x.by = e} \cup (IF e = d THEN {doc} ELSE {})
      OBVIOUS
    <2>2. doc.number = n
      OBVIOUS
    <2>3. QED
      BY <2>1, <2>2 DEF Filed
  <1>2. QED
    BY <1>1

\* Without an INSERT every phone's documents stay.
LEMMA FiledStays ==
  ASSUME documents' = documents
  PROVE  \A e \in Device : Filed(e)' = Filed(e)
  BY DEF Filed

-----------------------------------------------------------------------------
(* The ranges.                                                             *)

\* At first nobody has a number.
LEMMA InitIInv == Init => IInv
  <1>. SUFFICES ASSUME Init PROVE IInv
    OBVIOUS
  <1>1. TypeOK
    BY DEF Init, TypeOK
  <1>2. \A d \in Device : Claims(d) = {}
    BY DEF Init, Claims, Filed
  <1>3. Claimed = {}
    BY <1>2 DEF Claimed
  <1>4. ClaimedOnce /\ Idle
    BY DEF Init, ClaimedOnce, Idle
  <1>5. QED
    BY <1>1, <1>2, <1>3, <1>4
       DEF IInv, Safe, ClaimedIsNotFree, GivenTwiceOnlyInDoubt

\* Taking numbers keeps the ranges.
LEMMA TakeType ==
  ASSUME TypeOK, NEW d \in Device, NEW limit, Take(d, limit)
  PROVE  TypeOK'
  <1>1. PICK ids \in Selected(limit), marked \in SUBSET FreeNumbers :
          /\ marked \subseteq ids
          /\ table' = Update(marked, 1)
          /\ gresXML' = ids
          /\ answer' = [answer EXCEPT ![d] = ids]
          /\ lost' = lost \ ids
          /\ doubt' = doubt \cup (ids \ marked)
    BY SelectedFree DEF Take
  <1>2. ids \subseteq Number /\ marked \subseteq Number
    BY SelectedFree DEF FreeNumbers
  <1>3. QED
    BY <1>1, <1>2, UpdateMarks DEF Take, TypeOK, filed

\* So does giving one back.
LEMMA ReleaseType ==
  ASSUME TypeOK, NEW n \in Number, Release(n)
  PROVE  /\ table' \in [Number -> [{0, 1} -> Nat]]
         /\ \A m \in Number : table'[m][0] + table'[m][1] <= MaxRows
         /\ gresXML' \subseteq Number
         /\ lost' \subseteq Number
         /\ FreeNumbers' \subseteq FreeNumbers \cup {n}
         /\ UsedNumbers' \subseteq UsedNumbers
         /\ n \in UsedNumbers' => n \in lost'
         /\ lost \ {n} \subseteq lost'
  <1>1. CASE table' = Update({n}, 0) /\ lost' = lost \ {n}
    <2>1. gresXML' = {}
      BY DEF Release
    <2>2. UsedNumbers' = UsedNumbers \ {n}
      BY <1>1, UpdateReleases
    <2>3. QED
      BY <1>1, <2>1, <2>2, UpdateReleases DEF TypeOK
  <1>2. CASE table' = table /\ lost' = lost \cup {n}
    BY <1>2 DEF Release, TypeOK, FreeNumbers, UsedNumbers
  <1>3. QED
    BY <1>1, <1>2 DEF Release

\* Every handler and every answer keeps the ranges.
LEMMA NextType ==
  ASSUME TypeOK, [Next]_vars
  PROVE  TypeOK'
  <1>1. ASSUME NEW d \in Device, getticketid(d) \/ getIDLeaveLine(d)
        PROVE  TypeOK'
    BY <1>1, TakeType DEF getticketid, getIDLeaveLine
  <1>2. ASSUME NEW d \in Device, NEW n \in Number, cancleticketid(d, n)
        PROVE  TypeOK'
    BY <1>2, ReleaseType DEF cancleticketid, TypeOK, filed
  <1>3. ASSUME NEW d \in Device, RepeatCancel(d)
        PROVE  TypeOK'
    <2>1. cancelled[d] \in Number
      BY <1>3 DEF RepeatCancel, TypeOK
    <2>2. QED
      BY <1>3, <2>1, ReleaseType DEF RepeatCancel, TypeOK, filed, phones
  <1>4. ASSUME NEW d \in Device, NEW n \in Number, NEW v \in Vio,
               putResult(d, n, v)
        PROVE  TypeOK'
    <2>1. /\ documents' \subseteq documents \cup
                                    {[by |-> d, number |-> n, vio |-> v]}
          /\ held' \in {held, [held EXCEPT ![d] = @ \ {n}]}
          /\ doubt' \subseteq doubt \cup {n}
          /\ disposed' \subseteq disposed \cup {v}
          /\ lost' \subseteq lost \cup {n}
          /\ gresXML' = {}
          /\ UNCHANGED <<table, waiting, answer, cancelled>>
      BY <1>4 DEF putResult
    <2>2. documents' \subseteq [by : Device, number : Number, vio : Vio]
      BY <2>1 DEF TypeOK
    <2>3. held' \in [Device -> SUBSET Number]
      BY <2>1 DEF TypeOK
    <2>4. QED
      BY <2>1, <2>2, <2>3 DEF TypeOK
  <1>5. ASSUME NEW d \in Device, Receive(d) \/ ReceiveOther(d) \/ LoseAnswer(d)
        PROVE  TypeOK'
    <2>1. answer[d] \subseteq Number /\ held[d] \subseteq Number
      BY DEF TypeOK
    <2>2. CASE Receive(d)
      BY <2>1, <2>2 DEF Receive, TypeOK, rows, filed
    <2>3. CASE ReceiveOther(d)
      BY <2>1, <2>3 DEF ReceiveOther, TypeOK, rows, filed
    <2>4. CASE LoseAnswer(d)
      BY <2>1, <2>4 DEF LoseAnswer, TypeOK, rows, filed
    <2>5. QED
      BY <1>5, <2>2, <2>3, <2>4
  <1>6. ASSUME NEW startid \in Number, NEW count, AddNumber(startid, count)
        PROVE  TypeOK'
    <2>1. PICK added \in SUBSET Number :
            /\ \A n \in added : table[n][0] + table[n][1] < MaxRows
            /\ table' = [n \in Number |->
                           IF n \in added THEN [table[n] EXCEPT ![0] = @ + 1]
                           ELSE table[n]]
            /\ doubt' = doubt \cup (added \cap Claimed)
      BY <1>6 DEF AddNumber
    <2>2. QED
      BY <1>6, <2>1, AddKeeps DEF AddNumber, TypeOK, phones, filed
  <1>7. CASE UNCHANGED vars
    BY <1>7 DEF vars, TypeOK
  <1>8. QED
    BY <1>1, <1>2, <1>3, <1>4, <1>5, <1>6, <1>7 DEF Next, Phone

\* An answer comes when a phone asks, and goes when it is received or lost.
LEMMA NextIdle ==
  ASSUME TypeOK, Idle, [Next]_vars
  PROVE  Idle'
  BY DEF TypeOK, Idle, Next, Phone, getticketid, getIDLeaveLine, Take,
         cancleticketid, RepeatCancel, putResult, Receive, ReceiveOther,
         LoseAnswer, AddNumber, phones, vars

-----------------------------------------------------------------------------
(* Who has a number.                                                       *)

\* A selected number is free, and so nobody's or in doubt.
LEMMA TakeSafe ==
  ASSUME IInv, NEW d \in Device, NEW limit, Take(d, limit)
  PROVE  Safe'
  <1>1. PICK ids \in Selected(limit), marked \in SUBSET FreeNumbers :
          /\ marked \subseteq ids
          /\ table' = Update(marked, 1)
          /\ answer' = [answer EXCEPT ![d] = ids]
          /\ doubt' = doubt \cup (ids \ marked)
    BY SelectedFree DEF Take, IInv
  <1>2. ids \subseteq FreeNumbers /\ marked \subseteq Number
    BY SelectedFree DEF FreeNumbers, IInv
  <1>3. FreeNumbers' = FreeNumbers \ marked
    BY <1>1, <1>2, UpdateMarks DEF IInv
  <1>4. ids \cap Claimed \subseteq doubt
    BY <1>2 DEF IInv, Safe, ClaimedIsNotFree
  <1>5. \A e \in Device : /\ held'[e] = held[e]
                          /\ Filed(e)' = Filed(e)
                          /\ answer'[e] = IF e = d THEN ids ELSE answer[e]
    BY <1>1, FiledStays DEF Take, filed, IInv, TypeOK
  <1>6. \A e \in Device : Claims(e) \subseteq Claimed
    BY DEF Claimed
  <1>7. \A e \in Device :
          Claims(e)' \subseteq Claims(e) \cup (IF e = d THEN ids ELSE {})
    BY <1>5 DEF Claims
  <1>8. ClaimedIsNotFree'
    <2>1. Claimed' \subseteq Claimed \cup ids
      BY <1>7 DEF Claimed
    <2>2. QED
      BY <1>1, <1>3, <1>4, <2>1 DEF IInv, Safe, ClaimedIsNotFree
  <1>9. GivenTwiceOnlyInDoubt'
    BY <1>1, <1>4, <1>6, <1>7 DEF IInv, Safe, GivenTwiceOnlyInDoubt
  <1>10. ClaimedOnce'
    BY <1>1, <1>4, <1>5, <1>6 DEF IInv, Safe, ClaimedOnce, Claims
  <1>11. QED
    BY <1>8, <1>9, <1>10 DEF Safe

\* The number given back is nobody's any more, or in doubt.
LEMMA CancelSafe ==
  ASSUME IInv, NEW d \in Device, NEW n \in Number, cancleticketid(d, n)
  PROVE  Safe'
  <1>1. /\ n \in held[d]
        /\ answer' = answer /\ doubt' = doubt
        /\ \A e \in Device : /\ Filed(e)' = Filed(e)
                             /\ held'[e] = IF e = d THEN held[e] \ {n}
                                           ELSE held[e]
    BY FiledStays DEF cancleticketid, filed, IInv, TypeOK
  <1>2. FreeNumbers' \subseteq FreeNumbers \cup {n}
    BY ReleaseType DEF cancleticketid, IInv
  <1>3. \A e \in Device : Claims(e)' \subseteq Claims(e)
    BY <1>1 DEF Claims
  <1>4. ASSUME NEW e \in Device, n \in Claims(e)'
        PROVE  n \in doubt
    <2>1. CASE e = d
      BY <1>1, <1>4, <2>1 DEF Claims, IInv, Safe, ClaimedOnce
    <2>2. CASE e # d
      BY <1>1, <1>3, <1>4, <2>2
         DEF Claims, IInv, Safe, GivenTwiceOnlyInDoubt
    <2>3. QED
      BY <2>1, <2>2
  <1>5. ClaimedIsNotFree'
    BY <1>1, <1>2, <1>3, <1>4 DEF IInv, Safe, ClaimedIsNotFree, Claimed
  <1>6. GivenTwiceOnlyInDoubt'
    BY <1>1, <1>3 DEF IInv, Safe, GivenTwiceOnlyInDoubt
  <1>7. ClaimedOnce'
    BY <1>1 DEF IInv, Safe, ClaimedOnce
  <1>8. QED
    BY <1>5, <1>6, <1>7 DEF Safe

\* A repeated cancel puts a number that is somebody's in doubt.
LEMMA RepeatSafe ==
  ASSUME IInv, NEW d \in Device, RepeatCancel(d)
  PROVE  Safe'
  <1>. DEFINE n == cancelled[d]
  <1>1. n \in Number /\ Release(n)
    BY DEF RepeatCancel, IInv, TypeOK
  <1>2. FreeNumbers' \subseteq FreeNumbers \cup {n}
    BY <1>1, ReleaseType DEF IInv
  <1>3. \A e \in Device : /\ Filed(e)' = Filed(e)
                          /\ Claims(e)' = Claims(e)
    BY FiledStays DEF RepeatCancel, phones, filed, Claims
  <1>4. Claimed' = Claimed
    BY <1>3 DEF Claimed
  <1>5. doubt \subseteq doubt' /\ (n \in Claimed => n \in doubt')
    BY DEF RepeatCancel
  <1>6. held' = held /\ answer' = answer
    BY DEF RepeatCancel, phones
  <1>7. ClaimedIsNotFree'
    BY <1>2, <1>4, <1>5 DEF IInv, Safe, ClaimedIsNotFree
  <1>8. GivenTwiceOnlyInDoubt'
    BY <1>3, <1>5 DEF IInv, Safe, GivenTwiceOnlyInDoubt
  <1>9. ClaimedOnce'
    BY <1>3, <1>5, <1>6 DEF IInv, Safe, ClaimedOnce
  <1>10. QED
    BY <1>7, <1>8, <1>9 DEF Safe

\* The number of a document was the phone's; one that the phone keeps, because
\* it was not told of the document, is in doubt.
LEMMA PutSafe ==
  ASSUME IInv, NEW d \in Device, NEW n \in Number, NEW v \in Vio,
         putResult(d, n, v)
  PROVE  Safe'
  <1>1. /\ n \in held[d]
        /\ FreeNumbers' = FreeNumbers
        /\ answer' = answer
        /\ doubt \subseteq doubt'
    BY DEF putResult, FreeNumbers
  <1>2. CASE documents' = documents /\ held' = held
    <2>1. \A e \in Device : /\ Filed(e)' = Filed(e)
                            /\ Claims(e)' = Claims(e)
      BY <1>1, <1>2, FiledStays DEF Claims
    <2>2. Claimed' = Claimed
      BY <2>1 DEF Claimed
    <2>3. QED
      BY <1>1, <1>2, <2>1, <2>2
         DEF IInv, Safe, ClaimedIsNotFree, GivenTwiceOnlyInDoubt, ClaimedOnce
  <1>3. CASE /\ documents' = documents \cup
                               {[by |-> d, number |-> n, vio |-> v]}
             /\ \/ held' = [held EXCEPT ![d] = @ \ {n}]
                \/ held' = held /\ n \in doubt'
    <2>1. \A e \in Device :
            /\ Filed(e)' = IF e = d THEN Filed(e) \cup {n} ELSE Filed(e)
            /\ held'[e] \subseteq held[e]
            /\ n \in held'[d] => n \in doubt'
      <3>1. \A e \in Device :
              Filed(e)' = IF e = d THEN Filed(e) \cup {n} ELSE Filed(e)
        BY <1>3, FiledGrows
      <3>2. \A e \in Device : held'[e] \subseteq held[e]
        BY <1>3 DEF IInv, TypeOK
      <3>3. n \in held'[d] => n \in doubt'
        BY <1>3 DEF IInv, TypeOK
      <3>4. QED
        BY <3>1, <3>2, <3>3
    <2>2. \A e \in Device : Claims(e)' \subseteq Claims(e)
      BY <1>1, <2>1 DEF Claims
    <2>3. Claimed' \subseteq Claimed
      BY <2>2 DEF Claimed
    <2>4. ClaimedIsNotFree'
      BY <1>1, <2>3 DEF IInv, Safe, ClaimedIsNotFree
    <2>5. GivenTwiceOnlyInDoubt'
      BY <1>1, <2>2 DEF IInv, Safe, GivenTwiceOnlyInDoubt
    <2>6. ClaimedOnce'
      BY <1>1, <2>1 DEF IInv, Safe, ClaimedOnce
    <2>7. QED
      BY <2>4, <2>5, <2>6 DEF Safe
  <1>4. CASE documents' = documents /\ held' = [held EXCEPT ![d] = @ \ {n}]
    <2>1. \A e \in Device : Filed(e)' = Filed(e) /\ held'[e] \subseteq held[e]
      BY <1>4, FiledStays DEF IInv, TypeOK
    <2>2. \A e \in Device : Claims(e)' \subseteq Claims(e)
      BY <1>1, <2>1 DEF Claims
    <2>3. Claimed' \subseteq Claimed
      BY <2>2 DEF Claimed
    <2>4. QED
      BY <1>1, <2>1, <2>2, <2>3
         DEF IInv, Safe, ClaimedIsNotFree, GivenTwiceOnlyInDoubt, ClaimedOnce
  <1>5. QED
    BY <1>2, <1>3, <1>4 DEF putResult

\* An answer goes to the phone that asked; another's puts its numbers in doubt.
LEMMA AnswerSafe ==
  ASSUME IInv, NEW d \in Device, Receive(d) \/ ReceiveOther(d) \/ LoseAnswer(d)
  PROVE  Safe'
  <1>1. /\ FreeNumbers' = FreeNumbers
        /\ doubt \subseteq doubt'
        /\ \A e \in Device : Filed(e)' = Filed(e)
    BY FiledStays
       DEF Receive, ReceiveOther, LoseAnswer, rows, filed, FreeNumbers
  <1>2. /\ \A e \in Device \ {d} : held'[e] = held[e] /\ answer'[e] = answer[e]
        /\ answer'[d] = {}
        /\ held'[d] \subseteq held[d] \cup answer[d] \cup doubt'
    <2>1. CASE Receive(d)
      BY <2>1 DEF Receive, IInv, TypeOK
    <2>2. CASE ReceiveOther(d)
      BY <2>2 DEF ReceiveOther, IInv, TypeOK
    <2>3. CASE LoseAnswer(d)
      BY <2>3 DEF LoseAnswer, IInv, TypeOK
    <2>4. QED
      BY <2>1, <2>2, <2>3
  <1>3. \A e \in Device : Claims(e)' \subseteq Claims(e) \cup doubt'
    BY <1>1, <1>2 DEF Claims
  <1>4. Claimed' \subseteq Claimed \cup doubt'
    BY <1>3 DEF Claimed
  <1>5. ClaimedIsNotFree'
    BY <1>1, <1>4 DEF IInv, Safe, ClaimedIsNotFree
  <1>6. GivenTwiceOnlyInDoubt'
    BY <1>1, <1>3 DEF IInv, Safe, GivenTwiceOnlyInDoubt
  <1>7. ClaimedOnce'
    BY <1>1, <1>2 DEF IInv, Safe, ClaimedOnce
  <1>8. QED
    BY <1>5, <1>6, <1>7 DEF Safe

\* A number that is added while somebody has it is in doubt.
LEMMA AddSafe ==
  ASSUME IInv, NEW startid \in Number, NEW count, AddNumber(startid, count)
  PROVE  Safe'
  <1>1. PICK added \in SUBSET Number :
          /\ \A n \in added : table[n][0] + table[n][1] < MaxRows
          /\ table' = [n \in Number |->
                         IF n \in added THEN [table[n] EXCEPT ![0] = @ + 1]
                         ELSE table[n]]
          /\ doubt' = doubt \cup (added \cap Claimed)
    BY DEF AddNumber
  <1>2. FreeNumbers' \subseteq FreeNumbers \cup added
    BY <1>1, AddKeeps DEF IInv
  <1>3. held' = held /\ answer' = answer
    BY DEF AddNumber, phones
  <1>4. \A e \in Device : /\ Filed(e)' = Filed(e)
                          /\ Claims(e)' = Claims(e)
    BY <1>3, FiledStays DEF AddNumber, filed, Claims
  <1>5. Claimed' = Claimed
    BY <1>4 DEF Claimed
  <1>6. QED
    BY <1>1, <1>2, <1>3, <1>4, <1>5
       DEF IInv, Safe, ClaimedIsNotFree, GivenTwiceOnlyInDoubt, ClaimedOnce

\* The invariant is inductive.
LEMMA NextIInv == IInv /\ [Next]_vars => IInv'
  <1>. SUFFICES ASSUME IInv, [Next]_vars
                PROVE  IInv'
    OBVIOUS
  <1>1. TypeOK' /\ Idle'
    BY NextType, NextIdle DEF IInv
  <1>2. ASSUME UNCHANGED vars
        PROVE  Safe'
    <2>1. \A d \in Device : /\ Filed(d)' = Filed(d)
                            /\ Claims(d)' = Claims(d)
      BY <1>2, FiledStays DEF vars, Claims
    <2>2. Claimed' = Claimed /\ FreeNumbers' = FreeNumbers
      BY <1>2, <2>1 DEF vars, Claimed, FreeNumbers
    <2>3. QED
      BY <1>2, <2>1, <2>2
         DEF vars, IInv, Safe, ClaimedIsNotFree, GivenTwiceOnlyInDoubt,
             ClaimedOnce
  <1>3. ASSUME Next
        PROVE  Safe'
    <2>1. ASSUME NEW d \in Device, Phone(d)
          PROVE  Safe'
      BY <2>1, TakeSafe, CancelSafe, RepeatSafe, PutSafe, AnswerSafe
         DEF Phone, getticketid, getIDLeaveLine
    <2>2. ASSUME NEW startid \in Number, NEW count, AddNumber(startid, count)
          PROVE  Safe'
      BY <2>2, AddSafe
    <2>3. QED
      BY <1>3, <2>1, <2>2 DEF Next
  <1>4. QED
    BY <1>1, <1>2, <1>3 DEF IInv

\* Every number keeps to the table and to the phones it was given to.
THEOREM TypeCorrect == Spec => []TypeOK
  <1>1. IInv => TypeOK
    BY DEF IInv
  <1>2. QED
    BY InitIInv, NextIInv, <1>1, PTL DEF Spec

\* Two phones have, or have used, the same number only if one of the named
\* things went wrong with it: the mutex and the mark, alone, keep numbers apart.
THEOREM NumbersAreApart == Spec => []GivenTwiceOnlyInDoubt
  <1>1. IInv => GivenTwiceOnlyInDoubt
    BY DEF IInv, Safe
  <1>2. QED
    BY InitIInv, NextIInv, <1>1, PTL DEF Spec

\* A number that a phone has, or a document uses, is not given out again.
THEOREM ClaimedNumbersAreKept == Spec => []ClaimedIsNotFree
  <1>1. IInv => ClaimedIsNotFree
    BY DEF IInv, Safe
  <1>2. QED
    BY InitIInv, NextIInv, <1>1, PTL DEF Spec

-----------------------------------------------------------------------------
(* Where the used numbers are.                                             *)

\* A number may leave a phone's hands only for another place.
LEMMA NextAccounted ==
  ASSUME IInv, UsedIsAccountedFor, [Next]_vars
  PROVE  UsedIsAccountedFor'
  <1>. DEFINE Kept == \A e \in Device : Claims(e) \subseteq Claims(e)' \cup lost'
  <1>1. ASSUME Kept, UsedNumbers' \subseteq UsedNumbers, lost \subseteq lost'
        PROVE  UsedIsAccountedFor'
    BY <1>1 DEF UsedIsAccountedFor, Claimed
  <1>2. ASSUME NEW d \in Device, NEW limit, Take(d, limit)
        PROVE  UsedIsAccountedFor'
    <2>1. PICK ids \in Selected(limit), marked \in SUBSET FreeNumbers :
            /\ marked \subseteq ids
            /\ table' = Update(marked, 1)
            /\ answer' = [answer EXCEPT ![d] = ids]
            /\ lost' = lost \ ids
      BY <1>2, SelectedFree DEF Take, IInv
    <2>2. UsedNumbers' \subseteq UsedNumbers \cup marked
      BY <2>1, UpdateMarks DEF IInv, FreeNumbers
    <2>3. \A e \in Device : Claims(e) \subseteq Claims(e)'
      BY <1>2, <2>1, FiledStays DEF Take, filed, Claims, IInv, TypeOK, Idle
    <2>4. ids \subseteq Claims(d)'
      BY <2>1 DEF Claims, IInv, TypeOK
    <2>5. Claimed \cup ids \subseteq Claimed'
      BY <2>3, <2>4 DEF Claimed
    <2>6. QED
      BY <2>1, <2>2, <2>5 DEF UsedIsAccountedFor
  <1>3. ASSUME NEW d \in Device, NEW n \in Number, cancleticketid(d, n)
        PROVE  UsedIsAccountedFor'
    <2>1. /\ UsedNumbers' \subseteq UsedNumbers
          /\ n \in UsedNumbers' => n \in lost'
          /\ lost \ {n} \subseteq lost'
      BY <1>3, ReleaseType DEF cancleticketid, IInv
    <2>2. \A e \in Device : Claims(e) \subseteq Claims(e)' \cup {n}
      BY <1>3, FiledStays DEF cancleticketid, filed, Claims, IInv, TypeOK
    <2>3. Claimed \subseteq Claimed' \cup {n}
      BY <2>2 DEF Claimed
    <2>4. QED
      BY <2>1, <2>3 DEF UsedIsAccountedFor
  <1>4. ASSUME NEW d \in Device, RepeatCancel(d)
        PROVE  UsedIsAccountedFor'
    <2>. DEFINE n == cancelled[d]
    <2>1. n \in Number /\ Release(n)
      BY <1>4 DEF RepeatCancel, IInv, TypeOK
    <2>2. /\ UsedNumbers' \subseteq UsedNumbers
          /\ n \in UsedNumbers' => n \in lost'
          /\ lost \ {n} \subseteq lost'
      BY <2>1, ReleaseType DEF IInv
    <2>3. \A e \in Device : Claims(e)' = Claims(e)
      BY <1>4, FiledStays DEF RepeatCancel, filed, phones, Claims
    <2>4. Claimed' = Claimed
      BY <2>3 DEF Claimed
    <2>5. QED
      BY <2>2, <2>4 DEF UsedIsAccountedFor
  <1>5. ASSUME NEW d \in Device, NEW n \in Number, NEW v \in Vio,
               putResult(d, n, v)
        PROVE  UsedIsAccountedFor'
    <2>1. UsedNumbers' = UsedNumbers /\ answer' = answer
      BY <1>5 DEF putResult, UsedNumbers
    <2>2. CASE documents' = documents /\ held' = held /\ lost' = lost
      BY <1>1, <2>1, <2>2, FiledStays DEF Claims
    <2>3. CASE /\ documents' = documents \cup
                                 {[by |-> d, number |-> n, vio |-> v]}
               /\ held' \in {held, [held EXCEPT ![d] = @ \ {n}]}
               /\ lost' = lost
      <3>1. \A e \in Device :
              Filed(e)' = IF e = d THEN Filed(e) \cup {n} ELSE Filed(e)
        BY <2>3, FiledGrows
      <3>2. \A e \in Device \ {d} : held'[e] = held[e]
        BY <2>3 DEF IInv, TypeOK
      <3>3. held[d] \subseteq held'[d] \cup {n}
        BY <2>3 DEF IInv, TypeOK
      <3>4. QED
        BY <1>1, <2>1, <2>3, <3>1, <3>2, <3>3 DEF Claims
    <2>4. CASE /\ documents' = documents
               /\ held' = [held EXCEPT ![d] = @ \ {n}]
               /\ lost' = lost \cup {n}
      <3>1. \A e \in Device : held[e] \subseteq held'[e] \cup {n}
        BY <2>4 DEF IInv, TypeOK
      <3>2. \A e \in Device : Claims(e) \subseteq Claims(e)' \cup lost'
        BY <2>1, <2>4, <3>1, FiledStays DEF Claims
      <3>3. QED
        BY <2>1, <2>4, <3>2 DEF UsedIsAccountedFor, Claimed
    <2>5. QED
      BY <1>5, <2>2, <2>3, <2>4 DEF putResult
  <1>6. ASSUME NEW d \in Device, Receive(d) \/ ReceiveOther(d) \/ LoseAnswer(d)
        PROVE  UsedIsAccountedFor'
    <2>1. /\ UsedNumbers' = UsedNumbers
          /\ lost \subseteq lost'
          /\ \A e \in Device : Filed(e)' = Filed(e)
      BY <1>6, FiledStays
         DEF Receive, ReceiveOther, LoseAnswer, rows, filed, UsedNumbers
    <2>2. /\ \A e \in Device \ {d} : answer'[e] = answer[e]
          /\ \A e \in Device : held[e] \subseteq held'[e]
          /\ answer[d] \subseteq held'[d] \cup lost'
      <3>1. CASE Receive(d)
        BY <3>1 DEF Receive, IInv, TypeOK
      <3>2. CASE ReceiveOther(d)
        <4>1. /\ held' = [held EXCEPT ![d] = held[d] \cup gresXML]
              /\ answer' = [answer EXCEPT ![d] = {}]
              /\ lost' = lost \cup answer[d]
          BY <3>2 DEF ReceiveOther
        <4>2. \A e \in Device : held[e] \subseteq held'[e]
          BY <4>1 DEF IInv, TypeOK
        <4>3. QED
          BY <4>1, <4>2 DEF IInv, TypeOK
      <3>3. CASE LoseAnswer(d)
        BY <3>3 DEF LoseAnswer, IInv, TypeOK
      <3>4. QED
        BY <1>6, <3>1, <3>2, <3>3
    <2>3. QED
      BY <1>1, <2>1, <2>2 DEF Claims
  <1>7. ASSUME NEW startid \in Number, NEW count, AddNumber(startid, count)
        PROVE  UsedIsAccountedFor'
    <2>1. UsedNumbers' = UsedNumbers
      <3>1. PICK added \in SUBSET Number :
              /\ \A n \in added : table[n][0] + table[n][1] < MaxRows
              /\ table' = [n \in Number |->
                             IF n \in added THEN [table[n] EXCEPT ![0] = @ + 1]
                             ELSE table[n]]
        BY <1>7 DEF AddNumber
      <3>2. QED
        BY <3>1, AddKeeps DEF IInv
    <2>2. QED
      BY <1>1, <1>7, <2>1, FiledStays DEF AddNumber, phones, filed, Claims
  <1>8. CASE UNCHANGED vars
    BY <1>1, <1>8, FiledStays DEF vars, Claims, UsedNumbers
  <1>9. ASSUME NEW d \in Device, Phone(d)
        PROVE  UsedIsAccountedFor'
    BY <1>2, <1>3, <1>4, <1>5, <1>6, <1>9
       DEF Phone, getticketid, getIDLeaveLine
  <1>10. QED
    BY <1>7, <1>8, <1>9 DEF Next

\* No number is withdrawn for nothing: however requests, repeats, failed
\* statements and overwritten answers meet, one that is used is with a phone or
\* a document, or left with an answer or a cancel that went wrong.
THEOREM NoNumberIsWasted == Spec => []UsedIsAccountedFor
  <1>1. Init => UsedIsAccountedFor
    BY DEF Init, UsedIsAccountedFor, UsedNumbers
  <1>2. QED
    BY InitIInv, NextIInv, <1>1, NextAccounted, PTL DEF Spec

=============================================================================
