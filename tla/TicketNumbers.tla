--------------------------- MODULE TicketNumbers ---------------------------
(***************************************************************************)
(* The numbers of legal documents (plugin FProcess).  A table holds the    *)
(* printed numbers; a phone is given one (getticketid), or a hundred to    *)
(* work without network (getIDLeaveLine), gives one back (cancleticketid)  *)
(* or files a document under it (putResult); the office adds numbers       *)
(* (AddNumber).  One instance is one of the tables cfjdsnumber, qznumber   *)
(* and sgnumber, which are treated alike.                                  *)
(*                                                                         *)
(* A handler runs under the plugin's mutex (PluginDispatch), so that it is *)
(* one action; but its statements are no transaction, and the result of    *)
(* most is ignored.  One that fails may have been executed or not ("Lost   *)
(* connection during query" is not repeated).  A crash of the server in a  *)
(* handler is the case that the rest of its statements fail and its answer *)
(* is lost.                                                                *)
(***************************************************************************)
EXTENDS Naturals, FiniteSets, FiniteSetsExt

CONSTANTS Device,   \* the phones
          Number,   \* the numbers the office may add
          Vio,      \* the violation records documents are about
          Usetype,  \* 0, 3: decisions on penalties; 1, 2: other documents
          LIMIT,    \* how many numbers getIDLeaveLine gives: 100
          MaxRows,  \* bound: rows with the same number
          None      \* no number

ASSUME NumberAssumption == Number \subseteq Nat /\ LIMIT \in Nat \ {0}
ASSUME RowsAssumption == MaxRows \in Nat
ASSUME UsetypeAssumption == Usetype \in 0..3
ASSUME NoneAssumption == None \notin Number

VARIABLES table,      \* how many rows have each number with isuse 0 and 1
          gresXML,    \* the numbers in the plugin's last response
          waiting,    \* whether each phone waits for an answer
          answer,     \* the numbers in the answer it waits for
          held,       \* the numbers each phone has in hand
          cancelled,  \* the number each phone last gave back, or None
          documents,  \* the documents: who filed it, its number, its record
          disposed,   \* the records with disposetype 1
          lost,       \* numbers that went with a lost or a false answer, or with
                      \* a lost cancel
          doubt       \* numbers whose mark, answer or cancel went wrong

rows == <<table, gresXML>>
phones == <<waiting, answer, held, cancelled>>
filed == <<documents, disposed>>
vars == <<table, gresXML, waiting, answer, held, cancelled, documents,
          disposed, lost, doubt>>

Rows == [number : Number, copy : 1..MaxRows]

\* (Wrong: SELECT without isuse = 0.)
AnyRows == {x \in Rows : x.copy <= table[x.number][0] + table[x.number][1]}

\* SELECT number ... WHERE isuse = 0.
FreeRows == {x \in Rows : x.copy <= table[x.number][0]}

\* ... LIMIT 0,limit: any rows, as there is no order; none if the query fails.
Selected(limit) ==
  {{}} \cup {{x.number : x \in S} :
              S \in kSubset(IF limit < Cardinality(FreeRows)
                            THEN limit ELSE Cardinality(FreeRows), FreeRows)}

\* UPDATE ... SET isuse = v WHERE number = id, for each of ids.
Update(ids, v) ==
  [n \in Number |->
     IF n \in ids
     THEN [w \in {0, 1} |-> IF w = v THEN table[n][0] + table[n][1] ELSE 0]
     ELSE table[n]]

FreeNumbers == {n \in Number : table[n][0] > 0}
UsedNumbers == {n \in Number : table[n][1] > 0}

\* The numbers a phone has, is going to have, or has used.
Filed(d) == {doc.number : doc \in {x \in documents : x.by = d}}
Claims(d) == held[d] \cup answer[d] \cup Filed(d)
Claimed == UNION {Claims(d) : d \in Device}

Init ==
  /\ table = [n \in Number |-> [v \in {0, 1} |-> 0]]
  /\ gresXML = {}
  /\ waiting = [d \in Device |-> FALSE]
  /\ answer = [d \in Device |-> {}]
  /\ held = [d \in Device |-> {}]
  /\ cancelled = [d \in Device |-> None]
  /\ documents = {}
  /\ disposed = {}
  /\ lost = {}
  /\ doubt = {}

-----------------------------------------------------------------------------
(* The handlers.                                                           *)

\* (Wrong: all the free numbers are marked, UPDATE ... WHERE isuse = 0.)
TakeAll(d, limit) ==
  /\ ~waiting[d]
  /\ waiting' = [waiting EXCEPT ![d] = TRUE]
  /\ \E ids \in Selected(limit) :
       /\ table' = Update(FreeNumbers, 1)
       /\ gresXML' = ids
       /\ answer' = [answer EXCEPT ![d] = ids]
  /\ UNCHANGED <<held, cancelled, filed, lost, doubt>>

\* Up to limit numbers are selected, each is marked, whether or not the UPDATE
\* is executed, and all of them are the response.
Take(d, limit) ==
  /\ ~waiting[d]
  /\ waiting' = [waiting EXCEPT ![d] = TRUE]
  /\ \E ids \in Selected(limit) : \E marked \in SUBSET ids :
       /\ table' = Update(marked, 1)
       /\ gresXML' = ids
       /\ answer' = [answer EXCEPT ![d] = ids]
       /\ lost' = lost \ ids
       /\ doubt' = doubt \cup (ids \ marked)
  /\ UNCHANGED <<held, cancelled, filed>>

getticketid(d) == Take(d, 1)

getIDLeaveLine(d) == Take(d, LIMIT)

\* The UPDATE is executed or not; nobody checks who has the number.
Release(n) ==
  /\ \/ /\ table' = Update({n}, 0)
        /\ lost' = lost \ {n}
     \/ /\ table' = table
        /\ lost' = lost \cup {n}
  /\ gresXML' = {}

\* A phone gives back a number it has and does not use.
cancleticketid(d, n) ==
  /\ n \in held[d]
  /\ held' = [held EXCEPT ![d] = @ \ {n}]
  /\ cancelled' = [cancelled EXCEPT ![d] = n]
  /\ Release(n)
  /\ UNCHANGED <<waiting, answer, filed, doubt>>

\* It repeats the request, as after a lost answer; meanwhile the number may be
\* another phone's.
RepeatCancel(d) ==
  LET n == cancelled[d] IN
  /\ n # None
  /\ Release(n)
  /\ doubt' = IF n \in Claimed THEN doubt \cup {n} ELSE doubt
  /\ UNCHANGED <<phones, filed>>

\* The INSERT is executed or not.  The phone gives the number up when it reads
\* a success, which after a failed INSERT may be that of another handler in
\* gresXML, and otherwise keeps it, though the document may be there.  The
\* record of a penalty is marked in any case, if the UPDATE is executed; the
\* UPDATE of the blacklist that follows is malformed.
putResult(d, n, v) ==
  /\ n \in held[d]
  /\ \E saved, told \in BOOLEAN :
       /\ documents' = documents \cup
            (IF saved THEN {[by |-> d, number |-> n, vio |-> v]} ELSE {})
       /\ held' = IF told THEN [held EXCEPT ![d] = @ \ {n}] ELSE held
       /\ doubt' = IF saved /\ ~told THEN doubt \cup {n} ELSE doubt
       /\ lost' = IF told /\ ~saved THEN lost \cup {n} ELSE lost
  /\ \/ Usetype \in {0, 3} /\ disposed' = disposed \cup {v}
     \/ UNCHANGED disposed
  /\ gresXML' = {}
  /\ UNCHANGED <<table, waiting, answer, cancelled>>

\* (Wrong: one number too many is inserted.)
AddNumberOneMore(startid, count) ==
  LET range == startid .. startid + count IN
  /\ table' = [n \in Number \cup range |->
                 IF n \in range THEN [v \in {0, 1} |-> 1 - v] ELSE table[n]]
  /\ gresXML' = {}
  /\ UNCHANGED <<phones, filed, lost, doubt>>

\* Every number of the range is inserted.  The SELECT that looks for the first
\* of them may fail, and then it prevents nothing; the others are not looked
\* for.  An INSERT may fail, as it does if number is a key of the table; if it
\* is not, a number may be there twice.
AddNumber(startid, count) ==
  LET range == startid .. startid + count - 1 IN
  /\ range \subseteq Number
  /\ \E added \in SUBSET range :
       /\ \A n \in added : table[n][0] + table[n][1] < MaxRows
       /\ table' = [n \in Number |->
                      IF n \in added THEN [table[n] EXCEPT ![0] = @ + 1]
                      ELSE table[n]]
       /\ doubt' = doubt \cup (added \cap Claimed)
  /\ gresXML' = {}
  /\ UNCHANGED <<phones, filed, lost>>

-----------------------------------------------------------------------------
(* The answer, read out of gresXML after the mutex is released.            *)

Receive(d) ==
  /\ waiting[d]
  /\ held' = [held EXCEPT ![d] = @ \cup answer[d]]
  /\ waiting' = [waiting EXCEPT ![d] = FALSE]
  /\ answer' = [answer EXCEPT ![d] = {}]
  /\ UNCHANGED <<rows, cancelled, filed, lost, doubt>>

\* Another handler has assigned gresXML: the phone reads its response.
ReceiveOther(d) ==
  /\ waiting[d] /\ answer[d] # gresXML
  /\ held' = [held EXCEPT ![d] = @ \cup gresXML]
  /\ waiting' = [waiting EXCEPT ![d] = FALSE]
  /\ answer' = [answer EXCEPT ![d] = {}]
  /\ lost' = lost \cup answer[d]
  /\ doubt' = doubt \cup gresXML
  /\ UNCHANGED <<rows, cancelled, filed>>

\* The answer, or what is left of it, does not arrive.
LoseAnswer(d) ==
  /\ waiting[d]
  /\ waiting' = [waiting EXCEPT ![d] = FALSE]
  /\ answer' = [answer EXCEPT ![d] = {}]
  /\ lost' = lost \cup answer[d]
  /\ UNCHANGED <<rows, held, cancelled, filed, doubt>>

Phone(d) ==
  \/ getticketid(d) \/ getIDLeaveLine(d)
  \/ \E n \in Number : cancleticketid(d, n)
  \/ RepeatCancel(d)
  \/ \E n \in Number, v \in Vio : putResult(d, n, v)
  \/ Receive(d) \/ ReceiveOther(d) \/ LoseAnswer(d)

Next ==
  \/ \E d \in Device : Phone(d)
  \/ \E startid \in Number, count \in 1..Cardinality(Number) :
       AddNumber(startid, count)

Spec == Init /\ [][Next]_vars

-----------------------------------------------------------------------------
(* Properties.                                                             *)

TypeOK ==
  /\ table \in [Number -> [{0, 1} -> Nat]]
  /\ \A n \in Number : table[n][0] + table[n][1] <= MaxRows
  /\ gresXML \subseteq Number
  /\ waiting \in [Device -> BOOLEAN]
  /\ answer \in [Device -> SUBSET Number]
  /\ held \in [Device -> SUBSET Number]
  /\ cancelled \in [Device -> Number \cup {None}]
  /\ documents \subseteq [by : Device, number : Number, vio : Vio]
  /\ disposed \subseteq Vio
  /\ lost \subseteq Number /\ doubt \subseteq Number

\* A document's number is unique: two phones have, or have used, the same one
\* only if an UPDATE that marks it was not executed, a response was
\* overwritten before it was sent, a cancel was repeated, a filed document was
\* reported as failed, or the number was added again.
GivenTwiceOnlyInDoubt ==
  \A d, e \in Device : d # e => Claims(d) \cap Claims(e) \subseteq doubt

\* A number in a phone or in a document is not on offer, with the same
\* exceptions; what is given back or marked in one row is so in all of them.
ClaimedIsNotFree == Claimed \cap FreeNumbers \subseteq doubt

\* No number is withdrawn for nothing: one that is not free is a phone's, a
\* document's, or went with an answer that was lost or was another handler's,
\* or with a cancel that was lost.
UsedIsAccountedFor == UsedNumbers \subseteq Claimed \cup lost
=============================================================================
