---------------------------- MODULE ImpalaProofs ----------------------------
(***************************************************************************)
(* For any number of coroutines, calls and budgets, whatever raises and    *)
(* whenever the process dies: an operation is sent to Impala at most once, *)
(* its ledger row never moves back, what ledger, result.json and query     *)
(* record say of a query agrees and is true, and the budgets cover every   *)
(* row that was or may still be delivered.                                 *)
(***************************************************************************)
EXTENDS ImpalaQuery, FiniteSetTheorems, TLAPS

CallerRow == [pc : {"idle", "waiting", "prepared", "started", "calling", "written"},
              call : Calls \cup {None}]
PCs      == {"none", "connect", "identity", "sent", "cleanup", "saving", "over"}
Statuses == {"RUNNING"} \cup Ended
QueryRow == [pc : PCs, status : Statuses, asked : Nat, rows : Nat]

\* Types, as far as the argument needs them.
DispatchTypes ==
    /\ caller \in [Callers -> CallerRow]
    /\ lock \in [Calls -> Callers \cup {None}]
    /\ ledger \in [Calls -> {"ABSENT", "PREPARED", "RUNNING"} \cup Ended]
    /\ query \in [Calls -> QueryRow]
    /\ DOMAIN record = Calls
    /\ sent \in [Calls -> Nat]

\* A coroutine past the stripe holds it, and knows how far the ledger is.
Dispatching(c) == caller[c].pc \in {"started", "calling", "written"}
HoldsStripe(c) ==
    /\ caller[c].pc # "idle" => caller[c].call \in Calls
    /\ caller[c].pc = "prepared" \/ Dispatching(c) => lock[caller[c].call] = c
    /\ caller[c].pc = "prepared" => ledger[caller[c].call] = "PREPARED"
    /\ Dispatching(c) => ledger[caller[c].call] = "RUNNING"

\* The ledger is written before the record, the record before the SQL is sent.
EvidenceFirst(k) ==
    /\ Fresh(k) => record[k] = None /\ query[k].pc = "none"
    /\ record[k] = None => sent[k] = 0 /\ query[k].pc \in {"none", "over"}
    /\ query[k].pc \in {"connect", "identity"} => sent[k] = 0
    /\ sent[k] <= 1

DispatchInv ==
    /\ DispatchTypes
    /\ \A c \in Callers : HoldsStripe(c)
    /\ \A k \in Calls : EvidenceFirst(k)

-----------------------------------------------------------------------------
\* A process without calls: nothing is dispatched, recorded or sent.
LEMMA DispatchInit == ImpalaInit => DispatchInv
  BY CallsAssumption
     DEF ImpalaInit, DispatchInv, DispatchTypes, CallerRow, QueryRow, PCs, Statuses, HoldsStripe, Dispatching,
         EvidenceFirst, Fresh, Resting, NoQuery, Ended, Certain

\* A thread moves on: its row stays a row, the others stay as they are.
LEMMA Moved ==
    ASSUME query \in [Calls -> QueryRow], NEW k \in Calls,
           NEW pc \in PCs, NEW status \in Statuses, NEW rows \in Nat,
           \/ query' = [query EXCEPT ![k].pc = pc]
           \/ query' = [query EXCEPT ![k].pc = pc, ![k].status = status]
           \/ query' = [query EXCEPT ![k].pc = pc, ![k].status = status, ![k].rows = rows]
           \/ query' = [query EXCEPT ![k].pc = pc, ![k].rows = rows, ![k].status = status]
    PROVE  /\ query' \in [Calls -> QueryRow]
           /\ query'[k].pc = pc
           /\ \A j \in Calls \ {k} : query'[j] = query[j]
<1>0. query[k] \in QueryRow
  OBVIOUS
<1>1. CASE query' = [query EXCEPT ![k].pc = pc]
  <2>1. PICK row : row = [query[k] EXCEPT !.pc = pc]
    OBVIOUS
  <2>2. row \in QueryRow /\ row.pc = pc
    BY <1>0, <2>1 DEF QueryRow
  <2>3. query' = [query EXCEPT ![k] = row]
    BY <1>1, <2>1
  <2> QED
    BY <2>2, <2>3
<1>2. CASE query' = [query EXCEPT ![k].pc = pc, ![k].status = status]
  <2>1. PICK row : row = [query[k] EXCEPT !.pc = pc, !.status = status]
    OBVIOUS
  <2>2. row \in QueryRow /\ row.pc = pc
    BY <1>0, <2>1 DEF QueryRow
  <2>3. query' = [query EXCEPT ![k] = row]
    BY <1>2, <2>1
  <2> QED
    BY <2>2, <2>3
<1>3. CASE query' = [query EXCEPT ![k].pc = pc, ![k].status = status, ![k].rows = rows]
  <2>1. PICK row : row = [query[k] EXCEPT !.pc = pc, !.status = status, !.rows = rows]
    OBVIOUS
  <2>2. row \in QueryRow /\ row.pc = pc
    BY <1>0, <2>1 DEF QueryRow
  <2>3. query' = [query EXCEPT ![k] = row]
    BY <1>3, <2>1
  <2> QED
    BY <2>2, <2>3
<1>4. CASE query' = [query EXCEPT ![k].pc = pc, ![k].rows = rows, ![k].status = status]
  <2>1. PICK row : row = [query[k] EXCEPT !.pc = pc, !.rows = rows, !.status = status]
    OBVIOUS
  <2>2. row \in QueryRow /\ row.pc = pc
    BY <1>0, <2>1 DEF QueryRow
  <2>3. query' = [query EXCEPT ![k] = row]
    BY <1>4, <2>1
  <2> QED
    BY <2>2, <2>3
<1> QED
  BY <1>1, <1>2, <1>3, <1>4

\* What it takes for the evidence to stay first when one thread moves.
LEMMA ThreadMoves ==
    ASSUME DispatchInv, NEW k \in Calls, query[k].pc \notin {"none", "over"},
           caller' = caller, lock' = lock, ledger' = ledger,
           DOMAIN record' = Calls, sent' \in [Calls -> Nat],
           query' \in [Calls -> QueryRow],
           \A j \in Calls \ {k} :
               query'[j] = query[j] /\ record'[j] = record[j] /\ sent'[j] = sent[j],
           record'[k] # None, sent'[k] <= 1,
           query'[k].pc \in {"connect", "identity"} => sent'[k] = 0
    PROVE  DispatchInv'
<1>1. \A c \in Callers : HoldsStripe(c)'
  BY DEF DispatchInv, HoldsStripe, Dispatching
<1>2. ASSUME NEW j \in Calls PROVE EvidenceFirst(j)'
  <2>1. CASE j # k
    BY <2>1 DEF DispatchInv, EvidenceFirst, Fresh
  <2>2. CASE j = k
    BY <2>2 DEF DispatchInv, EvidenceFirst, Fresh
  <2> QED
    BY <2>1, <2>2
<1> QED
  BY <1>1, <1>2 DEF DispatchInv, DispatchTypes

\* The thread of a query sends its SQL once, after its record was written (_execute).
LEMMA ThreadStep ==
    ASSUME DispatchInv, NEW k \in Calls, Thread(k)
    PROVE  DispatchInv'
<1>0. /\ query \in [Calls -> QueryRow] /\ sent \in [Calls -> Nat] /\ DOMAIN record = Calls
      /\ query[k].pc \notin {"none", "over"} => record[k] # None
      /\ query[k].pc \in {"connect", "identity"} => sent[k] = 0
      /\ sent[k] <= 1
  BY DEF DispatchInv, DispatchTypes, EvidenceFirst
<1>1. CASE Connects(k)
  <2>1. query' = [query EXCEPT ![k].pc = "identity"] /\ query[k].pc = "connect"
    BY <1>1 DEF Connects, Runs
  <2>2. query' \in [Calls -> QueryRow] /\ \A j \in Calls \ {k} : query'[j] = query[j]
    BY <1>0, <2>1 DEF QueryRow, PCs
  <2> QED
    BY <1>0, <1>1, <2>1, <2>2, ThreadMoves DEF Connects, files
<1>2. CASE Submits(k)
  <2>1. query' = [query EXCEPT ![k].pc = "sent"] /\ query[k].pc = "identity"
    BY <1>2 DEF Submits, Runs
  <2>2. /\ query' \in [Calls -> QueryRow] /\ \A j \in Calls \ {k} : query'[j] = query[j]
        /\ query'[k].pc = "sent"
    BY <1>0, <2>1 DEF QueryRow, PCs
  <2>3. sent' \in [Calls -> Nat] /\ sent'[k] = 1 /\ \A j \in Calls \ {k} : sent'[j] = sent[j]
    BY <1>0, <1>2, <2>1 DEF Submits
  <2> QED
    BY <1>0, <1>2, <2>1, <2>2, <2>3, ThreadMoves DEF Submits, files
<1>3. CASE Interrupted(k)
  <2>1. PICK pc \in {"saving", "cleanup"}, status \in Statuses :
             query' = [query EXCEPT ![k].pc = pc, ![k].status = status]
    BY <1>3 DEF Interrupted, AfterFailure, Statuses, Ended, Certain
  <2>2. /\ query' \in [Calls -> QueryRow] /\ query'[k].pc = pc
        /\ \A j \in Calls \ {k} : query'[j] = query[j]
    BY <1>0, <2>1, Moved, ZenonT(40) DEF PCs
  <2>3. query[k].pc \notin {"none", "over"}
    BY <1>3 DEF Interrupted, Interruptible
  <2>4. caller' = caller /\ lock' = lock /\ ledger' = ledger /\ record' = record /\ sent' = sent
    BY <1>3 DEF Interrupted, files
  <2> QED
    BY <1>0, <2>2, <2>3, <2>4, ThreadMoves
<1>4. ASSUME NEW rows \in 0 .. query[k].asked, Fetches(k, rows) PROVE DispatchInv'
  <2>1. /\ query' = [query EXCEPT ![k].pc = "cleanup", ![k].status = "SUCCEEDED",
                                  ![k].rows = rows]
        /\ query[k].pc = "sent"
    BY <1>4 DEF Fetches, Runs
  <2>2. /\ query' \in [Calls -> QueryRow] /\ query'[k].pc = "cleanup"
        /\ \A j \in Calls \ {k} : query'[j] = query[j]
    <3>1. rows \in Nat
      BY <1>0 DEF QueryRow
    <3>2. "cleanup" \in PCs /\ "SUCCEEDED" \in Statuses
      BY DEF PCs, Statuses, Ended, Certain
    <3> QED
      BY <1>0, <2>1, <3>1, <3>2, Moved, ZenonT(40)
  <2>4. caller' = caller /\ lock' = lock /\ ledger' = ledger /\ record' = record /\ sent' = sent
    BY <1>4 DEF Fetches, files
  <2> QED
    BY <1>0, <2>1, <2>2, <2>4, ThreadMoves
<1>5. ASSUME NEW arrived \in BOOLEAN, DriverRaises(k, arrived) PROVE DispatchInv'
  <2>1. PICK pc \in {"saving", "cleanup"}, status \in Statuses :
             query' = [query EXCEPT ![k].pc = pc, ![k].status = status]
    BY <1>5 DEF DriverRaises, AfterFailure, Statuses, Ended, Certain
  <2>2. /\ query' \in [Calls -> QueryRow] /\ query'[k].pc = pc
        /\ \A j \in Calls \ {k} : query'[j] = query[j]
    BY <1>0, <2>1, Moved, ZenonT(40) DEF PCs
  <2>3. query[k].pc \notin {"none", "over"}
    BY <1>5 DEF DriverRaises, Interruptible
  <2>4. caller' = caller /\ lock' = lock /\ ledger' = ledger /\ record' = record
    BY <1>5 DEF DriverRaises, files
  <2>5. /\ sent' \in [Calls -> Nat] /\ sent'[k] <= 1
        /\ \A j \in Calls \ {k} : sent'[j] = sent[j]
    <3>1. sent' = [sent EXCEPT ![k] = IF arrived THEN sent[k] + 1 ELSE sent[k]]
      BY <1>5 DEF DriverRaises
    <3>2. arrived => sent[k] = 0
      BY <1>0, <1>5 DEF DriverRaises, Runs
    <3> QED
      BY <1>0, <3>1, <3>2
  <2> QED
    BY <1>0, <2>2, <2>3, <2>4, <2>5, ThreadMoves
<1>6. CASE CleansUp(k)
  <2>1. /\ query[k].pc = "cleanup"
        /\ \/ query' = [query EXCEPT ![k].pc = "saving"]
           \/ query' = [query EXCEPT ![k].pc = "saving", ![k].rows = 0, ![k].status = "UNKNOWN"]
        /\ caller' = caller /\ lock' = lock /\ ledger' = ledger /\ record' = record
        /\ sent' = sent
    BY <1>6 DEF CleansUp, Runs, Unconfirmed, files
  <2>2. /\ query' \in [Calls -> QueryRow] /\ query'[k].pc = "saving"
        /\ \A j \in Calls \ {k} : query'[j] = query[j]
    <3>2. "saving" \in PCs /\ "UNKNOWN" \in Statuses /\ 0 \in Nat
      BY DEF PCs, Statuses, Ended
    <3>1. CASE query' = [query EXCEPT ![k].pc = "saving"]
      BY <1>0, <3>1, <3>2, Moved
    <3>3. CASE query' = [query EXCEPT ![k].pc = "saving", ![k].rows = 0,
                                      ![k].status = "UNKNOWN"]
      BY <1>0, <3>3, <3>2, Moved
    <3> QED
      BY <2>1, <3>1, <3>3
  <2> QED
    BY <1>0, <2>1, <2>2, ThreadMoves
<1>7. CASE Saves(k) \/ \E written \in 0 .. NBudgets : SaveRaises(k, written)
  <2>1. /\ query[k].pc = "saving"
        /\ caller' = caller /\ lock' = lock /\ ledger' = ledger /\ sent' = sent
        /\ record' = record \/ record' = Saved(k)
        /\ query' = [query EXCEPT ![k].pc = "over"] \/ query' = [query EXCEPT ![k] = Over("UNKNOWN")]
    BY <1>7 DEF Saves, SaveRaises, Runs
  <2>2. DOMAIN record' = Calls /\ \A j \in Calls \ {k} : record'[j] = record[j]
    BY <1>0, <2>1 DEF Saved
  <2>3. record'[k] # None
    <3>1. [status |-> query[k].status, rows |-> query[k].rows]
              \in [status : {"RUNNING"} \cup Ended, rows : Nat]
      BY <1>0 DEF QueryRow, Statuses
    <3>2. [status |-> query[k].status, rows |-> query[k].rows] # None
      BY <3>1, NoneIsNoRecord
    <3> QED
      BY <1>0, <2>1, <3>2 DEF Saved
  <2>4. /\ query' \in [Calls -> QueryRow] /\ query'[k].pc = "over"
        /\ \A j \in Calls \ {k} : query'[j] = query[j]
    <3>1. CASE query' = [query EXCEPT ![k].pc = "over"]
      BY <1>0, <3>1 DEF QueryRow, PCs
    <3>2. CASE query' = [query EXCEPT ![k] = Over("UNKNOWN")]
      <4>1. Over("UNKNOWN") \in QueryRow /\ Over("UNKNOWN").pc = "over"
        BY DEF QueryRow, PCs, Statuses, Over, NoQuery, Ended
      <4> QED
        BY <1>0, <3>2, <4>1
    <3> QED
      BY <2>1, <3>1, <3>2
  <2> QED
    BY <1>0, <2>1, <2>2, <2>3, <2>4, ThreadMoves
<1> QED
  BY <1>1, <1>2, <1>3, <1>4, <1>5, <1>6, <1>7 DEF Thread

-----------------------------------------------------------------------------
\* What it takes for the invariant to hold when one coroutine moves, for the call it is in.
LEMMA DispatchMoves ==
    ASSUME DispatchInv, NEW c \in Callers, NEW k \in Calls, NEW row \in CallerRow,
           caller' = [caller EXCEPT ![c] = row],
           lock' \in [Calls -> Callers \cup {None}],
           ledger' \in [Calls -> {"ABSENT", "PREPARED", "RUNNING"} \cup Ended],
           query' \in [Calls -> QueryRow],
           DOMAIN record' = Calls, sent' = sent,
           \A j \in Calls \ {k} : /\ lock'[j] = lock[j] /\ ledger'[j] = ledger[j]
                                  /\ query'[j] = query[j] /\ record'[j] = record[j],
           lock[k] \in {c, None} \/ (lock'[k] = lock[k] /\ ledger'[k] = ledger[k]),
           HoldsStripe(c)', EvidenceFirst(k)'
    PROVE  DispatchInv'
<1>1. ASSUME NEW d \in Callers PROVE HoldsStripe(d)'
  <2>1. CASE d = c
    BY <2>1
  <2>2. CASE d # c
    <3>1. caller'[d] = caller[d] /\ HoldsStripe(d)
      BY <2>2 DEF DispatchInv, DispatchTypes
    <3>2. CASE caller[d].pc \in {"idle", "waiting"}
      BY <3>1, <3>2 DEF HoldsStripe, Dispatching
    <3>3. CASE caller[d].pc \notin {"idle", "waiting"}
      <4>1. caller[d].pc = "prepared" \/ Dispatching(d)
        BY <3>3 DEF DispatchInv, DispatchTypes, CallerRow, Dispatching
      <4>2. caller[d].call \in Calls /\ lock[caller[d].call] = d
        BY <3>1, <3>3, <4>1 DEF HoldsStripe
      <4>3. d \notin {c, None}
        BY <2>2, CallsAssumption
      <4>4. /\ lock'[caller[d].call] = lock[caller[d].call]
            /\ ledger'[caller[d].call] = ledger[caller[d].call]
        BY <4>2, <4>3
      <4> QED
        BY <3>1, <4>2, <4>4 DEF HoldsStripe, Dispatching
    <3> QED
      BY <3>2, <3>3
  <2> QED
    BY <2>1, <2>2
<1>2. ASSUME NEW j \in Calls PROVE EvidenceFirst(j)'
  <2>1. CASE j # k
    BY <2>1 DEF DispatchInv, EvidenceFirst, Fresh
  <2>2. CASE j = k
    BY <2>2
  <2> QED
    BY <2>1, <2>2
<1>3. caller' \in [Callers -> CallerRow] /\ sent' \in [Calls -> Nat]
  BY DEF DispatchInv, DispatchTypes
<1> QED
  BY <1>1, <1>2, <1>3 DEF DispatchInv, DispatchTypes

\* Steps that touch none of this: the remote query, cancellation, shutdown.
LEMMA BystanderStep ==
    ASSUME DispatchInv,
           \/ \E k \in Calls : RemoteEnds(k) \/ CancelsQuery(k)
           \/ CancelsRun \/ Stops \/ UNCHANGED impalaVars
    PROVE  DispatchInv' /\ ledger' = ledger
<1>1. /\ caller' = caller /\ lock' = lock /\ ledger' = ledger /\ query' = query
      /\ record' = record /\ sent' = sent
  BY DEF RemoteEnds, CancelsQuery, CancelsRun, Stops, files, impalaVars
<1> QED
  BY <1>1 DEF DispatchInv, DispatchTypes, HoldsStripe, Dispatching, EvidenceFirst, Fresh

\* A call that waits for its stripe has changed nothing yet.
LEMMA ExecutesStep ==
    ASSUME DispatchInv, NEW c \in Callers, NEW k \in Calls, Executes(c, k)
    PROVE  DispatchInv'
<1> DEFINE row == [pc |-> "waiting", call |-> k]
<1>1. row \in CallerRow
  BY DEF CallerRow
<1>2. /\ caller' = [caller EXCEPT ![c] = row]
      /\ lock' = lock /\ ledger' = ledger /\ query' = query /\ record' = record /\ sent' = sent
  BY DEF Executes, files
<1>3. HoldsStripe(c)'
  BY <1>2 DEF DispatchInv, DispatchTypes, HoldsStripe, Dispatching
<1>4. EvidenceFirst(k)'
  BY <1>2 DEF DispatchInv, EvidenceFirst, Fresh
<1> QED
  BY <1>1, <1>2, <1>3, <1>4, DispatchMoves DEF DispatchInv, DispatchTypes

\* A coroutine moves its call on in the ledger, never back, and holds the stripe of the
\* call while it does (_execute_locked).
LEMMA DispatchStep ==
    ASSUME DispatchInv, NEW c \in Callers, Dispatches(c)
    PROVE  /\ DispatchInv'
           /\ \A k \in Calls :
                /\ ledger[k] \in Ended => ledger'[k] = ledger[k]
                /\ ledger[k] = "RUNNING" => ledger'[k] \in {"RUNNING"} \cup Ended
<1>k. PICK k : k = caller[c].call
  OBVIOUS
<1> USE <1>k
<1> DEFINE at(pc) == [caller[c] EXCEPT !.pc = pc]
           Goal == /\ DispatchInv'
                   /\ \A j \in Calls :
                        /\ ledger[j] \in Ended => ledger'[j] = ledger[j]
                        /\ ledger[j] = "RUNNING" => ledger'[j] \in {"RUNNING"} \cup Ended
<1>0. /\ DispatchTypes /\ HoldsStripe(c) /\ caller[c] \in CallerRow
      /\ caller[c].pc # "idle" => k \in Calls /\ EvidenceFirst(k)
  BY DEF DispatchInv, DispatchTypes, HoldsStripe
<1>a. \A pc \in {"prepared", "started", "calling", "written"} :
        at(pc) \in CallerRow /\ at(pc).pc = pc /\ at(pc).call = k
  BY <1>0 DEF CallerRow
<1>b. Resting \in CallerRow /\ Resting.pc = "idle"
  BY DEF CallerRow, Resting
<1>c. NoQuery \in QueryRow /\ NoQuery.pc = "none"
  BY DEF NoQuery, QueryRow, PCs, Statuses
<1>d. \A status \in {"FAILED", "UNKNOWN"} :
        Over(status) \in QueryRow /\ Over(status).pc = "over"
  BY DEF Over, NoQuery, QueryRow, PCs, Statuses, Ended, Certain
<1>1. CASE TurnedAway(c)
  <2>1. /\ caller' = [caller EXCEPT ![c] = Resting] /\ caller[c].pc = "waiting"
        /\ lock' = lock /\ ledger' = ledger /\ query' = query /\ record' = record
        /\ sent' = sent
    BY <1>1 DEF TurnedAway, At, files
  <2>2. HoldsStripe(c)' /\ EvidenceFirst(k)'
    BY <1>0, <1>b, <2>1 DEF DispatchTypes, HoldsStripe, Dispatching, EvidenceFirst, Fresh
  <2> QED
    BY <1>0, <1>b, <2>1, <2>2, DispatchMoves DEF DispatchTypes
<1>2. CASE Prepares(c)
  <2>1. /\ caller' = [caller EXCEPT ![c] = at("prepared")] /\ caller[c].pc = "waiting"
        /\ lock[k] = None /\ lock' = [lock EXCEPT ![k] = c]
        /\ ledger[k] \in {"ABSENT", "PREPARED"}
        /\ ledger' = [ledger EXCEPT ![k] = "PREPARED"]
        /\ query' = query /\ record' = record /\ sent' = sent
    BY <1>2 DEF Prepares, At, Fresh
  <2>2. HoldsStripe(c)'
    BY <1>0, <1>a, <2>1 DEF DispatchTypes, HoldsStripe, Dispatching
  <2>3. EvidenceFirst(k)'
    BY <1>0, <2>1 DEF DispatchTypes, EvidenceFirst, Fresh
  <2>4. DispatchInv'
    BY <1>0, <1>a, <2>1, <2>2, <2>3, DispatchMoves DEF DispatchTypes
  <2> QED
    BY <1>0, <2>1, <2>4 DEF DispatchTypes, Ended, Certain
<1>3. CASE StartsTool(c)
  <2>1. /\ caller' = [caller EXCEPT ![c] = at("started")] /\ caller[c].pc = "prepared"
        /\ lock' = lock /\ ledger' = [ledger EXCEPT ![k] = "RUNNING"]
        /\ query' = query /\ record' = record /\ sent' = sent
    BY <1>3 DEF StartsTool, At, Started
  <2>2. lock[k] = c /\ ledger[k] = "PREPARED"
    BY <1>0, <2>1 DEF HoldsStripe
  <2>3. HoldsStripe(c)'
    BY <1>0, <1>a, <2>1, <2>2 DEF DispatchTypes, HoldsStripe, Dispatching
  <2>4. EvidenceFirst(k)'
    BY <1>0, <2>1 DEF DispatchTypes, EvidenceFirst, Fresh
  <2>5. DispatchInv'
    BY <1>0, <1>a, <2>1, <2>2, <2>3, <2>4, DispatchMoves DEF DispatchTypes
  <2> QED
    BY <1>0, <2>1, <2>2, <2>5 DEF DispatchTypes, Ended, Certain
<1>4. CASE InputRaises(c)
  <2>1. /\ caller' = [caller EXCEPT ![c] = Resting] /\ caller[c].pc = "prepared"
        /\ lock' = [lock EXCEPT ![k] = None] /\ ledger' = ledger
        /\ query' = query /\ record' = record /\ sent' = sent
    BY <1>4 DEF InputRaises, At, files
  <2>2. lock[k] = c
    BY <1>0, <2>1 DEF HoldsStripe
  <2>3. HoldsStripe(c)' /\ EvidenceFirst(k)'
    BY <1>0, <1>b, <2>1 DEF DispatchTypes, HoldsStripe, Dispatching, EvidenceFirst, Fresh
  <2> QED
    BY <1>0, <1>b, <2>1, <2>2, <2>3, DispatchMoves DEF DispatchTypes
<1>5. ASSUME NEW rows \in 1 .. MaxRows, Reserves(c, rows) PROVE Goal
  <2>1. /\ caller' = [caller EXCEPT ![c] = at("calling")] /\ caller[c].pc = "started"
        /\ lock' = lock /\ ledger' = ledger /\ sent' = sent /\ record[k] = None
        /\ query' = [query EXCEPT ![k] = [NoQuery EXCEPT !.pc = "connect", !.asked = rows]]
        /\ record' = [record EXCEPT ![k] = [status |-> "RUNNING", rows |-> rows]]
    BY <1>5 DEF Reserves, At, Admits
  <2>2. PICK row : row = [NoQuery EXCEPT !.pc = "connect", !.asked = rows]
    OBVIOUS
  <2>3. row \in QueryRow /\ row.pc = "connect"
    <3>1. row = [pc |-> "connect", status |-> "RUNNING", asked |-> rows, rows |-> 0]
      BY <2>2 DEF NoQuery
    <3> QED
      BY <3>1, LimitsAssumption DEF QueryRow, PCs, Statuses
  <2>4. query' = [query EXCEPT ![k] = row] /\ k \in Calls
    BY <1>0, <2>1, <2>2
  <2>5. lock[k] = c /\ ledger[k] = "RUNNING"
    BY <1>0, <2>1 DEF HoldsStripe, Dispatching
  <2>6. HoldsStripe(c)'
    BY <1>0, <1>a, <2>1, <2>5 DEF DispatchTypes, HoldsStripe, Dispatching
  <2>7. record'[k] # None
    <3>1. [status |-> "RUNNING", rows |-> rows] \in [status : {"RUNNING"} \cup Ended, rows : Nat]
      BY LimitsAssumption
    <3> QED
      BY <1>0, <2>1, <2>4, <3>1, NoneIsNoRecord DEF DispatchTypes
  <2>8. EvidenceFirst(k)'
    BY <1>0, <2>1, <2>3, <2>4, <2>5, <2>7 DEF DispatchTypes, EvidenceFirst, Fresh
  <2>9. /\ DOMAIN record' = Calls /\ \A j \in Calls \ {k} : record'[j] = record[j]
        /\ query' \in [Calls -> QueryRow] /\ \A j \in Calls \ {k} : query'[j] = query[j]
    BY <1>0, <2>1, <2>3, <2>4 DEF DispatchTypes
  <2> QED
    BY <1>0, <1>a, <2>1, <2>4, <2>5, <2>6, <2>8, <2>9, DispatchMoves DEF DispatchTypes
<1>6. ASSUME NEW rows \in 1 .. MaxRows, NEW written \in 0 .. NBudgets,
             Refused(c, rows) \/ ReserveRaises(c, rows, written)
      PROVE  Goal
  <2>1. PICK row \in QueryRow :
          /\ row.pc = "over" /\ query' = [query EXCEPT ![k] = row]
          /\ caller' = [caller EXCEPT ![c] = at("calling")] /\ caller[c].pc = "started"
          /\ lock' = lock /\ ledger' = ledger /\ sent' = sent
          /\ \/ record' = record
             \/ record' = [record EXCEPT ![k] = [status |-> "RUNNING", rows |-> rows]]
    <3>1. CASE Refused(c, rows)
      BY <1>d, <3>1 DEF Refused, At, files
    <3>2. CASE ReserveRaises(c, rows, written)
      BY <1>d, <3>2 DEF ReserveRaises, At
    <3> QED
      BY <1>6, <3>1, <3>2
  <2>2. lock[k] = c /\ ledger[k] = "RUNNING" /\ k \in Calls
    BY <1>0, <2>1 DEF HoldsStripe, Dispatching
  <2>3. HoldsStripe(c)'
    BY <1>0, <1>a, <2>1, <2>2 DEF DispatchTypes, HoldsStripe, Dispatching
  <2>4. [status |-> "RUNNING", rows |-> rows] # None
    <3>1. [status |-> "RUNNING", rows |-> rows] \in [status : {"RUNNING"} \cup Ended, rows : Nat]
      BY LimitsAssumption
    <3> QED
      BY <3>1, NoneIsNoRecord
  <2>5. /\ DOMAIN record' = Calls /\ \A j \in Calls \ {k} : record'[j] = record[j]
        /\ record'[k] = None => record[k] = None
    BY <1>0, <2>1, <2>2, <2>4 DEF DispatchTypes
  <2>6. EvidenceFirst(k)'
    BY <1>0, <2>1, <2>2, <2>5 DEF DispatchTypes, EvidenceFirst, Fresh
  <2> QED
    BY <1>0, <1>a, <2>1, <2>2, <2>3, <2>5, <2>6, DispatchMoves DEF DispatchTypes
<1>7. CASE WritesResult(c)
  <2>1. /\ caller' = [caller EXCEPT ![c] = at("written")] /\ caller[c].pc = "calling"
        /\ lock' = lock /\ ledger' = ledger /\ query' = query /\ record' = record
        /\ sent' = sent
    BY <1>7 DEF WritesResult, At
  <2>2. lock[k] = c /\ ledger[k] = "RUNNING"
    BY <1>0, <2>1 DEF HoldsStripe, Dispatching
  <2>3. HoldsStripe(c)'
    BY <1>0, <1>a, <2>1, <2>2 DEF DispatchTypes, HoldsStripe, Dispatching
  <2>4. EvidenceFirst(k)'
    BY <1>0, <2>1 DEF DispatchTypes, EvidenceFirst, Fresh
  <2> QED
    BY <1>0, <1>a, <2>1, <2>2, <2>3, <2>4, DispatchMoves DEF DispatchTypes
<1>8. CASE FinishesTool(c) \/ PersistRaises(c)
  <2>1. PICK status \in {"RUNNING"} \cup Ended :
          /\ caller' = [caller EXCEPT ![c] = Resting]
          /\ caller[c].pc \in {"calling", "written"}
          /\ lock' = [lock EXCEPT ![k] = None]
          /\ ledger' = [ledger EXCEPT ![k] = status]
          /\ query' = [query EXCEPT ![k] = NoQuery]
          /\ record' = record /\ sent' = sent
    <3>1. CASE FinishesTool(c)
      <4>1. query[k].status \in {"RUNNING"} \cup Ended
        BY <1>0, <3>1 DEF FinishesTool, At, DispatchTypes, QueryRow, Statuses
      <4> QED
        BY <3>1, <4>1 DEF FinishesTool, LedgerStatus, At
    <3>2. CASE PersistRaises(c)
      BY <3>2 DEF PersistRaises, At, Ended
    <3> QED
      BY <1>8, <3>1, <3>2
  <2>2. lock[k] = c /\ ledger[k] = "RUNNING" /\ k \in Calls
    BY <1>0, <2>1 DEF HoldsStripe, Dispatching
  <2>3. HoldsStripe(c)'
    BY <1>0, <1>b, <2>1 DEF DispatchTypes, HoldsStripe, Dispatching
  <2>4. EvidenceFirst(k)'
    BY <1>0, <1>c, <2>1, <2>2 DEF DispatchTypes, EvidenceFirst, Fresh, Ended, Certain
  <2>5. /\ query' \in [Calls -> QueryRow] /\ lock' \in [Calls -> Callers \cup {None}]
        /\ ledger' \in [Calls -> {"ABSENT", "PREPARED", "RUNNING"} \cup Ended]
    BY <1>0, <1>c, <2>1 DEF DispatchTypes
  <2>6. DispatchInv'
    BY <1>0, <1>b, <2>1, <2>2, <2>3, <2>4, <2>5, DispatchMoves DEF DispatchTypes
  <2> QED
    BY <1>0, <2>1, <2>2, <2>6 DEF DispatchTypes, Ended, Certain
<1>9. 0 \in 0 .. NBudgets
  BY LimitsAssumption
<1> QED
  BY <1>1, <1>2, <1>3, <1>4, <1>5, <1>6, <1>7, <1>8, <1>9 DEF Dispatches

\* The process dies: a query record may still have been written, nothing else of this.
LEMMA DeathStep ==
    ASSUME DispatchInv, ProcessDies
    PROVE  DispatchInv' /\ ledger' = ledger
<1>1. /\ caller' = [c \in Callers |-> Resting] /\ lock' = [k \in Calls |-> None]
      /\ query' = [k \in Calls |-> NoQuery] /\ ledger' = ledger /\ sent' = sent
  BY DEF ProcessDies
<1>2. record' = record \/ \E k \in Calls : query[k].pc = "saving" /\ record' = Saved(k)
  BY DEF ProcessDies, CutShort, Runs
<1>3. /\ DOMAIN record' = Calls
      /\ \A k \in Calls : \/ record'[k] = record[k]
                          \/ query[k].pc = "saving"
  BY <1>2 DEF Saved, DispatchInv, DispatchTypes
<1>4. \A k \in Calls : record'[k] = None => sent[k] = 0
  <2> SUFFICES ASSUME NEW k \in Calls, record'[k] = None PROVE sent[k] = 0
    OBVIOUS
  <2>1. CASE record'[k] = record[k]
    BY <2>1 DEF DispatchInv, EvidenceFirst
  <2>2. CASE record'[k] # record[k]
    <3>1. /\ record' = Saved(k)
          /\ k \in DOMAIN record
      BY <1>2, <2>2 DEF Saved, DispatchInv, DispatchTypes
    <3>2. [status |-> query[k].status, rows |-> query[k].rows]
              \in [status : {"RUNNING"} \cup Ended, rows : Nat]
      BY DEF DispatchInv, DispatchTypes, QueryRow, Statuses
    <3> QED
      BY <3>1, <3>2, NoneIsNoRecord DEF Saved
  <2> QED
    BY <2>1, <2>2
<1>5. DispatchTypes'
  BY <1>1, <1>3 DEF DispatchInv, DispatchTypes, CallerRow, QueryRow, PCs, Statuses, Resting,
     NoQuery
<1>6. \A c \in Callers : HoldsStripe(c)'
  BY <1>1 DEF HoldsStripe, Dispatching, Resting
<1>7. ASSUME NEW k \in Calls PROVE EvidenceFirst(k)'
  <2>1. query'[k].pc = "none"
    BY <1>1 DEF NoQuery
  <2>2. Fresh(k) => record'[k] = None
    BY <1>3 DEF DispatchInv, EvidenceFirst
  <2> QED
    BY <1>1, <1>4, <2>1, <2>2 DEF DispatchInv, EvidenceFirst, Fresh
<1> QED
  BY <1>1, <1>5, <1>6, <1>7 DEF DispatchInv

\* Threads do not write the ledger.
LEMMA ThreadKeepsLedger ==
    ASSUME NEW k \in Calls, Thread(k)
    PROVE  ledger' = ledger
  BY DEF Thread, Connects, Submits, Interrupted, Fetches, DriverRaises, CleansUp, Saves,
     SaveRaises, files

-----------------------------------------------------------------------------
\* Every step keeps DispatchInv and moves no row of the ledger back.
LEMMA DispatchNext ==
    ASSUME DispatchInv, [ImpalaNext]_impalaVars
    PROVE  /\ DispatchInv'
           /\ \A k \in Calls :
                /\ ledger[k] \in Ended => ledger'[k] = ledger[k]
                /\ ledger[k] = "RUNNING" => ledger'[k] \in {"RUNNING"} \cup Ended
<1>1. CASE \E c \in Callers : Dispatches(c)
  BY <1>1, DispatchStep
<1>2. CASE \E c \in Callers, k \in Calls : Executes(c, k)
  <2>1. ledger' = ledger
    BY <1>2 DEF Executes, files
  <2> QED
    BY <1>2, <2>1, ExecutesStep
<1>3. CASE \E k \in Calls : Thread(k)
  BY <1>3, ThreadStep, ThreadKeepsLedger
<1>4. CASE \/ \E k \in Calls : RemoteEnds(k) \/ CancelsQuery(k)
           \/ CancelsRun \/ Stops \/ UNCHANGED impalaVars
  BY <1>4, BystanderStep
<1>5. CASE ProcessDies
  BY <1>5, DeathStep
<1> QED
  BY <1>1, <1>2, <1>3, <1>4, <1>5 DEF ImpalaNext

\* The SQL of an operation is sent at most once, and never without evidence of the
\* dispatch: prepare_tool admits only fresh operations, start_tool and _reserve write
\* the ledger and the query record before _execute sends anything.
THEOREM SentAtMostOnceTheorem == ImpalaSpec => []SentAtMostOnce
<1>1. DispatchInv => SentAtMostOnce
  BY DEF DispatchInv, DispatchTypes, SentAtMostOnce, EvidenceFirst, Fresh
<1>2. DispatchInv /\ [ImpalaNext]_impalaVars => DispatchInv'
  BY DispatchNext
<1> QED
  BY <1>1, <1>2, DispatchInit, PTL DEF ImpalaSpec

\* The ledger never moves back: start_tool and finish_tool are called by the coroutine
\* that holds the stripe of the call, which knows what the status is.
THEOREM LedgerForwardTheorem == ImpalaSpec => LedgerForward
<1>1. DispatchInv /\ [ImpalaNext]_impalaVars => DispatchInv'
  BY DispatchNext
<1>2. DispatchInv /\ [ImpalaNext]_impalaVars
      => [\A k \in Calls :
            /\ ledger[k] \in Ended => ledger'[k] = ledger[k]
            /\ ledger[k] = "RUNNING" => ledger'[k] \in {"RUNNING"} \cup Ended]_impalaVars
  BY DispatchNext
<1> QED
  BY <1>1, <1>2, DispatchInit, PTL DEF ImpalaSpec, LedgerForward

-----------------------------------------------------------------------------
(***************************************************************************)
(* What the evidence of a call says about its query, wherever its thread   *)
(* and the coroutine that dispatched it are.                               *)
(***************************************************************************)
Working == {"connect", "identity", "sent", "cleanup", "saving"}

RecordSays(k, status) == record[k] = None \/ record[k].status = status

QueryKnows(k) ==
    /\ query[k].asked <= MaxRows /\ query[k].rows <= query[k].asked
    /\ query[k].pc \in {"connect", "identity"} => remote[k] = "none"
    /\ query[k].pc \in Working => record[k] = [status |-> "RUNNING", rows |-> query[k].asked]
    /\ query[k].pc \in {"cleanup", "saving", "over"} => query[k].status \in Ended
    /\ query[k].pc = "cleanup" /\ query[k].status = "SUCCEEDED" => remote[k] # "running"
    /\ query[k].pc \in {"saving", "over"} /\ query[k].status \in Certain => remote[k] # "running"
    /\ query[k].pc = "over" /\ query[k].status \in Certain => RecordSays(k, query[k].status)

RecordKnows(k) ==
    /\ record[k] = None => remote[k] = "none"
    /\ record[k] # None => /\ record[k] \in [status : Statuses, rows : 0 .. MaxRows]
                           /\ record[k].status \in Certain => remote[k] # "running"

LedgerKnows(k) ==
    /\ ledger[k] \in Ended => query[k].pc = "none"
    /\ ledger[k] \in Certain => /\ remote[k] # "running"
                                /\ resultFile[k] = ledger[k]
                                /\ RecordSays(k, ledger[k])

Knows(k) == QueryKnows(k) /\ RecordKnows(k) /\ LedgerKnows(k)

\* The coroutine of a call: nothing is reserved before its query starts, and result.json
\* says what the thread has returned.
CallerKnows(c) ==
    LET k == caller[c].call
    IN  /\ caller[c].pc \in {"prepared", "started"} => record[k] = None /\ query[k].pc = "none"
        /\ caller[c].pc = "written" => query[k].pc = "over" /\ resultFile[k] = query[k].status

EvidenceTypes ==
    /\ resultFile \in [Calls -> Ended \cup {None}]
    /\ remote \in [Calls -> {"none", "running", "finished", "cancelled"}]
    /\ active \subseteq Calls /\ flags \subseteq Calls
    /\ stopping \in BOOLEAN /\ executing \in BOOLEAN

EvidenceInv ==
    /\ EvidenceTypes
    /\ \A k \in Calls : Knows(k)
    /\ \A c \in Callers : CallerKnows(c)

-----------------------------------------------------------------------------
\* Without calls there is no evidence to contradict.
LEMMA EvidenceInit == ImpalaInit => EvidenceInv
<1> SUFFICES ASSUME ImpalaInit PROVE EvidenceInv
  OBVIOUS
<1>1. EvidenceTypes
  BY DEF ImpalaInit, EvidenceTypes
<1>2. ASSUME NEW k \in Calls PROVE Knows(k)
  <2>1. /\ query[k] = NoQuery /\ record[k] = None /\ remote[k] = "none"
        /\ ledger[k] = "ABSENT"
    BY DEF ImpalaInit
  <2>2. QueryKnows(k)
    BY <2>1, LimitsAssumption DEF QueryKnows, NoQuery, Working
  <2> QED
    BY <2>1, <2>2 DEF Knows, RecordKnows, LedgerKnows, Ended, Certain
<1>3. ASSUME NEW c \in Callers PROVE CallerKnows(c)
  BY DEF ImpalaInit, CallerKnows, Resting
<1> QED
  BY <1>1, <1>2, <1>3 DEF EvidenceInv

\* What nobody touches, nobody has to prove again.
LEMMA KnowsStays ==
    ASSUME NEW k, Knows(k), query'[k] = query[k], record'[k] = record[k],
           ledger'[k] = ledger[k], resultFile'[k] = resultFile[k], remote'[k] = remote[k]
    PROVE  Knows(k)'
  BY DEF Knows, QueryKnows, RecordKnows, LedgerKnows, RecordSays

\* What it takes for the evidence to stay true when one thread moves.
LEMMA ThreadFrame ==
    ASSUME EvidenceInv, DispatchInv, NEW k \in Calls, query[k].pc \in Working,
           caller' = caller, ledger' = ledger, resultFile' = resultFile,
           \A j \in Calls \ {k} :
               query'[j] = query[j] /\ record'[j] = record[j] /\ remote'[j] = remote[j],
           Knows(k)', EvidenceTypes'
    PROVE  EvidenceInv'
<1>1. ASSUME NEW j \in Calls PROVE Knows(j)'
  BY KnowsStays DEF EvidenceInv
<1>2. ASSUME NEW c \in Callers PROVE CallerKnows(c)'
  <2>1. CallerKnows(c) /\ HoldsStripe(c)
    BY DEF EvidenceInv, DispatchInv
  <2>2. CASE caller[c].call = k
    <3>1. caller[c].pc \notin {"prepared", "started", "written"}
      BY <2>1, <2>2 DEF CallerKnows, Working
    <3> QED
      BY <3>1 DEF CallerKnows
  <2>3. CASE caller[c].call # k /\ caller[c].pc # "idle"
    <3>1. caller[c].call \in Calls \ {k}
      BY <2>1, <2>3 DEF HoldsStripe
    <3> QED
      BY <2>1, <3>1 DEF CallerKnows
  <2>4. CASE caller[c].pc = "idle"
    BY <2>4 DEF CallerKnows
  <2> QED
    BY <2>2, <2>3, <2>4
<1> QED
  BY <1>1, <1>2 DEF EvidenceInv

\* What it takes for the call of a coroutine to be known when the coroutine moves: the
\* stripe keeps the others off.
LEMMA CallerFrame ==
    ASSUME EvidenceInv, DispatchInv, NEW c \in Callers, NEW k \in Calls, NEW row,
           caller' = [caller EXCEPT ![c] = row], remote' = remote,
           \A j \in Calls \ {k} : /\ query'[j] = query[j] /\ record'[j] = record[j]
                                  /\ ledger'[j] = ledger[j] /\ resultFile'[j] = resultFile[j],
           \/ lock[k] = c
           \/ query'[k] = query[k] /\ record'[k] = record[k] /\ resultFile'[k] = resultFile[k],
           Knows(k)', CallerKnows(c)', EvidenceTypes'
    PROVE  EvidenceInv'
<1>1. ASSUME NEW j \in Calls PROVE Knows(j)'
  BY KnowsStays DEF EvidenceInv
<1>2. ASSUME NEW d \in Callers PROVE CallerKnows(d)'
  <2>1. CASE d = c
    BY <2>1
  <2>2. CASE d # c
    <3>1. CallerKnows(d) /\ HoldsStripe(d) /\ caller'[d] = caller[d]
      BY <2>2 DEF EvidenceInv, DispatchInv, DispatchTypes
    <3>2. CASE caller[d].pc \notin {"prepared", "started", "written"}
      BY <3>1, <3>2 DEF CallerKnows
    <3>3. CASE caller[d].pc \in {"prepared", "started", "written"}
      <4>1. caller[d].call \in Calls /\ lock[caller[d].call] = d
        BY <3>1, <3>3 DEF HoldsStripe, Dispatching
      <4>2. LET j == caller[d].call
            IN  query'[j] = query[j] /\ record'[j] = record[j] /\ resultFile'[j] = resultFile[j]
        BY <2>2, <4>1
      <4> QED
        BY <3>1, <4>2 DEF CallerKnows
    <3> QED
      BY <3>2, <3>3
  <2> QED
    BY <2>1, <2>2
<1> QED
  BY <1>1, <1>2 DEF EvidenceInv

\* A thread before its record is saved: what it learns of its query, and what it does to it.
LEMMA ThreadKnows ==
    ASSUME EvidenceInv, DispatchInv, NEW k \in Calls,
           NEW row \in QueryRow, row.pc \in Working \ {"connect"},
           query' = [query EXCEPT ![k] = row], query[k].pc \in Working,
           row.asked = query[k].asked, row.rows <= row.asked,
           record' = record, ledger' = ledger, resultFile' = resultFile,
           remote'[k] # "none" \/ remote[k] = "none",
           row.pc = "identity" => remote'[k] = "none",
           row.pc \in {"cleanup", "saving"} => row.status \in Ended,
           row.pc = "cleanup" /\ row.status = "SUCCEEDED" => remote'[k] # "running",
           row.pc = "saving" /\ row.status \in Certain => remote'[k] # "running"
    PROVE  Knows(k)'
<1>1. Knows(k) /\ query'[k] = row
  BY DEF EvidenceInv, DispatchInv, DispatchTypes
<1>2. record[k] = [status |-> "RUNNING", rows |-> row.asked] /\ record[k] # None
  <2>1. record[k] = [status |-> "RUNNING", rows |-> query[k].asked]
    BY <1>1 DEF Knows, QueryKnows
  <2>2. [status |-> "RUNNING", rows |-> query[k].asked]
            \in [status : {"RUNNING"} \cup Ended, rows : Nat]
    BY DEF DispatchInv, DispatchTypes, QueryRow
  <2> QED
    BY <2>1, <2>2, NoneIsNoRecord
<1>3. QueryKnows(k)'
  BY <1>1, <1>2 DEF Knows, QueryKnows, Working
<1>4. RecordKnows(k)'
  BY <1>1, <1>2 DEF Knows, RecordKnows, Certain
<1>5. LedgerKnows(k)'
  BY <1>1 DEF Knows, LedgerKnows, Working, Certain, Ended
<1> QED
  BY <1>3, <1>4, <1>5 DEF Knows

\* Each step of _execute, up to the saved record, leaves evidence that is true of the
\* remote query.
LEMMA ThreadEvidence ==
    ASSUME EvidenceInv, DispatchInv, NEW k \in Calls, Thread(k)
    PROVE  EvidenceInv'
<1>0. /\ query \in [Calls -> QueryRow] /\ query[k] \in QueryRow /\ Knows(k) /\ EvidenceTypes
      /\ query[k].rows <= query[k].asked
  BY DEF EvidenceInv, DispatchInv, DispatchTypes, Knows, QueryKnows
\* What the steps before the record is saved have in common.
<1>a. ASSUME NEW row \in QueryRow, row.pc \in Working \ {"connect"},
             query' = [query EXCEPT ![k] = row], query[k].pc \in Working,
             row.asked = query[k].asked, row.rows <= row.asked,
             caller' = caller, record' = record, ledger' = ledger, resultFile' = resultFile,
             UNCHANGED <<active, flags, stopping, executing>>,
             NEW there \in {"none", "running", "finished", "cancelled"},
             remote' = [remote EXCEPT ![k] = there],
             there # "none" \/ remote[k] = "none",
             row.pc = "identity" => there = "none",
             row.pc \in {"cleanup", "saving"} => row.status \in Ended,
             row.pc = "cleanup" /\ row.status = "SUCCEEDED" => there # "running",
             row.pc = "saving" /\ row.status \in Certain => there # "running"
      PROVE  EvidenceInv'
  <2>1. remote'[k] = there /\ EvidenceTypes'
    BY <1>0, <1>a DEF EvidenceTypes
  <2>2. Knows(k)'
    BY <1>a, <2>1, ThreadKnows
  <2>3. \A j \in Calls \ {k} :
            query'[j] = query[j] /\ record'[j] = record[j] /\ remote'[j] = remote[j]
    BY <1>0, <1>a DEF EvidenceTypes
  <2> QED
    BY <1>a, <2>1, <2>2, <2>3, ThreadFrame
<1>b. remote = [remote EXCEPT ![k] = remote[k]]
      /\ remote[k] \in {"none", "running", "finished", "cancelled"}
  BY <1>0 DEF EvidenceTypes
<1>1. CASE Connects(k)
  <2>1. PICK row : row = [query[k] EXCEPT !.pc = "identity"]
    OBVIOUS
  <2>2. /\ query' = [query EXCEPT ![k] = row] /\ query[k].pc = "connect"
        /\ caller' = caller /\ record' = record /\ ledger' = ledger /\ resultFile' = resultFile
        /\ remote' = remote /\ UNCHANGED <<active, flags, stopping, executing>>
    BY <1>1, <2>1 DEF Connects, Runs, files
  <2>3. /\ row \in QueryRow /\ row.pc = "identity" /\ row.asked = query[k].asked
        /\ row.rows = query[k].rows
    BY <1>0, <2>1 DEF QueryRow, PCs
  <2>4. remote[k] = "none"
    BY <1>0, <2>2 DEF Knows, QueryKnows
  <2> QED
    BY <1>0, <1>a, <1>b, <2>2, <2>3, <2>4 DEF Working
<1>2. CASE Submits(k)
  <2>1. PICK row : row = [query[k] EXCEPT !.pc = "sent"]
    OBVIOUS
  <2>2. /\ query' = [query EXCEPT ![k] = row] /\ query[k].pc = "identity"
        /\ caller' = caller /\ record' = record /\ ledger' = ledger /\ resultFile' = resultFile
        /\ remote' = [remote EXCEPT ![k] = "running"]
        /\ UNCHANGED <<active, flags, stopping, executing>>
    BY <1>2, <2>1 DEF Submits, Runs, files
  <2>3. /\ row \in QueryRow /\ row.pc = "sent" /\ row.asked = query[k].asked
        /\ row.rows = query[k].rows
    BY <1>0, <2>1 DEF QueryRow, PCs
  <2> QED
    BY <1>0, <1>a, <2>2, <2>3 DEF Working
<1>3. CASE Interrupted(k)
  <2>1. PICK pc \in {"saving", "cleanup"}, status \in {"CANCELLED", "FAILED"} :
             /\ query' = [query EXCEPT ![k].pc = pc, ![k].status = status]
             /\ pc = "saving" => query[k].pc = "connect"
    BY <1>3 DEF Interrupted, AfterFailure, Runs
  <2>2. PICK row : row = [query[k] EXCEPT !.pc = pc, !.status = status]
    OBVIOUS
  <2>3. /\ query' = [query EXCEPT ![k] = row] /\ query[k].pc \in Working
        /\ caller' = caller /\ record' = record /\ ledger' = ledger /\ resultFile' = resultFile
        /\ remote' = remote /\ UNCHANGED <<active, flags, stopping, executing>>
    BY <1>3, <2>1, <2>2 DEF Interrupted, Interruptible, Working, files
  <2>4. /\ row \in QueryRow /\ row.pc = pc /\ row.status = status
        /\ row.asked = query[k].asked /\ row.rows = query[k].rows
    BY <1>0, <2>2 DEF QueryRow, PCs, Statuses, Ended, Certain
  <2>5. pc = "saving" => remote[k] = "none"
    BY <1>0, <2>1 DEF Knows, QueryKnows
  <2> QED
    BY <1>0, <1>a, <1>b, <2>3, <2>4, <2>5 DEF Working, Ended, Certain
<1>4. ASSUME NEW rows \in 0 .. query[k].asked, Fetches(k, rows) PROVE EvidenceInv'
  <2>1. PICK row : row = [query[k] EXCEPT !.pc = "cleanup", !.status = "SUCCEEDED", !.rows = rows]
    OBVIOUS
  <2>2. /\ query' = [query EXCEPT ![k] = row] /\ query[k].pc = "sent" /\ remote[k] = "finished"
        /\ caller' = caller /\ record' = record /\ ledger' = ledger /\ resultFile' = resultFile
        /\ remote' = remote /\ UNCHANGED <<active, flags, stopping, executing>>
    BY <1>4, <2>1 DEF Fetches, Runs, files
  <2>3. /\ row.pc = "cleanup" /\ row.status = "SUCCEEDED"
        /\ row.asked = query[k].asked /\ row.rows = rows
    BY <1>0, <2>1 DEF QueryRow
  <2>4. query[k].asked \in Nat /\ rows \in Nat
    BY <1>0 DEF QueryRow
  <2>5. row \in QueryRow
    BY <1>0, <2>1, <2>4 DEF QueryRow, PCs, Statuses, Ended, Certain
  <2>6. row.rows <= row.asked
    BY <2>3, <2>4
  <2> QED
    BY <1>a, <1>b, <2>2, <2>3, <2>5, <2>6 DEF Working, Ended, Certain
<1>5. ASSUME NEW arrived \in BOOLEAN, DriverRaises(k, arrived) PROVE EvidenceInv'
  <2>1. PICK pc \in {"saving", "cleanup"}, status \in {"FAILED", "UNKNOWN"} :
             /\ query' = [query EXCEPT ![k].pc = pc, ![k].status = status]
             /\ pc = "saving" => query[k].pc = "connect"
    BY <1>5 DEF DriverRaises, AfterFailure, Runs
  <2>2. PICK row : row = [query[k] EXCEPT !.pc = pc, !.status = status]
    OBVIOUS
  <2>3. PICK there : there = IF arrived THEN "running" ELSE remote[k]
    OBVIOUS
  <2>4. /\ query' = [query EXCEPT ![k] = row] /\ query[k].pc \in Working
        /\ caller' = caller /\ record' = record /\ ledger' = ledger /\ resultFile' = resultFile
        /\ UNCHANGED <<active, flags, stopping, executing>>
    BY <1>5, <2>1, <2>2 DEF DriverRaises, Interruptible, Working, files
  <2>5. /\ row \in QueryRow /\ row.pc = pc /\ row.status = status
        /\ row.asked = query[k].asked /\ row.rows = query[k].rows
    BY <1>0, <2>2 DEF QueryRow, PCs, Statuses, Ended, Certain
  <2>6. /\ remote' = [remote EXCEPT ![k] = there]
        /\ arrived => query[k].pc = "identity"
    BY <1>5, <2>3 DEF DriverRaises, Runs
  <2>7. pc = "saving" => there = "none"
    BY <1>0, <2>1, <2>3, <2>6 DEF Knows, QueryKnows
  <2>8. there \in {"none", "running", "finished", "cancelled"} /\ (there # "none" \/ remote[k] = "none")
    BY <1>b, <2>3
  <2> QED
    BY <1>0, <1>a, <2>4, <2>5, <2>6, <2>7, <2>8 DEF Working, Ended, Certain
<1>6. CASE CleansUp(k)
  <2>0. /\ query[k].pc = "cleanup" /\ query[k].status \in Ended
        /\ query[k].status = "SUCCEEDED" => remote[k] # "running"
        /\ caller' = caller /\ record' = record /\ ledger' = ledger /\ resultFile' = resultFile
        /\ UNCHANGED <<active, flags, stopping, executing>>
    BY <1>0, <1>6 DEF CleansUp, Runs, files, Knows, QueryKnows
  <2>1. ASSUME query' = [query EXCEPT ![k].pc = "saving"],
               remote' = [remote EXCEPT ![k] =
                   IF query[k].status # "SUCCEEDED" /\ remote[k] = "running" THEN "cancelled"
                   ELSE remote[k]]
        PROVE  EvidenceInv'
    <3>1. PICK row : row = [query[k] EXCEPT !.pc = "saving"]
      OBVIOUS
    <3>2. PICK there :
            there = IF query[k].status # "SUCCEEDED" /\ remote[k] = "running" THEN "cancelled"
                    ELSE remote[k]
      OBVIOUS
    <3>3. query' = [query EXCEPT ![k] = row] /\ remote' = [remote EXCEPT ![k] = there]
      BY <2>1, <3>1, <3>2
    <3>4. /\ row \in QueryRow /\ row.pc = "saving" /\ row.status = query[k].status
          /\ row.asked = query[k].asked /\ row.rows = query[k].rows
      BY <1>0, <3>1 DEF QueryRow, PCs
    <3>5. /\ there \in {"none", "running", "finished", "cancelled"} /\ there # "running"
          /\ there # "none" \/ remote[k] = "none"
      BY <1>b, <2>0, <3>2
    <3> QED
      BY <1>0, <1>a, <2>0, <3>3, <3>4, <3>5 DEF Working
  <2>2. ASSUME query' = [query EXCEPT ![k].pc = "saving", ![k].rows = 0,
                                      ![k].status = "UNKNOWN"],
               remote' = remote
        PROVE  EvidenceInv'
    <3>1. PICK row : row = [query[k] EXCEPT !.pc = "saving", !.rows = 0, !.status = "UNKNOWN"]
      OBVIOUS
    <3>2. query' = [query EXCEPT ![k] = row]
      BY <2>2, <3>1
    <3>3. /\ row \in QueryRow /\ row.pc = "saving" /\ row.status = "UNKNOWN"
          /\ row.asked = query[k].asked /\ row.rows = 0
      BY <1>0, <3>1 DEF QueryRow, PCs, Statuses, Ended
    <3>4. 0 <= query[k].asked
      BY <1>0 DEF QueryRow
    <3> QED
      BY <1>a, <1>b, <2>0, <2>2, <3>2, <3>3, <3>4 DEF Working, Ended, Certain
  <2> QED
    BY <1>6, <2>1, <2>2 DEF CleansUp, Unconfirmed
<1>7. CASE Saves(k) \/ \E written \in 0 .. NBudgets : SaveRaises(k, written)
  <2>1. PICK row : row = [status |-> query[k].status, rows |-> query[k].rows]
    OBVIOUS
  <2>2. /\ query[k].pc = "saving"
        /\ caller' = caller /\ ledger' = ledger /\ resultFile' = resultFile /\ remote' = remote
        /\ stopping' = stopping /\ executing' = executing
        /\ active' = active \ {k} /\ flags' = flags \ {k}
        /\ \/ /\ query' = [query EXCEPT ![k].pc = "over"]
              /\ record' = [record EXCEPT ![k] = row]
           \/ /\ query' = [query EXCEPT ![k] = Over("UNKNOWN")]
              /\ record' = record \/ record' = [record EXCEPT ![k] = row]
    BY <1>7, <2>1 DEF Saves, SaveRaises, Runs, Saved
  <2>3. /\ query[k].status \in Ended
        /\ query[k].status \in Certain => remote[k] # "running"
        /\ query[k].rows \in 0 .. MaxRows /\ query[k].asked \in 0 .. MaxRows
        /\ record[k] = [status |-> "RUNNING", rows |-> query[k].asked]
    BY <1>0, <2>2, LimitsAssumption DEF Knows, QueryKnows, Working, QueryRow
  <2>4. row \in [status : Statuses, rows : 0 .. MaxRows] /\ row # None /\ record[k] # None
    <3>1. row \in [status : Statuses, rows : 0 .. MaxRows]
      BY <2>1, <2>3 DEF Statuses
    <3>2. row \in [status : {"RUNNING"} \cup Ended, rows : Nat]
      BY <3>1, LimitsAssumption DEF Statuses
    <3>3. record[k] \in [status : {"RUNNING"} \cup Ended, rows : Nat]
      BY <2>3, LimitsAssumption
    <3> QED
      BY <3>1, <3>2, <3>3, NoneIsNoRecord
  <2>5. DOMAIN record = Calls
    BY DEF DispatchInv, DispatchTypes
  <2>6. record'[k] # None /\ RecordKnows(k)'
    <3>1. CASE record' = record
      <4>1. record'[k] = record[k] /\ remote'[k] = remote[k]
        BY <2>2, <3>1
      <4> QED
        BY <1>0, <2>4, <4>1 DEF Knows, RecordKnows
    <3>2. CASE record' = [record EXCEPT ![k] = row]
      <4>1. record'[k] = row
        BY <2>5, <3>2
      <4> QED
        BY <2>1, <2>2, <2>3, <2>4, <4>1 DEF RecordKnows
    <3> QED
      BY <2>2, <3>1, <3>2
  <2>7. QueryKnows(k)'
    <3>1. CASE /\ query' = [query EXCEPT ![k].pc = "over"]
               /\ record' = [record EXCEPT ![k] = row]
      <4>1. /\ query'[k].pc = "over" /\ query'[k].status = query[k].status
            /\ query'[k].asked = query[k].asked /\ query'[k].rows = query[k].rows
        BY <1>0, <3>1 DEF QueryRow
      <4>2. record'[k] = row /\ row.status = query[k].status
        BY <2>1, <2>5, <3>1
      <4> QED
        BY <1>0, <2>2, <2>3, <4>1, <4>2 DEF Knows, QueryKnows, Working, RecordSays
    <3>2. CASE query' = [query EXCEPT ![k] = Over("UNKNOWN")]
      <4>1. /\ query'[k].pc = "over" /\ query'[k].status = "UNKNOWN"
            /\ query'[k].asked = 0 /\ query'[k].rows = 0
        BY <1>0, <3>2 DEF Over, NoQuery
      <4> QED
        BY <4>1, LimitsAssumption DEF QueryKnows, Working, Ended, Certain
    <3> QED
      BY <2>2, <3>1, <3>2
  <2>8. LedgerKnows(k)'
    BY <1>0, <2>2 DEF Knows, LedgerKnows, Ended
  <2>9. EvidenceTypes'
    BY <1>0, <2>2 DEF EvidenceTypes
  <2>10. \A j \in Calls \ {k} :
            query'[j] = query[j] /\ record'[j] = record[j] /\ remote'[j] = remote[j]
    BY <1>0, <2>2, <2>5
  <2> QED
    BY <2>2, <2>6, <2>7, <2>8, <2>9, <2>10, ThreadFrame DEF Knows, Working
<1> QED
  BY <1>1, <1>2, <1>3, <1>4, <1>5, <1>6, <1>7 DEF Thread

\* A remote query that ends, and who asks for cancellation or stops, make nothing untrue.
LEMMA BystanderEvidence ==
    ASSUME EvidenceInv, DispatchInv,
           \/ \E k \in Calls : RemoteEnds(k) \/ CancelsQuery(k)
           \/ CancelsRun \/ Stops \/ UNCHANGED impalaVars
    PROVE  EvidenceInv'
<1>1. /\ caller' = caller /\ ledger' = ledger /\ query' = query /\ record' = record
      /\ resultFile' = resultFile
  BY DEF RemoteEnds, CancelsQuery, CancelsRun, Stops, files, impalaVars
<1>2. EvidenceTypes'
  <2>1. CASE \E k \in Calls : RemoteEnds(k)
    BY <1>1, <2>1 DEF EvidenceInv, EvidenceTypes, RemoteEnds, files
  <2>2. CASE \E k \in Calls : CancelsQuery(k)
    BY <1>1, <2>2 DEF EvidenceInv, EvidenceTypes, CancelsQuery, files
  <2>3. CASE CancelsRun \/ Stops \/ UNCHANGED impalaVars
    BY <1>1, <2>3 DEF EvidenceInv, EvidenceTypes, CancelsRun, Stops, files, impalaVars
  <2> QED
    BY <2>1, <2>2, <2>3
<1>3. ASSUME NEW k \in Calls PROVE Knows(k)'
  <2>1. remote'[k] = remote[k] \/ (remote[k] = "running" /\ remote'[k] = "finished")
    BY DEF RemoteEnds, CancelsQuery, CancelsRun, Stops, files, impalaVars, EvidenceInv,
       EvidenceTypes
  <2>2. Knows(k)
    BY DEF EvidenceInv
  <2> QED
    BY <1>1, <2>1, <2>2 DEF Knows, QueryKnows, RecordKnows, LedgerKnows, RecordSays
<1>4. ASSUME NEW c \in Callers PROVE CallerKnows(c)'
  BY <1>1 DEF EvidenceInv, CallerKnows
<1> QED
  BY <1>2, <1>3, <1>4 DEF EvidenceInv

\* A call that waits has no evidence of its own.
LEMMA ExecutesEvidence ==
    ASSUME EvidenceInv, DispatchInv, NEW c \in Callers, NEW k \in Calls, Executes(c, k)
    PROVE  EvidenceInv'
<1> DEFINE row == [pc |-> "waiting", call |-> k]
<1>1. /\ caller' = [caller EXCEPT ![c] = row] /\ ledger' = ledger /\ query' = query
      /\ record' = record /\ resultFile' = resultFile /\ remote' = remote
      /\ UNCHANGED <<active, flags, stopping, executing>>
  BY DEF Executes, files
<1>2. Knows(k)'
  BY <1>1, KnowsStays DEF EvidenceInv
<1>3. caller'[c] = row
  BY <1>1 DEF DispatchInv, DispatchTypes
<1>4. CallerKnows(c)'
  BY <1>3 DEF CallerKnows
<1>5. EvidenceTypes'
  BY <1>1 DEF EvidenceInv, EvidenceTypes
<1> HIDE DEF row
<1> QED
  BY <1>1, <1>2, <1>4, <1>5, CallerFrame

\* The process dies: at most one record was still written, by a thread that knew how its
\* query had ended.
LEMMA DeathEvidence ==
    ASSUME EvidenceInv, DispatchInv, ProcessDies
    PROVE  EvidenceInv'
<1>1. /\ caller' = [c \in Callers |-> Resting] /\ query' = [k \in Calls |-> NoQuery]
      /\ active' = {} /\ flags' = {} /\ stopping' = FALSE
      /\ ledger' = ledger /\ resultFile' = resultFile /\ remote' = remote
      /\ executing' = executing
  BY DEF ProcessDies
<1>2. record' = record \/ \E k \in Calls : query[k].pc = "saving" /\ record' = Saved(k)
  BY DEF ProcessDies, CutShort, Runs
<1>3. ASSUME NEW k \in Calls PROVE Knows(k)'
  <2>1. /\ Knows(k) /\ query[k] \in QueryRow /\ DOMAIN record = Calls
    BY DEF EvidenceInv, DispatchInv, DispatchTypes
  <2>2. query'[k] = NoQuery /\ remote'[k] = remote[k]
    BY <1>1
  <2>3. QueryKnows(k)'
    BY <2>2, LimitsAssumption DEF QueryKnows, NoQuery, Working
  <2>4. CASE record'[k] = record[k]
    BY <1>1, <2>1, <2>2, <2>3, <2>4
       DEF Knows, RecordKnows, LedgerKnows, RecordSays, NoQuery
  <2>5. CASE record'[k] # record[k]
    <3>1. query[k].pc = "saving" /\ record'[k] = [status |-> query[k].status, rows |-> query[k].rows]
      BY <1>2, <2>1, <2>5 DEF Saved
    <3>2. /\ query[k].status \in Ended
          /\ query[k].status \in Certain => remote[k] # "running"
          /\ query[k].rows \in 0 .. MaxRows
          /\ ledger[k] \notin Ended
      BY <2>1, <3>1, LimitsAssumption DEF Knows, QueryKnows, LedgerKnows, QueryRow
    <3>3. record'[k] \in [status : Statuses, rows : 0 .. MaxRows]
      BY <3>1, <3>2 DEF Statuses
    <3>4. record'[k] # None
      <4>1. record'[k] \in [status : {"RUNNING"} \cup Ended, rows : Nat]
        BY <3>3, LimitsAssumption DEF Statuses
      <4> QED
        BY <4>1, NoneIsNoRecord
    <3>5. RecordKnows(k)'
      BY <2>2, <3>1, <3>2, <3>3, <3>4 DEF RecordKnows
    <3>6. LedgerKnows(k)'
      BY <1>1, <3>2 DEF LedgerKnows, Ended
    <3> QED
      BY <2>3, <3>5, <3>6 DEF Knows
  <2> QED
    BY <2>4, <2>5
<1>4. EvidenceTypes'
  BY <1>1 DEF EvidenceInv, EvidenceTypes
<1>5. \A c \in Callers : CallerKnows(c)'
  BY <1>1 DEF CallerKnows, Resting
<1> QED
  BY <1>3, <1>4, <1>5 DEF EvidenceInv

\* The coroutine writes what the thread knows: reservation, result.json and ledger agree.
LEMMA DispatchEvidence ==
    ASSUME EvidenceInv, DispatchInv, NEW c \in Callers, Dispatches(c)
    PROVE  EvidenceInv'
<1>k. PICK k : k = caller[c].call
  OBVIOUS
<1> USE <1>k
<1> DEFINE at(pc) == [caller[c] EXCEPT !.pc = pc]
<1>0. /\ DispatchTypes /\ HoldsStripe(c) /\ caller[c] \in CallerRow
      /\ EvidenceTypes /\ CallerKnows(c)
      /\ caller[c].pc # "idle" => k \in Calls /\ EvidenceFirst(k) /\ Knows(k)
  BY DEF EvidenceInv, DispatchInv, DispatchTypes, HoldsStripe
<1>a. \A pc \in {"prepared", "started", "calling", "written"} : at(pc).pc = pc /\ at(pc).call = k
  BY <1>0 DEF CallerRow
<1>b. Resting.pc = "idle" /\ NoQuery.pc = "none" /\ NoQuery.asked = 0 /\ NoQuery.rows = 0
  BY DEF Resting, NoQuery
<1>c. /\ caller \in [Callers -> CallerRow] /\ query \in [Calls -> QueryRow]
      /\ DOMAIN record = Calls /\ ledger \in [Calls -> {"ABSENT", "PREPARED", "RUNNING"} \cup Ended]
  BY <1>0 DEF DispatchTypes
\* The coroutine returns to its caller and leaves everything else of the call as it is.
<1>d. ASSUME caller' = [caller EXCEPT ![c] = Resting], k \in Calls, remote' = remote,
             query' = query, record' = record, ledger' = ledger, resultFile' = resultFile,
             UNCHANGED <<active, flags, stopping, executing>>
      PROVE  EvidenceInv'
  <2>1. Knows(k)' /\ EvidenceTypes'
    BY <1>d, KnowsStays DEF EvidenceInv, EvidenceTypes
  <2>2. CallerKnows(c)'
    BY <1>b, <1>c, <1>d DEF CallerKnows
  <2> QED
    BY <1>d, <2>1, <2>2, CallerFrame
<1>1. CASE TurnedAway(c)
  BY <1>0, <1>d, <1>1 DEF TurnedAway, At, files
<1>2. CASE Prepares(c)
  <2>1. /\ caller' = [caller EXCEPT ![c] = at("prepared")] /\ caller[c].pc = "waiting"
        /\ ledger[k] \in {"ABSENT", "PREPARED"}
        /\ ledger' = [ledger EXCEPT ![k] = "PREPARED"]
        /\ query' = query /\ record' = record /\ resultFile' = resultFile /\ remote' = remote
        /\ UNCHANGED <<active, flags, stopping, executing>>
    BY <1>2 DEF Prepares, At, Fresh
  <2>2. record[k] = None /\ query[k].pc = "none"
    BY <1>0, <2>1 DEF EvidenceFirst, Fresh
  <2>3. CallerKnows(c)'
    BY <1>0, <1>a, <1>c, <2>1, <2>2 DEF CallerKnows
  <2>4. ledger'[k] = "PREPARED" /\ \A j \in Calls \ {k} : ledger'[j] = ledger[j]
    BY <1>c, <1>0, <2>1
  <2>5. Knows(k)'
    BY <1>0, <2>1, <2>4
       DEF Knows, QueryKnows, RecordKnows, LedgerKnows, RecordSays, Ended, Certain
  <2>6. EvidenceTypes'
    BY <1>0, <2>1 DEF EvidenceTypes
  <2> QED
    BY <1>0, <2>1, <2>3, <2>4, <2>5, <2>6, CallerFrame
<1>3. CASE StartsTool(c)
  <2>1. /\ caller' = [caller EXCEPT ![c] = at("started")] /\ caller[c].pc = "prepared"
        /\ ledger' = [ledger EXCEPT ![k] = "RUNNING"]
        /\ query' = query /\ record' = record /\ resultFile' = resultFile /\ remote' = remote
        /\ UNCHANGED <<active, flags, stopping, executing>>
    BY <1>3 DEF StartsTool, At, Started
  <2>2. CallerKnows(c)'
    BY <1>0, <1>a, <1>c, <2>1 DEF CallerKnows
  <2>3. ledger'[k] = "RUNNING" /\ \A j \in Calls \ {k} : ledger'[j] = ledger[j]
    BY <1>c, <1>0, <2>1
  <2>4. Knows(k)'
    BY <1>0, <2>1, <2>3
       DEF Knows, QueryKnows, RecordKnows, LedgerKnows, RecordSays, Ended, Certain
  <2>5. EvidenceTypes'
    BY <1>0, <2>1 DEF EvidenceTypes
  <2> QED
    BY <1>0, <2>1, <2>2, <2>3, <2>4, <2>5, CallerFrame
<1>4. CASE InputRaises(c)
  BY <1>0, <1>d, <1>4 DEF InputRaises, At, files
\* _reserve, refused or raising: the row of the query is new, and so is the record if it
\* is written.
<1>e. ASSUME caller[c].pc = "started", caller' = [caller EXCEPT ![c] = at("calling")],
             NEW row \in QueryRow, query' = [query EXCEPT ![k] = row],
             row.asked <= MaxRows, row.rows <= row.asked,
             ledger' = ledger, resultFile' = resultFile, remote' = remote,
             active' \subseteq Calls, UNCHANGED <<flags, stopping, executing>>,
             \/ row.pc = "over" /\ row.status \in Ended /\ record' = record
             \/ /\ row.pc = "over" /\ row.status = "UNKNOWN"
                /\ \E rows \in 0 .. MaxRows :
                     record' = [record EXCEPT ![k] = [status |-> "RUNNING", rows |-> rows]]
             \/ /\ row.pc = "connect" /\ row.asked \in Nat
                /\ record' = [record EXCEPT ![k] = [status |-> "RUNNING", rows |-> row.asked]]
      PROVE  EvidenceInv'
  <2>1. /\ k \in Calls /\ lock[k] = c /\ ledger[k] = "RUNNING"
        /\ record[k] = None /\ remote[k] = "none"
    BY <1>0, <1>e DEF HoldsStripe, Dispatching, CallerKnows, Knows, RecordKnows
  <2>2. /\ query'[k] = row /\ \A j \in Calls \ {k} : query'[j] = query[j] /\ record'[j] = record[j]
    BY <1>c, <1>e, <2>1
  <2>3. CallerKnows(c)'
    BY <1>a, <1>c, <1>e DEF CallerKnows
  <2>4. Knows(k)'
    <3>1. CASE row.pc = "over" /\ row.status \in Ended /\ record' = record
      BY <1>e, <2>1, <2>2, <3>1
         DEF Knows, QueryKnows, RecordKnows, LedgerKnows, RecordSays, Working, Ended, Certain
    <3>2. CASE /\ row.pc = "connect" /\ row.asked \in Nat
               /\ record' = [record EXCEPT ![k] = [status |-> "RUNNING", rows |-> row.asked]]
      <4>1. record'[k] = [status |-> "RUNNING", rows |-> row.asked]
        BY <1>c, <2>1, <3>2
      <4>2. record'[k] \in [status : Statuses, rows : 0 .. MaxRows]
        BY <1>e, <3>2, <4>1, LimitsAssumption DEF Statuses
      <4> QED
        BY <1>e, <2>1, <2>2, <3>2, <4>1, <4>2
           DEF Knows, QueryKnows, RecordKnows, LedgerKnows, Working, Ended, Certain
    <3>3. ASSUME row.pc = "over", row.status = "UNKNOWN", NEW rows \in 0 .. MaxRows,
                 record' = [record EXCEPT ![k] = [status |-> "RUNNING", rows |-> rows]]
          PROVE  Knows(k)'
      <4>1. record'[k] = [status |-> "RUNNING", rows |-> rows]
        BY <1>c, <2>1, <3>3
      <4>2. record'[k] \in [status : Statuses, rows : 0 .. MaxRows] /\ record'[k].status = "RUNNING"
        BY <4>1 DEF Statuses
      <4>3. record'[k] # None
        <5>1. record'[k] \in [status : {"RUNNING"} \cup Ended, rows : Nat]
          BY <4>1, LimitsAssumption
        <5> QED
          BY <5>1, NoneIsNoRecord
      <4> QED
        BY <1>e, <2>1, <2>2, <3>3, <4>2, <4>3
           DEF Knows, QueryKnows, RecordKnows, LedgerKnows, Working, Ended, Certain
    <3> QED
      BY <1>e, <3>1, <3>2, <3>3
  <2>5. EvidenceTypes'
    BY <1>0, <1>e DEF EvidenceTypes
  <2> QED
    BY <1>e, <2>1, <2>2, <2>3, <2>4, <2>5, CallerFrame
<1>5. ASSUME NEW rows \in 1 .. MaxRows, Reserves(c, rows) PROVE EvidenceInv'
  <2>1. PICK row : row = [NoQuery EXCEPT !.pc = "connect", !.asked = rows]
    OBVIOUS
  <2>2. row \in QueryRow /\ row.pc = "connect" /\ row.asked = rows /\ row.rows = 0
    <3>1. row = [pc |-> "connect", status |-> "RUNNING", asked |-> rows, rows |-> 0]
      BY <2>1 DEF NoQuery
    <3> QED
      BY <3>1, LimitsAssumption DEF QueryRow, PCs, Statuses
  <2>3. /\ caller' = [caller EXCEPT ![c] = at("calling")] /\ caller[c].pc = "started"
        /\ query' = [query EXCEPT ![k] = row]
        /\ record' = [record EXCEPT ![k] = [status |-> "RUNNING", rows |-> row.asked]]
        /\ ledger' = ledger /\ resultFile' = resultFile /\ remote' = remote
        /\ active' = active \cup {k} /\ UNCHANGED <<flags, stopping, executing>>
    BY <1>5, <2>1, <2>2 DEF Reserves, At
  <2>4. active' \subseteq Calls
    BY <1>0, <2>3 DEF EvidenceTypes
  <2>5. row.asked <= MaxRows /\ row.rows <= row.asked /\ row.asked \in Nat
    BY <2>2, LimitsAssumption
  <2> QED
    BY <1>e, <2>2, <2>3, <2>4, <2>5
<1>6. ASSUME NEW rows \in 1 .. MaxRows, NEW written \in 0 .. NBudgets,
             Refused(c, rows) \/ ReserveRaises(c, rows, written)
      PROVE  EvidenceInv'
  <2>1. \A status \in {"FAILED", "UNKNOWN"} :
          /\ Over(status) \in QueryRow /\ Over(status).pc = "over" /\ Over(status).status = status
          /\ Over(status).asked = 0 /\ Over(status).rows = 0
    BY DEF Over, NoQuery, QueryRow, PCs, Statuses, Ended, Certain
  <2>2. PICK row \in QueryRow :
          /\ row.pc = "over" /\ row.status \in Ended /\ row.asked = 0 /\ row.rows = 0
          /\ query' = [query EXCEPT ![k] = row]
          /\ caller' = [caller EXCEPT ![c] = at("calling")] /\ caller[c].pc = "started"
          /\ ledger' = ledger /\ resultFile' = resultFile /\ remote' = remote
          /\ \/ record' = record
             \/ /\ row.status = "UNKNOWN"
                /\ record' = [record EXCEPT ![k] = [status |-> "RUNNING", rows |-> rows]]
          /\ active' = active /\ UNCHANGED <<flags, stopping, executing>>
    <3>1. CASE Refused(c, rows)
      BY <2>1, <3>1 DEF Refused, At, files, Ended, Certain
    <3>2. CASE ReserveRaises(c, rows, written)
      BY <2>1, <3>2 DEF ReserveRaises, At, Ended, Certain
    <3> QED
      BY <1>6, <3>1, <3>2
  <2>3. row.asked <= MaxRows /\ row.rows <= row.asked
    BY <2>2, LimitsAssumption
  <2>4. active' \subseteq Calls /\ rows \in 0 .. MaxRows
    BY <1>0, <2>2, LimitsAssumption DEF EvidenceTypes
  <2> QED
    BY <1>e, <2>2, <2>3, <2>4
<1>7. CASE WritesResult(c)
  <2>1. /\ caller' = [caller EXCEPT ![c] = at("written")] /\ caller[c].pc = "calling"
        /\ query[k].pc = "over" /\ resultFile' = [resultFile EXCEPT ![k] = query[k].status]
        /\ ledger' = ledger /\ query' = query /\ record' = record /\ remote' = remote
        /\ UNCHANGED <<active, flags, stopping, executing>>
    BY <1>7 DEF WritesResult, At, Runs
  <2>2. /\ lock[k] = c /\ ledger[k] = "RUNNING" /\ k \in Calls /\ query[k].status \in Ended
    BY <1>0, <2>1 DEF HoldsStripe, Dispatching, Knows, QueryKnows
  <2>3. /\ resultFile'[k] = query[k].status
        /\ \A j \in Calls \ {k} : resultFile'[j] = resultFile[j]
    BY <1>0, <2>1, <2>2 DEF EvidenceTypes
  <2>4. CallerKnows(c)'
    BY <1>a, <1>c, <2>1, <2>3 DEF CallerKnows
  <2>5. Knows(k)'
    BY <1>0, <2>1, <2>2
       DEF Knows, QueryKnows, RecordKnows, LedgerKnows, RecordSays, Ended, Certain
  <2>6. EvidenceTypes'
    BY <1>0, <2>1, <2>2 DEF EvidenceTypes
  <2> QED
    BY <2>1, <2>2, <2>3, <2>4, <2>5, <2>6, CallerFrame
<1>8. CASE FinishesTool(c) \/ PersistRaises(c)
  <2>1. PICK status :
          /\ caller' = [caller EXCEPT ![c] = Resting]
          /\ caller[c].pc \in {"calling", "written"}
          /\ ledger' = [ledger EXCEPT ![k] = status]
          /\ \/ status = "UNKNOWN"
             \/ caller[c].pc = "written" /\ status = query[k].status
          /\ query' = [query EXCEPT ![k] = NoQuery]
          /\ record' = record /\ resultFile' = resultFile /\ remote' = remote
          /\ UNCHANGED <<active, flags, stopping, executing>>
    BY <1>8 DEF FinishesTool, PersistRaises, LedgerStatus, At
  <2>2. lock[k] = c /\ k \in Calls
    BY <1>0, <2>1 DEF HoldsStripe, Dispatching
  <2>3. /\ ledger'[k] = status /\ query'[k] = NoQuery
        /\ \A j \in Calls \ {k} : ledger'[j] = ledger[j] /\ query'[j] = query[j]
    BY <1>c, <2>1, <2>2
  <2>4. status \in Certain => /\ resultFile[k] = status /\ remote[k] # "running"
                              /\ RecordSays(k, status)
    BY <1>0, <2>1, <2>2 DEF CallerKnows, Knows, QueryKnows, Certain
  <2>5. Knows(k)'
    BY <1>0, <1>b, <2>1, <2>2, <2>3, <2>4, LimitsAssumption
       DEF Knows, QueryKnows, RecordKnows, LedgerKnows, RecordSays, Working
  <2>6. CallerKnows(c)'
    BY <1>b, <1>c, <2>1 DEF CallerKnows
  <2>7. EvidenceTypes'
    BY <1>0, <2>1 DEF EvidenceTypes
  <2> QED
    BY <2>1, <2>2, <2>3, <2>5, <2>6, <2>7, CallerFrame
<1>9. 0 \in 0 .. NBudgets
  BY LimitsAssumption
<1> QED
  BY <1>1, <1>2, <1>3, <1>4, <1>5, <1>6, <1>7, <1>8, <1>9 DEF Dispatches

\* Every step keeps what is known of every query.
LEMMA EvidenceNext ==
    ASSUME EvidenceInv, DispatchInv, [ImpalaNext]_impalaVars
    PROVE  EvidenceInv'
<1>1. CASE \E c \in Callers : Dispatches(c)
  BY <1>1, DispatchEvidence
<1>2. CASE \E c \in Callers, k \in Calls : Executes(c, k)
  BY <1>2, ExecutesEvidence
<1>3. CASE \E k \in Calls : Thread(k)
  BY <1>3, ThreadEvidence
<1>4. CASE \/ \E k \in Calls : RemoteEnds(k) \/ CancelsQuery(k)
           \/ CancelsRun \/ Stops \/ UNCHANGED impalaVars
  BY <1>4, BystanderEvidence
<1>5. CASE ProcessDies
  BY <1>5, DeathEvidence
<1> QED
  BY <1>1, <1>2, <1>3, <1>4, <1>5 DEF ImpalaNext

-----------------------------------------------------------------------------
\* n rows of one call, beside the rows of other calls.
LEMMA RowsBeside ==
    ASSUME NEW Rest, IsFiniteSet(Rest), NEW k, NEW n \in Nat, \A row \in Rest : row[1] # k
    PROVE  /\ IsFiniteSet(Rest \cup ({k} \X (1 .. n)))
           /\ Cardinality(Rest \cup ({k} \X (1 .. n))) = Cardinality(Rest) + n
<1> DEFINE Mine == {k} \X (1 .. n)
<1>0. 1 \in Int /\ n \in Int
  OBVIOUS
<1>1. IsFiniteSet(1 .. n) /\ Cardinality(1 .. n) = n
  <2>1. /\ IsFiniteSet(1 .. n)
        /\ Cardinality(1 .. n) = IF 1 > n THEN 0 ELSE n - 1 + 1
    BY <1>0, FS_Interval
  <2> QED
    BY <2>1
<1>2. ExistsBijection(1 .. n, Mine)
  <2> DEFINE f == [i \in 1 .. n |-> <<k, i>>]
  <2>1. f \in Injection(1 .. n, Mine)
    BY DEF Injection, IsInjective
  <2>2. f \in Surjection(1 .. n, Mine)
    <3>1. ASSUME NEW row \in Mine PROVE \E i \in 1 .. n : f[i] = row
      <4>1. row[2] \in 1 .. n /\ row = <<k, row[2]>>
        OBVIOUS
      <4> QED
        BY <4>1
    <3> QED
      BY <3>1 DEF Surjection
  <2> QED
    BY <2>1, <2>2 DEF ExistsBijection, Bijection
<1>3. IsFiniteSet(Mine) /\ Cardinality(Mine) = n
  <2> HIDE DEF Mine
  <2> QED
    BY <1>1, <1>2, FS_Bijection
<1>4. Rest \cap Mine = {}
  OBVIOUS
<1> HIDE DEF Mine
<1>5. /\ IsFiniteSet(Rest \cup Mine)
      /\ Cardinality(Rest \cup Mine) = Cardinality(Rest) + Cardinality(Mine) - Cardinality({})
  BY <1>3, <1>4, FS_Union
<1>6. Cardinality(Rest) \in Nat /\ Cardinality({}) = 0
  BY FS_CardinalityType, FS_EmptySet
<1> QED
  BY <1>3, <1>5, <1>6 DEF Mine

\* When one record changes, the rows of the others stay what they are.
LEMMA RowsChange ==
    ASSUME NEW k \in Calls, IsFiniteSet(AllRows), \A j \in Calls \ {k} : record'[j] = record[j],
           RowsOf(k) \in 0 .. MaxRows, RowsOf(k)' \in 0 .. MaxRows
    PROVE  /\ IsFiniteSet(AllRows)'
           /\ \E others \in Nat : /\ Cardinality(AllRows) = others + RowsOf(k)
                                  /\ Cardinality(AllRows)' = others + RowsOf(k)'
<1> DEFINE Rest == {row \in AllRows : row[1] # k}
<1>1. Rest \subseteq AllRows
  OBVIOUS
<1>2. IsFiniteSet(Rest) /\ Cardinality(Rest) \in Nat
  BY <1>1, FS_Subset, FS_CardinalityType
<1>3. \A row \in Rest : row[1] # k
  OBVIOUS
<1>4. AllRows = Rest \cup ({k} \X (1 .. RowsOf(k)))
  BY LimitsAssumption DEF AllRows
<1>5. \A j \in Calls \ {k} : RowsOf(j)' = RowsOf(j)
  BY DEF RowsOf
<1>6. AllRows' = Rest \cup ({k} \X (1 .. RowsOf(k)'))
  BY <1>5, LimitsAssumption DEF AllRows
<1>7. RowsOf(k) \in Nat /\ RowsOf(k)' \in Nat
  BY LimitsAssumption
<1> HIDE DEF Rest
<1>8. Cardinality(AllRows) = Cardinality(Rest) + RowsOf(k)
  BY <1>2, <1>3, <1>4, <1>7, RowsBeside
<1>9. IsFiniteSet(AllRows') /\ Cardinality(AllRows') = Cardinality(Rest) + RowsOf(k)'
  BY <1>2, <1>3, <1>6, <1>7, RowsBeside
<1> QED
  BY <1>2, <1>8, <1>9

-----------------------------------------------------------------------------
\* The budgets stay within their limits and cover the rows.
BudgetInv ==
    /\ budget \in [1 .. NBudgets -> [queries : 0 .. QueryLimit, rows : 0 .. RowLimit]]
    /\ IsFiniteSet(AllRows)
    /\ BudgetCovers

\* Without records nothing has to be covered.
LEMMA BudgetInit == ImpalaInit => BudgetInv
<1> SUFFICES ASSUME ImpalaInit PROVE BudgetInv
  OBVIOUS
<1>1. budget \in [1 .. NBudgets -> [queries : 0 .. QueryLimit, rows : 0 .. RowLimit]]
  BY LimitsAssumption DEF ImpalaInit
<1>2. AllRows = {}
  <2>1. \A k \in Calls : RowsOf(k) = 0
    BY DEF ImpalaInit, RowsOf
  <2> QED
    BY <2>1, LimitsAssumption DEF AllRows
<1>3. IsFiniteSet(AllRows) /\ Cardinality(AllRows) = 0
  BY <1>2, FS_EmptySet
<1>4. \A i \in 1 .. NBudgets : budget[i].rows = 0
  BY DEF ImpalaInit
<1> QED
  BY <1>1, <1>3, <1>4 DEF BudgetInv, BudgetCovers

\* Whoever writes neither records nor budgets keeps the budgets.
LEMMA BudgetStays ==
    ASSUME BudgetInv, record' = record, budget' = budget
    PROVE  BudgetInv'
  BY DEF BudgetInv, BudgetCovers, AllRows, RowsOf

\* _reserve charges every budget that it has got to, and charges it enough.
LEMMA ChargedEnough ==
    ASSUME BudgetInv, NEW rows \in 1 .. MaxRows, Affords(rows), NEW written \in 0 .. NBudgets,
           budget' = Charged(written, rows)
    PROVE  /\ budget' \in [1 .. NBudgets -> [queries : 0 .. QueryLimit, rows : 0 .. RowLimit]]
           /\ \A i \in 1 .. NBudgets :
                /\ budget'[i].rows >= budget[i].rows
                /\ i <= written => budget'[i].rows = budget[i].rows + rows
<1>1. ASSUME NEW i \in 1 .. NBudgets
      PROVE  /\ budget'[i] \in [queries : 0 .. QueryLimit, rows : 0 .. RowLimit]
             /\ budget'[i].rows >= budget[i].rows
             /\ i <= written => budget'[i].rows = budget[i].rows + rows
  <2>1. /\ budget[i] \in [queries : 0 .. QueryLimit, rows : 0 .. RowLimit]
        /\ budget[i].queries < QueryLimit /\ budget[i].rows + rows <= RowLimit
    BY DEF BudgetInv, Affords
  <2>2. CASE i <= written
    <3>1. budget'[i] = [queries |-> budget[i].queries + 1, rows |-> budget[i].rows + rows]
      BY <2>2 DEF Charged
    <3> QED
      BY <2>1, <3>1, LimitsAssumption
  <2>3. CASE ~ (i <= written)
    <3>1. budget'[i] = budget[i]
      BY <2>3 DEF Charged
    <3> QED
      BY <2>1, <2>3, <3>1, LimitsAssumption
  <2> QED
    BY <2>2, <2>3
<1>2. budget' = [i \in 1 .. NBudgets |-> budget'[i]]
  BY DEF Charged
<1> QED
  BY <1>1, <1>2

\* Charged budgets without a record cover more than there is.
LEMMA ChargeStep ==
    ASSUME BudgetInv, NEW rows \in 1 .. MaxRows, Affords(rows), NEW written \in 0 .. NBudgets,
           budget' = Charged(written, rows), record' = record
    PROVE  BudgetInv'
<1>1. AllRows' = AllRows
  BY DEF AllRows, RowsOf
<1>2. Cardinality(AllRows) \in Nat
  BY FS_CardinalityType DEF BudgetInv
<1>3. ASSUME NEW i \in 1 .. NBudgets PROVE Cardinality(AllRows)' <= budget'[i].rows
  <2>1. /\ budget[i].rows \in Nat /\ budget'[i].rows \in Nat
        /\ budget'[i].rows >= budget[i].rows
    BY ChargedEnough, LimitsAssumption, SMTT(30) DEF BudgetInv
  <2>2. Cardinality(AllRows) <= budget[i].rows
    BY DEF BudgetInv, BudgetCovers
  <2> QED
    BY <1>1, <1>2, <2>1, <2>2
<1> QED
  BY <1>1, <1>3, ChargedEnough DEF BudgetInv, BudgetCovers

\* The record is written with all budgets charged.
LEMMA ReserveStep ==
    ASSUME BudgetInv, NEW k \in Calls, NEW rows \in 1 .. MaxRows, Affords(rows),
           DOMAIN record = Calls, record[k] = None, budget' = Charged(NBudgets, rows),
           record' = [record EXCEPT ![k] = [status |-> "RUNNING", rows |-> rows]]
    PROVE  BudgetInv'
<1>0. NBudgets \in 0 .. NBudgets /\ rows \in Nat /\ rows \in 0 .. MaxRows
  BY LimitsAssumption
<1>1. RowsOf(k) = 0 /\ 0 \in 0 .. MaxRows
  BY LimitsAssumption DEF RowsOf
<1>2. RowsOf(k)' = rows
  <2>1. record'[k] = [status |-> "RUNNING", rows |-> rows]
    OBVIOUS
  <2>2. record'[k] # None
    <3>1. record'[k] \in [status : {"RUNNING"} \cup Ended, rows : Nat]
      BY <1>0, <2>1
    <3> QED
      BY <3>1, NoneIsNoRecord
  <2> QED
    BY <2>1, <2>2 DEF RowsOf
<1>3. \A j \in Calls \ {k} : record'[j] = record[j]
  OBVIOUS
<1>4. /\ IsFiniteSet(AllRows)'
      /\ \E others \in Nat : /\ Cardinality(AllRows) = others + 0
                             /\ Cardinality(AllRows)' = others + rows
  BY <1>0, <1>1, <1>2, <1>3, RowsChange DEF BudgetInv
<1>5. ASSUME NEW i \in 1 .. NBudgets PROVE Cardinality(AllRows)' <= budget'[i].rows
  <2>1. budget[i].rows \in Nat /\ budget'[i].rows = budget[i].rows + rows
    BY <1>0, ChargedEnough, LimitsAssumption DEF BudgetInv
  <2>2. Cardinality(AllRows) <= budget[i].rows
    BY DEF BudgetInv, BudgetCovers
  <2> QED
    BY <1>0, <1>4, <2>1, <2>2
<1> QED
  BY <1>0, <1>4, <1>5, ChargedEnough DEF BudgetInv, BudgetCovers

\* The record says what was delivered, and no budget gets back more than what was not.
LEMMA SaveStep ==
    ASSUME BudgetInv, EvidenceInv, DispatchInv, NEW k \in Calls, query[k].pc = "saving",
           NEW written \in 0 .. NBudgets,
           record' = Saved(k), budget' = Refunded(k, written)
    PROVE  BudgetInv'
<1>0. /\ query[k].asked \in Nat /\ query[k].rows \in Nat
      /\ query[k].rows <= query[k].asked /\ query[k].asked <= MaxRows
      /\ record[k] = [status |-> "RUNNING", rows |-> query[k].asked]
      /\ query[k].status \in Ended /\ DOMAIN record = Calls
  BY DEF EvidenceInv, DispatchInv, DispatchTypes, QueryRow, Knows, QueryKnows, Working
<1>1. RowsOf(k) = query[k].asked
  <2>1. record[k] \in [status : {"RUNNING"} \cup Ended, rows : Nat]
    BY <1>0
  <2> QED
    BY <1>0, <2>1, NoneIsNoRecord DEF RowsOf
<1>2. RowsOf(k)' = query[k].rows
  <2>1. record'[k] = [status |-> query[k].status, rows |-> query[k].rows]
    BY <1>0 DEF Saved
  <2>2. record'[k] \in [status : {"RUNNING"} \cup Ended, rows : Nat]
    BY <1>0, <2>1
  <2> QED
    BY <2>1, <2>2, NoneIsNoRecord DEF RowsOf
<1>3. \A j \in Calls \ {k} : record'[j] = record[j]
  BY <1>0 DEF Saved
<1>4. query[k].asked \in 0 .. MaxRows /\ query[k].rows \in 0 .. MaxRows
  BY <1>0, LimitsAssumption
<1>5. /\ IsFiniteSet(AllRows)'
      /\ \E others \in Nat : /\ Cardinality(AllRows) = others + query[k].asked
                             /\ Cardinality(AllRows)' = others + query[k].rows
  BY <1>1, <1>2, <1>3, <1>4, RowsChange DEF BudgetInv
<1>6. ASSUME NEW i \in 1 .. NBudgets
      PROVE  /\ budget'[i] \in [queries : 0 .. QueryLimit, rows : 0 .. RowLimit]
             /\ Cardinality(AllRows)' <= budget'[i].rows
  <2>1. budget[i] \in [queries : 0 .. QueryLimit, rows : 0 .. RowLimit]
    BY DEF BudgetInv
  <2>2. Cardinality(AllRows) <= budget[i].rows
    BY DEF BudgetInv, BudgetCovers
  <2>3. CASE i <= written
    <3>1. budget'[i] = [budget[i] EXCEPT !.rows = budget[i].rows - (query[k].asked - query[k].rows)]
      BY <2>3 DEF Refunded, Refund
    <3>2. /\ budget'[i].queries = budget[i].queries
          /\ budget'[i].rows = budget[i].rows - (query[k].asked - query[k].rows)
          /\ budget'[i] = [queries |-> budget'[i].queries, rows |-> budget'[i].rows]
      BY <2>1, <3>1
    <3>3. PICK others \in Nat : /\ others + query[k].asked <= budget[i].rows
                                /\ Cardinality(AllRows)' = others + query[k].rows
      BY <1>5, <2>2
    <3>4. budget'[i].rows \in 0 .. RowLimit /\ others + query[k].rows <= budget'[i].rows
      BY <1>0, <2>1, <3>2, <3>3, LimitsAssumption
    <3> QED
      BY <2>1, <3>2, <3>3, <3>4
  <2>4. CASE ~ (i <= written)
    <3>1. budget'[i] = budget[i]
      BY <2>4 DEF Refunded
    <3> QED
      BY <1>0, <1>5, <2>1, <2>2, <3>1, LimitsAssumption
  <2> QED
    BY <2>3, <2>4
<1>7. budget' = [i \in 1 .. NBudgets |-> budget'[i]]
  BY DEF Refunded
<1> QED
  BY <1>5, <1>6, <1>7 DEF BudgetInv, BudgetCovers

\* Every step keeps the budgets, those that are cut short between two files included.
LEMMA BudgetNext ==
    ASSUME BudgetInv, EvidenceInv, DispatchInv, [ImpalaNext]_impalaVars
    PROVE  BudgetInv'
<1>0. NBudgets \in 0 .. NBudgets /\ DOMAIN record = Calls
  BY LimitsAssumption DEF DispatchInv, DispatchTypes
<1>1. ASSUME NEW c \in Callers, Dispatches(c) PROVE BudgetInv'
  <2>1. ASSUME NEW rows \in 1 .. MaxRows, Reserves(c, rows) PROVE BudgetInv'
    <3>1. HoldsStripe(c) /\ caller[c].pc = "started"
      BY <2>1 DEF DispatchInv, Reserves, At
    <3>2. caller[c].call \in Calls
      BY <3>1 DEF HoldsStripe
    <3> QED
      BY <1>0, <2>1, <3>2, ReserveStep DEF Reserves, Admits
  <2>2. ASSUME NEW rows \in 1 .. MaxRows, NEW written \in 0 .. NBudgets,
               ReserveRaises(c, rows, written)
        PROVE  BudgetInv'
    <3>1. HoldsStripe(c) /\ caller[c].pc = "started" /\ record[caller[c].call] = None
      BY <2>2 DEF DispatchInv, ReserveRaises, Admits, At
    <3>2. caller[c].call \in Calls
      BY <3>1 DEF HoldsStripe
    <3>3. CASE record' = record
      BY <2>2, <3>3, ChargeStep DEF ReserveRaises, Admits
    <3>4. CASE written = NBudgets /\ record' # record
      BY <1>0, <2>2, <3>1, <3>2, <3>4, ReserveStep DEF ReserveRaises, Admits
    <3> QED
      BY <2>2, <3>3, <3>4 DEF ReserveRaises
  <2>3. ASSUME NEW rows \in 1 .. MaxRows, Refused(c, rows) PROVE BudgetInv'
    BY <2>3, BudgetStays DEF Refused, files
  <2>4. CASE \/ TurnedAway(c) \/ Prepares(c) \/ StartsTool(c) \/ InputRaises(c)
             \/ WritesResult(c) \/ FinishesTool(c) \/ PersistRaises(c)
    BY <2>4, BudgetStays
       DEF TurnedAway, Prepares, StartsTool, InputRaises, WritesResult, FinishesTool,
           PersistRaises, files
  <2> QED
    BY <1>1, <2>1, <2>2, <2>3, <2>4 DEF Dispatches
<1>2. ASSUME NEW k \in Calls, Thread(k) PROVE BudgetInv'
  <2>1. CASE Saves(k)
    BY <1>0, <2>1, SaveStep DEF Saves, Runs
  <2>2. ASSUME NEW written \in 0 .. NBudgets, SaveRaises(k, written) PROVE BudgetInv'
    BY <2>2, SaveStep, BudgetStays DEF SaveRaises, Runs
  <2>3. CASE \/ Connects(k) \/ Submits(k) \/ Interrupted(k) \/ CleansUp(k)
             \/ \E rows \in 0 .. query[k].asked : Fetches(k, rows)
             \/ \E arrived \in BOOLEAN : DriverRaises(k, arrived)
    BY <2>3, BudgetStays
       DEF Connects, Submits, Interrupted, CleansUp, Fetches, DriverRaises, files
  <2> QED
    BY <1>2, <2>1, <2>2, <2>3 DEF Thread
<1>3. CASE ProcessDies
  <2>1. CASE UNCHANGED <<record, budget>>
    BY <2>1, BudgetStays
  <2>2. ASSUME NEW rows \in 1 .. MaxRows, NEW written \in 1 .. NBudgets, Affords(rows),
               budget' = Charged(written, rows), record' = record
        PROVE  BudgetInv'
    <3>1. written \in 0 .. NBudgets
      BY LimitsAssumption
    <3> QED
      BY <2>2, <3>1, ChargeStep
  <2>3. ASSUME NEW k \in Calls, NEW written \in 0 .. NBudgets, query[k].pc = "saving",
               record' = Saved(k), budget' = Refunded(k, written)
        PROVE  BudgetInv'
    BY <2>3, SaveStep
  <2> QED
    BY <1>3, <2>1, <2>2, <2>3 DEF ProcessDies, CutShort, Admits, Runs
<1>4. CASE \/ \E c \in Callers, k \in Calls : Executes(c, k)
           \/ \E k \in Calls : RemoteEnds(k) \/ CancelsQuery(k)
           \/ CancelsRun \/ Stops \/ UNCHANGED impalaVars
  BY <1>4, BudgetStays DEF Executes, RemoteEnds, CancelsQuery, CancelsRun, Stops, files, impalaVars
<1> QED
  BY <1>1, <1>2, <1>3, <1>4 DEF ImpalaNext

-----------------------------------------------------------------------------
ImpalaInv == DispatchInv /\ EvidenceInv /\ BudgetInv

\* What dispatcher, threads and files know of a query agrees in every state, and the
\* budgets cover what the records say (_execute_locked, _reserve, _execute).
THEOREM ImpalaInvTheorem == ImpalaSpec => []ImpalaInv
<1>1. ImpalaInit => ImpalaInv
  BY DispatchInit, EvidenceInit, BudgetInit DEF ImpalaInv
<1>2. ImpalaInv /\ [ImpalaNext]_impalaVars => ImpalaInv'
  BY DispatchNext, EvidenceNext, BudgetNext DEF ImpalaInv
<1> QED
  BY <1>1, <1>2, PTL DEF ImpalaSpec

\* Ledger, files, threads and budgets are well formed; no budget exceeds its limits.
THEOREM ImpalaTypesTheorem == ImpalaSpec => []ImpalaTypeOK
<1>1. ImpalaInv => ImpalaTypeOK
  <2> SUFFICES ASSUME ImpalaInv PROVE ImpalaTypeOK
    OBVIOUS
  <2>1. DispatchTypes /\ EvidenceTypes /\ BudgetInv
    BY DEF ImpalaInv, DispatchInv, EvidenceInv
  <2>2. ASSUME NEW k \in Calls
        PROVE  /\ query[k] \in [pc : PCs, status : Statuses, asked : 0 .. MaxRows,
                                rows : 0 .. MaxRows]
               /\ record[k] = None \/ record[k] \in [status : Statuses, rows : 0 .. MaxRows]
    <3>1. /\ query[k] \in QueryRow /\ query[k].asked <= MaxRows
          /\ query[k].rows <= query[k].asked
          /\ record[k] = None \/ record[k] \in [status : Statuses, rows : 0 .. MaxRows]
      BY DEF ImpalaInv, DispatchInv, DispatchTypes, EvidenceInv, Knows, QueryKnows, RecordKnows
    <3>2. query[k].asked \in 0 .. MaxRows /\ query[k].rows \in 0 .. MaxRows
      BY <3>1, LimitsAssumption DEF QueryRow
    <3> QED
      BY <3>1, <3>2 DEF QueryRow
  <2>3. query \in [Calls -> [pc : PCs, status : Statuses, asked : 0 .. MaxRows,
                             rows : 0 .. MaxRows]]
    BY <2>1, <2>2 DEF DispatchTypes
  <2> QED
    BY <2>1, <2>2, <2>3
       DEF ImpalaTypeOK, DispatchTypes, EvidenceTypes, BudgetInv, CallerRow, PCs, Statuses
<1> QED
  BY <1>1, ImpalaInvTheorem, PTL

\* Whoever reads that a query succeeded, failed or was cancelled may rely on it: _execute
\* ends a query for certain only where it never ran, was finished or is cancelled, and
\* everything else is UNKNOWN.
THEOREM CertainMeansEndedTheorem == ImpalaSpec => []CertainMeansEnded
<1>1. ImpalaInv => CertainMeansEnded
  BY DEF ImpalaInv, EvidenceInv, Knows, RecordKnows, LedgerKnows, CertainMeansEnded
<1> QED
  BY <1>1, ImpalaInvTheorem, PTL

\* A repeated call is answered with what the ledger says: the coroutine writes result.json
\* and the ledger from what the thread returned after it had saved the record.
THEOREM EvidenceAgreesTheorem == ImpalaSpec => []EvidenceAgrees
<1>1. ImpalaInv => EvidenceAgrees
  BY DEF ImpalaInv, EvidenceInv, Knows, LedgerKnows, RecordSays, EvidenceAgrees
<1> QED
  BY <1>1, ImpalaInvTheorem, PTL

\* A budget never forgets rows: _reserve charges the budgets before it writes the record,
\* the record is written before they get back what was not used, and a crash in between
\* leaves a budget that counts too much.
THEOREM BudgetCoversTheorem == ImpalaSpec => []BudgetCovers
<1>1. ImpalaInv => BudgetCovers
  BY DEF ImpalaInv, BudgetInv
<1> QED
  BY <1>1, ImpalaInvTheorem, PTL
=============================================================================
