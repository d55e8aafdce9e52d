----------------------- MODULE HistoryPartitionsProofs -----------------------
(***************************************************************************)
(* Proofs about HistoryPartitions, for any gateways, schemas, horizon and   *)
(* length of a month.                                                       *)
(*                                                                          *)
(* A statement that goes on has dealt with the months behind it (RunInv):   *)
(* it has created a partition or has seen a table of that name.  Tables are *)
(* never dropped, so that what it has seen stays, whoever commits or fails  *)
(* in between; at its commit this becomes what it promises (PromiseInv).    *)
(*                                                                          *)
(* LockInv adds that a table which a statement has made was made by no      *)
(* other: nobody waits in a circle.  Left counts the steps a statement has  *)
(* before it: it ends, whoever it meets.                                    *)
(***************************************************************************)
EXTENDS HistoryPartitions, TLAPS

\* Is there a table of that name?
PresentIn(t, m) == \E s \in Schemas : <<s, m>> \in t
Present(m) == PresentIn(tables, m)

\* How many of its months a statement has dealt with.
Done(q) == CASE q.pc = "idle" -> 0
             [] q.pc = "committing" -> q.next + 1
             [] OTHER -> q.next

RunInv ==
    \A r \in Runners : \A k \in Nat :
        k < Done(run[r]) => run[r].from + k \in run[r].made \/ Present(run[r].from + k)

Served(s, m) == <<s, m>> \in tables \/ Taken(s, m)

PromiseInv == \A s \in Schemas : \A m \in Months : <<s, m>> \in promised => Served(s, m)

RowInv ==
    \A w \in Rows :
        /\ row[w].sure => Served(row[w].schema, row[w].month)
        /\ row[w].sure /\ row[w].pc = "failed" => Taken(row[w].schema, row[w].month)

IInv == TypeOK /\ RunInv /\ PromiseInv /\ RowInv

LEMMA Constants ==
    /\ Schemas # {} /\ Deployments \subseteq [Runners -> Schemas]
    /\ MonthDelta \in Nat /\ MonthLength \in Nat /\ MonthLength > 0
    /\ MaxTime \in Nat /\ MaxFails \in Nat
  BY PartitionsAssumption

LEMMA Division ==
  ASSUME NEW a \in Nat, NEW b \in Nat, a <= b, NEW n \in Nat, n > 0
  PROVE  a \div n \in Nat /\ b \div n \in Nat /\ a \div n <= b \div n
  OBVIOUS

LEMMA MonthIs ==
  ASSUME NEW t \in 0..MaxTime
  PROVE  /\ Month(t) \in 0..Month(MaxTime) /\ Month(MaxTime) \in Nat
         /\ Month(t) \in Months
  BY Constants, Division DEF Month, Months

RowRec == [pc : {"none", "inserting", "failed"}, schema : Schemas, month : Months, sure : BOOLEAN]

LEMMA NoRowIsOne == NoRow \in RowRec
<1>1. (CHOOSE s \in Schemas : TRUE) \in Schemas
  BY Constants, Zenon
<1>2. 0 \in Months
  BY Constants, MonthIs, 0 \in 0..MaxTime DEF Months
<1> QED
  BY <1>1, <1>2 DEF NoRow, RowRec

LEMMA InitIInv == Init => IInv
<1> SUFFICES ASSUME Init PROVE IInv
  OBVIOUS
<1> USE Constants
<1>1. 0 \in 0..Month(MaxTime) /\ 0 \in Months
  BY MonthIs, 0 \in 0..MaxTime DEF Months
<1>3. TypeOK
  <2>1. row \in [Rows -> RowRec]
    BY NoRowIsOne DEF Init
  <2>2. run \in [Runners -> [pc : {"idle", "checking", "creating", "committing"},
                             from : 0..Month(MaxTime), next : 0..MonthDelta, made : SUBSET Months]]
    BY <1>1 DEF Init, Waiting
  <2> QED
    BY <1>1, <2>1, <2>2 DEF Init, TypeOK, RowRec
<1> QED
  BY <1>3 DEF Init, IInv, RunInv, PromiseInv, RowInv, Waiting, NoRow, Done

-----------------------------------------------------------------------------
(* What all steps have in common: tables stay.                              *)

RunRec == [pc : {"idle", "checking", "creating", "committing"},
           from : 0..Month(MaxTime), next : 0..MonthDelta, made : SUBSET Months]

LEMMA Types ==
  ASSUME TypeOK, NEW r \in Runners
  PROVE  /\ schemaOf[r] \in Schemas
         /\ run \in [Runners -> RunRec] /\ run[r] \in RunRec
         /\ Month(clock) \in 0..Month(MaxTime) /\ Month(clock) \in Months
         /\ run[r].from \in Nat /\ run[r].next \in Nat
         /\ Period(r) \in Months
<1>1. /\ schemaOf[r] \in Schemas /\ run \in [Runners -> RunRec] /\ run[r] \in RunRec
      /\ Month(clock) \in 0..Month(MaxTime) /\ Month(clock) \in Months
      /\ Month(MaxTime) \in Nat
  BY Constants, MonthIs DEF TypeOK, RunRec
<1>2. run[r].from \in 0..Month(MaxTime) /\ run[r].next \in 0..MonthDelta
  BY <1>1 DEF RunRec
<1> QED
  BY <1>1, <1>2, Constants DEF Period, Months

LEMMA WaitingIsOne ==
  ASSUME TypeOK, NEW r \in Runners
  PROVE  Waiting \in RunRec /\ [Waiting EXCEPT !.pc = "checking", !.from = Month(clock)] \in RunRec
<1>1. Month(clock) \in 0..Month(MaxTime) /\ 0 \in 0..Month(MaxTime) /\ 0 \in 0..MonthDelta
  <2>1. Month(clock) \in 0..Month(MaxTime) /\ Month(MaxTime) \in Nat
    BY Constants, MonthIs DEF TypeOK
  <2> QED
    BY <2>1, Constants
<1> QED
  BY <1>1 DEF Waiting, RunRec

\* The invariant's other parts, when tables, promises and rows change only for
\* the better.
LEMMA RestKept ==
  ASSUME PromiseInv, RowInv, tables \subseteq tables',
         UNCHANGED <<row, promised>>
  PROVE  PromiseInv' /\ RowInv'
<1>1. \A s, m : (Served(s, m) => Served(s, m)') /\ (Taken(s, m) => Taken(s, m)')
  BY DEF Served, Taken
<1> QED
  BY <1>1 DEF PromiseInv, RowInv

\* A step of one statement.
LEMMA RunStep ==
  ASSUME TypeOK, RunInv, NEW r \in Runners, NEW q \in RunRec,
         run' = [run EXCEPT ![r] = q], tables \subseteq tables',
         \A k \in Nat : k < Done(q) => q.from + k \in q.made \/ PresentIn(tables', q.from + k)
  PROVE  run' \in [Runners -> RunRec] /\ RunInv'
<1>1. run \in [Runners -> RunRec]
  BY Types
<1>2. /\ run' \in [Runners -> RunRec] /\ run'[r] = q
      /\ \A o \in Runners : o # r => run'[o] = run[o]
  BY <1>1
<1>3. \A m : Present(m) => PresentIn(tables', m)
  BY DEF Present, PresentIn
<1> SUFFICES ASSUME NEW o \in Runners, NEW k \in Nat, k < Done(run'[o])
             PROVE  run'[o].from + k \in run'[o].made \/ PresentIn(tables', run'[o].from + k)
  BY <1>2 DEF RunInv, Present
<1>4. CASE o = r
  BY <1>2, <1>4
<1>5. CASE o # r
  BY <1>2, <1>3, <1>5 DEF RunInv
<1> QED
  BY <1>4, <1>5

\* A statement goes back to waiting.
LEMMA RunEnds ==
  ASSUME TypeOK, RunInv, NEW r \in Runners,
         run' = [run EXCEPT ![r] = Waiting], tables \subseteq tables'
  PROVE  run' \in [Runners -> RunRec] /\ RunInv'
<1>1. Waiting \in RunRec /\ \A k \in Nat : ~(k < Done(Waiting))
  BY WaitingIsOne DEF Waiting, Done
<1> QED
  BY <1>1, RunStep, Zenon

\* A statement is done with a month.
LEMMA MonthDone ==
  ASSUME TypeOK, RunInv, NEW r \in Runners, NEW made \in SUBSET Months, Step(r, made),
         run[r].pc \in {"checking", "creating"}, run[r].made \subseteq made,
         Period(r) \in made \/ Present(Period(r)),
         UNCHANGED tables
  PROVE  run' \in [Runners -> RunRec] /\ RunInv'
<1> DEFINE last == run[r].next = MonthDelta
           q == [run[r] EXCEPT !.pc = IF last THEN "committing" ELSE "checking",
                               !.next = IF last THEN @ ELSE @ + 1,
                               !.made = made]
<1>1. /\ run \in [Runners -> RunRec] /\ run[r] \in RunRec
      /\ run[r].from \in Nat /\ run[r].next \in Nat /\ run[r].next \in 0..MonthDelta
  BY Types DEF RunRec
<1>2. /\ q.pc = (IF last THEN "committing" ELSE "checking")
      /\ q.next = (IF last THEN run[r].next ELSE run[r].next + 1)
      /\ q.made = made /\ q.from = run[r].from
  BY <1>1 DEF RunRec
<1>3. q \in RunRec
  <2>1. (IF last THEN run[r].next ELSE run[r].next + 1) \in 0..MonthDelta
    BY <1>1, Constants
  <2> QED
    BY <1>1, <2>1 DEF RunRec
<1>4. run' = [run EXCEPT ![r] = q]
  BY <1>1 DEF Step
<1>5. \A k \in Nat : k < run[r].next => run[r].from + k \in made \/ Present(run[r].from + k)
  BY <1>1 DEF RunInv, Done
<1>6. Done(q) = run[r].next + 1
  BY <1>2 DEF Done
<1>8. \A m : Present(m) => PresentIn(tables', m)
  BY DEF Present, PresentIn
<1> HIDE DEF q
<1>7. ASSUME NEW k \in Nat, k < Done(q)
      PROVE  q.from + k \in q.made \/ PresentIn(tables', q.from + k)
  <2>1. CASE k < run[r].next
    BY <1>2, <1>5, <1>8, <2>1
  <2>2. CASE k = run[r].next
    <3>1. q.from + k = Period(r)
      BY <1>2, <2>2 DEF Period
    <3> QED
      BY <1>2, <1>8, <3>1
  <2> QED
    BY <1>1, <1>6, <1>7, <2>1, <2>2
<1> QED
  BY <1>3, <1>4, <1>7, RunStep

-----------------------------------------------------------------------------
(* The steps of createPartitions.                                           *)

\* What else the type invariant says, when only the statement changes.
LEMMA TypeKept ==
  ASSUME TypeOK, run' \in [Runners -> RunRec], UNCHANGED <<schemaOf, clock, tables, row, promised>>,
         fails' \in 0..MaxFails
  PROVE  TypeOK'
  BY DEF TypeOK, RunRec

LEMMA BeginOK == ASSUME IInv, NEW r \in Runners, Begin(r) PROVE IInv'
<1> DEFINE q == [Waiting EXCEPT !.pc = "checking", !.from = Month(clock)]
<1> USE DEF IInv
<1>1. q \in RunRec /\ \A k \in Nat : ~(k < Done(q))
  BY WaitingIsOne DEF Waiting, Done
<1>2. run' = [run EXCEPT ![r] = q] /\ UNCHANGED <<schemaOf, clock, tables, row, fails, promised>>
  BY DEF Begin
<1> HIDE DEF q
<1>3. run' \in [Runners -> RunRec] /\ RunInv'
  BY <1>1, <1>2, RunStep
<1>4. TypeOK'
  BY <1>2, <1>3, TypeKept DEF TypeOK
<1> QED
  BY <1>2, <1>3, <1>4, RestKept

LEMMA CheckOK == ASSUME IInv, NEW r \in Runners, Check(r) PROVE IInv'
<1> USE DEF IInv
<1>1. run' \in [Runners -> RunRec] /\ RunInv'
  <2>1. CASE Exists(r)
    <3>1. Step(r, run[r].made) /\ run[r].made \in SUBSET Months /\ Present(Period(r))
      BY <2>1, Types DEF Check, Exists, Present, PresentIn, RunRec
    <3> QED
      BY <3>1, MonthDone DEF Check
  <2>2. CASE ~Exists(r)
    <3> DEFINE q == [run[r] EXCEPT !.pc = "creating"]
    <3>1. run \in [Runners -> RunRec] /\ run[r] \in RunRec
      BY Types
    <3>2. /\ q \in RunRec /\ q.pc = "creating" /\ q.next = run[r].next
          /\ q.from = run[r].from /\ q.made = run[r].made
      BY <3>1 DEF RunRec
    <3>3. run' = [run EXCEPT ![r] = q] /\ UNCHANGED tables /\ run[r].pc = "checking"
      BY <2>2, <3>1 DEF Check
    <3> HIDE DEF q
    <3>5. Done(q) = Done(run[r])
      BY <3>2, <3>3 DEF Done
    <3>4. ASSUME NEW k \in Nat, k < Done(q) PROVE q.from + k \in q.made \/ PresentIn(tables', q.from + k)
      <4>1. run[r].from + k \in run[r].made \/ Present(run[r].from + k)
        BY <3>4, <3>5 DEF RunInv
      <4>2. \A m : Present(m) => PresentIn(tables', m)
        BY <3>3 DEF Present, PresentIn
      <4> QED
        BY <3>2, <4>1, <4>2
    <3> QED
      BY <3>2, <3>3, <3>4, RunStep
  <2> QED
    BY <2>1, <2>2
<1>2. TypeOK'
  BY <1>1, TypeKept DEF Check, TypeOK
<1> QED
  BY <1>1, <1>2, RestKept DEF Check

LEMMA CreateOK == ASSUME IInv, NEW r \in Runners, Create(r) PROVE IInv'
<1> USE DEF IInv
<1>1. run[r].made \cup {Period(r)} \in SUBSET Months
  BY Types DEF RunRec
<1>2. run' \in [Runners -> RunRec] /\ RunInv'
  BY <1>1, MonthDone DEF Create
<1>3. TypeOK'
  BY <1>2, TypeKept DEF Create, TypeOK
<1> QED
  BY <1>2, <1>3, RestKept DEF Create

LEMMA CreateFailedOK == ASSUME IInv, NEW r \in Runners, CreateFailed(r) PROVE IInv'
<1> USE DEF IInv
<1>1. run' \in [Runners -> RunRec] /\ RunInv'
  BY RunEnds DEF CreateFailed
<1>2. TypeOK'
  BY <1>1, TypeKept DEF CreateFailed, TypeOK
<1> QED
  BY <1>1, <1>2, RestKept DEF CreateFailed

LEMMA CommitOK == ASSUME IInv, NEW r \in Runners, Commit(r) PROVE IInv'
<1> USE DEF IInv
<1>1. /\ schemaOf[r] \in Schemas /\ run[r] \in RunRec /\ run[r].made \subseteq Months
      /\ run[r].from \in Nat /\ run[r].next \in Nat /\ Period(r) \in Months
      /\ tables' = tables \cup Created(r)
  BY Types DEF RunRec, Commit
<1>2. run' \in [Runners -> RunRec] /\ RunInv'
  BY <1>1, RunEnds DEF Commit
<1>3. run[r].from..Period(r) \subseteq Months
  <2>1. Month(MaxTime) + MonthDelta \in Nat
    BY Constants, MonthIs, MaxTime \in 0..MaxTime
  <2> QED
    BY <1>1, <2>1 DEF Months
<1>4. TypeOK'
  BY <1>1, <1>2, <1>3 DEF TypeOK, RunRec, Commit, Created
<1>5. \A s, m : (Served(s, m) => Served(s, m)') /\ (Taken(s, m) => Taken(s, m)')
  BY <1>1 DEF Served, Taken
<1>6. ASSUME NEW m \in Months, m \in run[r].from..Period(r) PROVE Served(schemaOf[r], m)'
  <2> DEFINE k == m - run[r].from
  <2>1. k \in Nat /\ k < Done(run[r]) /\ run[r].from + k = m
    BY <1>1, <1>6 DEF Commit, Done, Period, Months
  <2>2. m \in run[r].made \/ Present(m)
    BY <2>1 DEF RunInv
  <2>3. CASE m \in run[r].made
    BY <1>1, <2>3 DEF Created, Served, Commit
  <2>4. CASE Present(m)
    BY <1>1, <2>4 DEF Present, PresentIn, Served, Taken, Commit
  <2> QED
    BY <2>2, <2>3, <2>4
<1>7. PromiseInv'
  BY <1>1, <1>5, <1>6 DEF PromiseInv, Commit
<1>8. RowInv'
  BY <1>5 DEF RowInv, Commit
<1> QED
  BY <1>2, <1>4, <1>7, <1>8

LEMMA BreakOK == ASSUME IInv, NEW r \in Runners, Break(r) PROVE IInv'
<1> USE DEF IInv
<1>1. schemaOf[r] \in Schemas /\ run[r] \in RunRec /\ run[r].made \subseteq Months
  BY Types DEF RunRec
<1>2. tables \subseteq tables' /\ tables' \subseteq tables \cup Created(r)
  BY DEF Break
<1>3. run' \in [Runners -> RunRec] /\ RunInv'
  BY <1>2, RunEnds DEF Break
<1>4. TypeOK'
  BY <1>1, <1>2, <1>3, Constants DEF TypeOK, RunRec, Break, Created
<1> QED
  BY <1>2, <1>3, <1>4, RestKept DEF Break

-----------------------------------------------------------------------------
(* The rows and the clock.                                                  *)

LEMMA OtherKept ==
  ASSUME RunInv, PromiseInv, UNCHANGED <<tables, run, promised>>
  PROVE  RunInv' /\ PromiseInv'
  BY DEF RunInv, PromiseInv, Present, PresentIn, Served, Taken

LEMMA SaveOK == ASSUME IInv, NEW w \in Rows, NEW r \in Runners, Save(w, r) PROVE IInv'
<1> USE DEF IInv
<1>1. schemaOf[r] \in Schemas /\ Month(clock) \in Months
  BY Types
<1>2. (<<schemaOf[r], Month(clock)>> \in promised) \in BOOLEAN
  OBVIOUS
<1> DEFINE n == [pc |-> "inserting", schema |-> schemaOf[r], month |-> Month(clock),
                 sure |-> <<schemaOf[r], Month(clock)>> \in promised]
<1>3. /\ n \in RowRec
      /\ n.schema = schemaOf[r] /\ n.month = Month(clock) /\ n.pc # "failed"
      /\ n.sure => <<schemaOf[r], Month(clock)>> \in promised
  BY <1>1, <1>2 DEF RowRec
<1>4. row \in [Rows -> RowRec] /\ row' = [row EXCEPT ![w] = n]
  BY DEF TypeOK, RowRec, Save
<1> HIDE DEF n
<1>5. TypeOK'
  BY <1>3, <1>4 DEF TypeOK, RowRec, Save
<1>6. \A s, m : (Served(s, m) => Served(s, m)') /\ (Taken(s, m) => Taken(s, m)')
  BY DEF Served, Taken, Save
<1>7. n.sure => Served(n.schema, n.month)
  BY <1>1, <1>3 DEF PromiseInv
<1>8. RowInv'
  BY <1>3, <1>4, <1>6, <1>7 DEF RowInv
<1> QED
  BY <1>5, <1>8, OtherKept DEF Save

LEMMA InsertOK == ASSUME IInv, NEW w \in Rows, Insert(w) PROVE IInv'
<1> USE DEF IInv
<1> DEFINE n == IF <<row[w].schema, row[w].month>> \in tables THEN NoRow
                ELSE [row[w] EXCEPT !.pc = "failed"]
<1>1. row \in [Rows -> RowRec] /\ row[w] \in RowRec /\ row' = [row EXCEPT ![w] = n]
  BY DEF TypeOK, RowRec, Insert
<1>2. n \in RowRec /\ (n.sure => n.schema = row[w].schema /\ n.month = row[w].month /\ row[w].sure
                                /\ <<n.schema, n.month>> \notin tables)
  <2>1. CASE <<row[w].schema, row[w].month>> \in tables
    BY <2>1, NoRowIsOne DEF NoRow
  <2>2. CASE <<row[w].schema, row[w].month>> \notin tables
    BY <1>1, <2>2 DEF RowRec
  <2> QED
    BY <2>1, <2>2
<1> HIDE DEF n
<1>3. TypeOK'
  BY <1>1, <1>2 DEF TypeOK, RowRec, Insert
<1>4. \A s, m : (Served(s, m) => Served(s, m)') /\ (Taken(s, m) => Taken(s, m)')
  BY DEF Served, Taken, Insert
<1>5. RowInv'
  <2>1. n.sure => Served(n.schema, n.month) /\ Taken(n.schema, n.month)
    BY <1>1, <1>2 DEF RowInv, Served
  <2> QED
    BY <1>1, <1>2, <1>4, <2>1 DEF RowInv
<1> QED
  BY <1>3, <1>5, OtherKept DEF Insert

LEMMA TickOK == ASSUME IInv, Tick PROVE IInv'
<1> USE DEF IInv
<1>1. TypeOK'
  BY Constants DEF TypeOK, Tick
<1>2. RowInv'
  BY DEF RowInv, Tick, Served, Taken
<1> QED
  BY <1>1, <1>2, OtherKept DEF Tick

-----------------------------------------------------------------------------
(* The invariant, and what follows from it.                                 *)

LEMMA NextOK == IInv /\ [Next]_vars => IInv'
<1> SUFFICES ASSUME IInv, [Next]_vars PROVE IInv'
  OBVIOUS
<1>1. ASSUME NEW r \in Runners, CreatePartitions(r) PROVE IInv'
  BY <1>1, BeginOK, CheckOK, CreateOK, CreateFailedOK, CommitOK DEF CreatePartitions
<1>2. ASSUME NEW r \in Runners, Break(r) PROVE IInv'
  BY <1>2, BreakOK
<1>3. ASSUME NEW w \in Rows, NEW r \in Runners, Save(w, r) PROVE IInv'
  BY <1>3, SaveOK
<1>4. ASSUME NEW w \in Rows, Insert(w) PROVE IInv'
  BY <1>4, InsertOK
<1>5. CASE Tick
  BY <1>5, TickOK
<1>6. CASE UNCHANGED vars
  <2>1. TypeOK' /\ RowInv'
    BY <1>6 DEF IInv, TypeOK, RowInv, Served, Taken, vars
  <2> QED
    BY <1>6, <2>1, OtherKept DEF IInv, vars
<1> QED
  BY <1>1, <1>2, <1>3, <1>4, <1>5, <1>6 DEF Next

LEMMA Invariant == Spec => []IInv
  BY InitIInv, NextOK, PTL DEF Spec

\* In every reachable state statements are about months of the horizon, and
\* only such partitions are there (create_partition_by_interval).
THEOREM TypeCorrect == Spec => []TypeOK
<1>1. IInv => TypeOK
  BY DEF IInv
<1> QED
  BY <1>1, Invariant, PTL

\* However many gateways create partitions at once, and wherever a statement
\* breaks off, no row of a month that a successful run has dealt with is lost,
\* unless another schema has a table of that name
\* (RequestHistoryPartitionsDBInitializer.createPartitions).
THEOREM RowsKept == Spec => []RowsAreKept
<1>1. IInv => RowsAreKept
  <2> SUFFICES ASSUME IInv PROVE RowsAreKept
    OBVIOUS
  <2> QED
    BY DEF IInv, RowInv, RowsAreKept, Served
<1> QED
  BY <1>1, Invariant, PTL
-----------------------------------------------------------------------------
(* Who holds the lock on a table, and who waits for it.                     *)

\* What a statement has created and not committed: nobody else's statement has
\* created anything for that table, and none of it is there.
LockInv ==
    \A r \in Runners :
        /\ run[r].pc = "idle" => run[r].made = {}
        /\ \A m \in run[r].made : <<schemaOf[r], m>> \notin tables
        /\ \A q \in Runners \ {r} :
              schemaOf[q] = schemaOf[r] /\ run[r].made # {} => run[q].made = {}

MadeOnce ==
    \A r \in Runners :
        /\ Created(r) \cap tables = {}
        /\ \A q \in Runners \ {r} : Created(r) \cap Created(q) = {}

\* A statement that is not waiting for a lock.
MayGoOn(r) ==
    \/ run[r].pc \in {"checking", "committing"}
    \/ run[r].pc = "creating" /\ Unlocked(r)

\* Whoever waits, waits for a statement that does not.
NobodyIsStuck ==
    /\ \A r \in Runners :
          run[r].pc # "idle" =>
              \/ MayGoOn(r)
              \/ \E q \in Runners \ {r} :
                    schemaOf[q] = schemaOf[r] /\ run[q].made # {} /\ MayGoOn(q)
    /\ \A w \in Rows :
          row[w].pc = "inserting" /\ Locked(row[w].schema) =>
              \E q \in Runners : schemaOf[q] = row[w].schema /\ run[q].made # {} /\ MayGoOn(q)

\* A statement's step that ends its transaction or keeps its lock.
LEMMA LockKept ==
  ASSUME TypeOK, LockInv, NEW r \in Runners, NEW q, run' = [run EXCEPT ![r] = q],
         UNCHANGED schemaOf, tables \subseteq tables', tables' \subseteq tables \cup Created(r),
         q.made = {} \/ (q.made = run[r].made /\ q.pc # "idle" /\ UNCHANGED tables)
  PROVE  LockInv'
<1>1. /\ run'[r] = q
      /\ \A o \in Runners : o # r => run'[o] = run[o]
  BY DEF TypeOK
<1>2. \A o \in Runners \ {r} : \A m \in run[o].made : <<schemaOf[o], m>> \notin tables'
  <2> SUFFICES ASSUME NEW o \in Runners \ {r}, NEW m \in run[o].made, <<schemaOf[o], m>> \in tables'
               PROVE  FALSE
    OBVIOUS
  <2>1. <<schemaOf[o], m>> \in Created(r)
    BY DEF LockInv
  <2>2. schemaOf[o] = schemaOf[r] /\ m \in run[r].made
    BY <2>1 DEF Created
  <2>3. run[r].made = {}
    BY <2>2 DEF LockInv
  <2> QED
    BY <2>2, <2>3
<1>3. \A m \in q.made : <<schemaOf[r], m>> \notin tables'
  BY DEF LockInv
<1>4. \A o \in Runners : \A m \in run'[o].made : <<schemaOf[o], m>> \notin tables'
  BY <1>1, <1>2, <1>3
<1>5. ASSUME NEW o \in Runners, NEW p \in Runners \ {o}, schemaOf[p] = schemaOf[o], run'[o].made # {}
      PROVE  run'[p].made = {}
  <2>1. run[o].made # {} /\ run[p].made = {}
    BY <1>1, <1>5 DEF LockInv
  <2> QED
    BY <1>1, <2>1
<1>6. \A o \in Runners : run'[o].pc = "idle" => run'[o].made = {}
  BY <1>1 DEF LockInv
<1> QED
  BY <1>4, <1>5, <1>6 DEF LockInv

\* CREATE TABLE takes the lock, and adds a table that is not there.
LEMMA LockTaken ==
  ASSUME TypeOK, LockInv, NEW r \in Runners, Create(r) PROVE LockInv'
<1> DEFINE made == run[r].made \cup {Period(r)}
<1>1. run \in [Runners -> RunRec] /\ run[r] \in RunRec
  BY Types
<1>2. /\ run'[r].made = made /\ run'[r].pc # "idle"
      /\ \A o \in Runners : o # r => run'[o] = run[o]
      /\ UNCHANGED <<schemaOf, tables>>
  BY <1>1 DEF Create, Step, RunRec
<1>3. \A o \in Runners \ {r} : schemaOf[o] = schemaOf[r] => run[o].made = {}
  BY DEF Create, Unlocked
<1>4. \A m \in made : <<schemaOf[r], m>> \notin tables
  BY DEF Create, LockInv
<1> HIDE DEF made
<1>5. ASSUME NEW o \in Runners, NEW p \in Runners \ {o}, schemaOf[p] = schemaOf[o], run'[o].made # {}
      PROVE  run'[p].made = {}
  <2>1. CASE o = r
    BY <1>2, <1>3, <1>5, <2>1
  <2>2. CASE o # r
    <3>1. p # r
      BY <1>2, <1>3, <1>5, <2>2
    <3> QED
      BY <1>2, <1>5, <2>2, <3>1 DEF LockInv
  <2> QED
    BY <2>1, <2>2
<1> QED
  BY <1>2, <1>4, <1>5 DEF LockInv

LEMMA LockStep == TypeOK /\ LockInv /\ [Next]_vars => LockInv'
<1> SUFFICES ASSUME TypeOK, LockInv, [Next]_vars PROVE LockInv'
  OBVIOUS
<1>1. ASSUME NEW r \in Runners, Begin(r) PROVE LockInv'
  <2> DEFINE q == [Waiting EXCEPT !.pc = "checking", !.from = Month(clock)]
  <2>1. q.made = {} /\ run' = [run EXCEPT ![r] = q] /\ UNCHANGED <<schemaOf, tables>>
    BY <1>1 DEF Begin, Waiting
  <2> HIDE DEF q
  <2> QED
    BY <2>1, LockKept
<1>2. ASSUME NEW r \in Runners, Check(r) PROVE LockInv'
  <2>1. run \in [Runners -> RunRec] /\ run[r] \in RunRec
    BY Types
  <2>2. /\ run'[r].made = run[r].made /\ run'[r].pc # "idle" /\ UNCHANGED <<schemaOf, tables>>
        /\ run' = [run EXCEPT ![r] = run'[r]]
    <3>1. CASE Exists(r)
      BY <1>2, <2>1, <3>1 DEF Check, Step, RunRec
    <3>2. CASE ~Exists(r)
      BY <1>2, <2>1, <3>2 DEF Check, RunRec
    <3> QED
      BY <3>1, <3>2
  <2> QED
    BY <2>2, LockKept
<1>3. ASSUME NEW r \in Runners, CreateFailed(r) \/ Commit(r) \/ Break(r) PROVE LockInv'
  <2>1. run' = [run EXCEPT ![r] = Waiting] /\ Waiting.made = {} /\ UNCHANGED schemaOf
    BY <1>3 DEF CreateFailed, Commit, Break, Waiting
  <2>2. tables \subseteq tables' /\ tables' \subseteq tables \cup Created(r)
    BY <1>3 DEF CreateFailed, Commit, Break
  <2> QED
    BY <2>1, <2>2, LockKept
<1>4. ASSUME UNCHANGED <<schemaOf, tables, run>> PROVE LockInv'
  BY <1>4 DEF LockInv
<1> QED
  BY <1>1, <1>2, <1>3, <1>4, LockTaken DEF Next, CreatePartitions, Save, Insert, Tick, vars

LEMMA LockInvariant == Spec => [](TypeOK /\ LockInv)
<1>1. Init => LockInv
  <2> SUFFICES ASSUME Init PROVE LockInv
    OBVIOUS
  <2>1. \A r \in Runners : run[r].made = {}
    BY DEF Init, Waiting
  <2> QED
    BY <2>1 DEF LockInv
<1> QED
  BY <1>1, LockStep, TypeCorrect, PTL DEF Spec

\* However many gateways run createPartitions at once, a partition is created
\* by one transaction only: what one has created and not yet committed is not
\* there, and no other has created it too, so a commit never collides.
THEOREM PartitionsMadeOnce == Spec => []MadeOnce
<1>1. TypeOK /\ LockInv => MadeOnce
  <2> SUFFICES ASSUME LockInv, NEW r \in Runners
               PROVE  /\ Created(r) \cap tables = {}
                      /\ \A q \in Runners \ {r} : Created(r) \cap Created(q) = {}
    BY DEF MadeOnce
  <2>1. Created(r) \cap tables = {}
    BY DEF LockInv, Created
  <2>2. ASSUME NEW q \in Runners \ {r}, Created(r) \cap Created(q) # {} PROVE FALSE
    <3>1. schemaOf[q] = schemaOf[r] /\ run[r].made # {} /\ run[q].made # {}
      BY <2>2 DEF Created
    <3> QED
      BY <3>1 DEF LockInv
  <2> QED
    BY <2>1, <2>2
<1> QED
  BY <1>1, LockInvariant, PTL

\* The lock a statement holds until its transaction ends is never waited for in
\* a circle, although a statement takes it in the middle and several times: one
\* that holds it needs no other, so whoever waits for it, createPartitions or
\* the insert of a row, waits for a statement that can go on.
THEOREM NoDeadlock == Spec => []NobodyIsStuck
<1>1. ASSUME TypeOK, LockInv, NEW q \in Runners, run[q].made # {} PROVE MayGoOn(q)
  <2>1. run[q] \in RunRec /\ run[q].pc # "idle"
    BY <1>1, Types DEF LockInv
  <2>2. Unlocked(q)
    BY <1>1 DEF LockInv, Unlocked
  <2> QED
    BY <2>1, <2>2 DEF MayGoOn, RunRec
<1>2. ASSUME TypeOK, LockInv, NEW r \in Runners, run[r].pc # "idle", ~MayGoOn(r)
      PROVE  \E q \in Runners \ {r} : schemaOf[q] = schemaOf[r] /\ run[q].made # {} /\ MayGoOn(q)
  <2>1. run[r] \in RunRec
    BY <1>2, Types
  <2>2. ~Unlocked(r)
    BY <1>2, <2>1 DEF MayGoOn, RunRec
  <2> QED
    BY <1>1, <1>2, <2>2 DEF Unlocked
<1>3. ASSUME TypeOK, LockInv, NEW w \in Rows, Locked(row[w].schema)
      PROVE  \E q \in Runners : schemaOf[q] = row[w].schema /\ run[q].made # {} /\ MayGoOn(q)
  BY <1>1, <1>3 DEF Locked
<1>4. TypeOK /\ LockInv => NobodyIsStuck
  BY <1>2, <1>3 DEF NobodyIsStuck
<1> QED
  BY <1>4, LockInvariant, PTL
\* How many steps a statement has left at most.
Left(q) ==
    CASE q.pc = "idle" -> 0
      [] q.pc = "committing" -> 1
      [] q.pc = "creating" -> 2 * (MonthDelta - q.next) + 2
      [] OTHER -> 2 * (MonthDelta - q.next) + 3

Onward ==
    [][\A r \in Runners :
          run[r].pc # "idle" => run'[r] = run[r] \/ (Left(run'[r]) \in Nat /\ Left(run'[r]) < Left(run[r]))]_vars

LEMMA LeftOfWaiting == Left(Waiting) = 0
  BY DEF Left, Waiting

LEMMA LeftIs ==
  ASSUME TypeOK, NEW r \in Runners, run[r].pc # "idle"
  PROVE  /\ Left(run[r]) \in Nat /\ Left(run[r]) > 0
         /\ run[r].pc \in {"checking", "creating"} => Left(run[r]) > 1
<1>1. run[r].pc \in {"checking", "creating", "committing"} /\ run[r].next \in 0..MonthDelta
  BY Types DEF RunRec
<1>2. MonthDelta - run[r].next \in Nat
  BY <1>1, Constants
<1> QED
  BY <1>1, <1>2 DEF Left

LEMMA StepOnward ==
  ASSUME TypeOK, NEW r \in Runners, NEW made, Step(r, made), run[r].pc \in {"checking", "creating"}
  PROVE  Left(run'[r]) \in Nat /\ Left(run'[r]) < Left(run[r])
<1> DEFINE last == run[r].next = MonthDelta
<1>1. /\ run \in [Runners -> RunRec] /\ run[r] \in RunRec
      /\ run[r].next \in 0..MonthDelta /\ MonthDelta \in Nat
  BY Types, Constants DEF RunRec
<1>2. /\ run'[r].pc = (IF last THEN "committing" ELSE "checking")
      /\ run'[r].next = (IF last THEN run[r].next ELSE run[r].next + 1)
  BY <1>1 DEF Step, RunRec
<1>3. CASE last
  BY <1>2, <1>3, LeftIs DEF Left
<1>4. CASE ~last
  <2> DEFINE n == MonthDelta - run[r].next
  <2>1. n \in Nat /\ n > 0 /\ MonthDelta - run'[r].next = n - 1
    BY <1>1, <1>2, <1>4
  <2>2. Left(run'[r]) = 2 * (MonthDelta - run'[r].next) + 3
    BY <1>2, <1>4 DEF Left
  <2>3. Left(run[r]) = 2 * n + 2 \/ Left(run[r]) = 2 * n + 3
    BY DEF Left
  <2> HIDE DEF n
  <2> QED
    BY <2>1, <2>2, <2>3
<1> QED
  BY <1>3, <1>4

\* Every step of a statement, failures included, brings its end nearer, by a
\* count that does not depend on the other gateways: createPartitions is over
\* after two steps for each month of the horizon and a commit.
THEOREM StatementsEnd == Spec => Onward
<1> DEFINE Nearer(r) == run'[r] = run[r] \/ (Left(run'[r]) \in Nat /\ Left(run'[r]) < Left(run[r]))
<1>1. TypeOK /\ [Next]_vars => [\A r \in Runners : run[r].pc # "idle" => Nearer(r)]_vars
  <2> SUFFICES ASSUME TypeOK, Next, NEW r \in Runners, run[r].pc # "idle" PROVE Nearer(r)
    OBVIOUS
  <2>1. run \in [Runners -> RunRec] /\ run[r] \in RunRec
    BY Types
  <2>2. ASSUME NEW o \in Runners, NEW q, run' = [run EXCEPT ![o] = q], o # r PROVE Nearer(r)
    BY <2>1, <2>2
  <2>3. ASSUME run' = [run EXCEPT ![r] = Waiting] PROVE Nearer(r)
    <3>1. run'[r] = Waiting
      BY <2>1, <2>3
    <3> QED
      BY <3>1, LeftIs, LeftOfWaiting
  <2>4. CASE run' = run
    BY <2>4
  <2>5. ASSUME NEW o \in Runners, CreatePartitions(o) \/ Break(o), o # r PROVE Nearer(r)
    <3>1. \E q : run' = [run EXCEPT ![o] = q]
      <4>1. \A made : Step(o, made) => \E q : run' = [run EXCEPT ![o] = q]
        BY <2>1 DEF Step
      <4> QED
        BY <2>5, <4>1 DEF CreatePartitions, Begin, Check, Create, CreateFailed, Commit, Break
    <3> QED
      BY <2>2, <2>5, <3>1
  <2>6. CASE CreateFailed(r) \/ Commit(r) \/ Break(r)
    BY <2>3, <2>6 DEF CreateFailed, Commit, Break
  <2>7. CASE Create(r)
    BY <2>7, StepOnward DEF Create
  <2>8. CASE Check(r)
    <3>1. CASE Exists(r)
      BY <2>8, <3>1, StepOnward DEF Check
    <3>2. CASE ~Exists(r)
      <4>1. run'[r].pc = "creating" /\ run'[r].next = run[r].next /\ run[r].pc = "checking"
        BY <2>1, <2>8, <3>2 DEF Check, RunRec
      <4>2. MonthDelta - run[r].next \in Nat
        BY <2>1, Constants DEF RunRec
      <4>3. /\ Left(run'[r]) = 2 * (MonthDelta - run[r].next) + 2
            /\ Left(run[r]) = 2 * (MonthDelta - run[r].next) + 3
        BY <4>1 DEF Left
      <4> QED
        BY <4>2, <4>3
    <3> QED
      BY <3>1, <3>2
  <2>9. ~Begin(r)
    BY DEF Begin
  <2> QED
    BY <2>4, <2>5, <2>6, <2>7, <2>8, <2>9 DEF Next, CreatePartitions, Save, Insert, Tick
<1> QED
  BY <1>1, TypeCorrect, PTL DEF Spec, Onward
=============================================================================
