--------------------------- MODULE TaskStore_proofs ---------------------------
(***************************************************************************)
(* For every set of tasks, every limit (none included) and every bound:    *)
(* the store is type-correct, its retirement queue is exact, and it        *)
(* implements the lifecycle of TaskLifecycle: each call is one abstract    *)
(* write with the purge it brings about, or nothing.  For every page size  *)
(* and every filter, the pages of a walk over a changing store are a       *)
(* faithful listing: the offset of an id is how many smaller ids are       *)
(* listed, which only ids that leave lower and only ids that enter raise.  *)
(***************************************************************************)
EXTENDS TaskListing, SequenceTheorems, FiniteSetTheorems, TLAPS

(***************************************************************************)
(* The store.                                                              *)
(***************************************************************************)

StoreType == [entries : [TaskIds -> Entry \union {Absent}],
              terminal : Seq(TaskIds)]

(* The queue q lists the tasks of F, each once.                            *)
Lists(q, F) ==
  /\ \A i \in TaskIds : i \in F <=> \E k \in 1 .. Len(q) : q[k] = i
  /\ \A j, k \in 1 .. Len(q) : q[j] = q[k] => j = k

FinishedIn(st) == {i \in TaskIds : Finished(st, i)}

-----------------------------------------------------------------------------
(* What retire does to the queue and to the map.                           *)

LEMMA ExcessBound ==
  ASSUME Limit \in Nat, NEW q \in Seq(TaskIds)
  PROVE  /\ Excess(q) \in 0 .. Len(q)
         /\ Len(q) - Excess(q) <= Limit
  BY LenProperties DEF Excess

LEMMA KeptShape ==
  ASSUME Limit \in Nat, NEW q \in Seq(TaskIds)
  PROVE  /\ Kept(q) \in Seq(TaskIds)
         /\ Len(Kept(q)) = Len(q) - Excess(q)
         /\ \A k \in 1 .. Len(Kept(q)) : Kept(q)[k] = q[Excess(q) + k]
<1>1. Excess(q) \in 0 .. Len(q) /\ Len(q) \in Nat
  BY ExcessBound, LenProperties
<1>2. \A i \in Excess(q) + 1 .. Len(q) : q[i] \in TaskIds
  BY <1>1, ElementOfSeq
<1>3. QED
  BY <1>1, <1>2, SubSeqProperties DEF Kept

(* A queue with no repetition is cut into what is purged and what is kept. *)
LEMMA KeptLists ==
  ASSUME Limit \in Nat, NEW q \in Seq(TaskIds), NEW F, Lists(q, F)
  PROVE  Lists(Kept(q), F \ Purged(q))
<1>. DEFINE e == Excess(q)
            r == Kept(q)
<1>1. /\ e \in 0 .. Len(q) /\ Len(q) \in Nat
      /\ Len(r) = Len(q) - e
      /\ \A k \in 1 .. Len(r) : r[k] = q[e + k]
  BY ExcessBound, KeptShape, LenProperties
<1>. HIDE DEF e, r
<1>2. ASSUME NEW j \in 1 .. Len(r), NEW k \in 1 .. Len(r), r[j] = r[k]
      PROVE  j = k
  <2>1. e + j \in 1 .. Len(q) /\ e + k \in 1 .. Len(q)
    BY <1>1
  <2>2. e + j = e + k
    BY <1>1, <1>2, <2>1 DEF Lists
  <2>3. QED
    BY <1>1, <2>2
<1>3. ASSUME NEW i \in TaskIds, i \in F, i \notin Purged(q)
      PROVE  \E k \in 1 .. Len(r) : r[k] = i
  <2>1. PICK m \in 1 .. Len(q) : q[m] = i
    BY <1>3 DEF Lists
  <2>2. m > e
    BY <1>1, <1>3, <2>1 DEF Purged, e
  <2>3. m - e \in 1 .. Len(r) /\ r[m - e] = q[m]
    BY <1>1, <2>1, <2>2
  <2>4. QED
    BY <2>1, <2>3
<1>4. ASSUME NEW i \in TaskIds, NEW k \in 1 .. Len(r), r[k] = i
      PROVE  i \in F /\ i \notin Purged(q)
  <2>1. e + k \in 1 .. Len(q) /\ q[e + k] = i
    BY <1>1, <1>4
  <2>2. ASSUME NEW m \in 1 .. e, q[m] = i
        PROVE  FALSE
    BY <1>1, <2>1, <2>2 DEF Lists
  <2>3. QED
    BY <2>1, <2>2 DEF Lists, Purged, e
<1>5. QED
  BY <1>2, <1>3, <1>4 DEF Lists, r

LEMMA AppendLists ==
  ASSUME NEW q \in Seq(TaskIds), NEW F, NEW id \in TaskIds,
         id \notin F, Lists(q, F)
  PROVE  /\ Append(q, id) \in Seq(TaskIds)
         /\ Lists(Append(q, id), F \union {id})
<1>. DEFINE r == Append(q, id)
<1>1. /\ r \in Seq(TaskIds) /\ Len(q) \in Nat
      /\ Len(r) = Len(q) + 1
      /\ \A k \in 1 .. Len(q) : r[k] = q[k]
      /\ r[Len(q) + 1] = id
  BY AppendProperties, LenProperties
<1>. HIDE DEF r
<1>2. \A k \in 1 .. Len(q) : q[k] # id
  BY DEF Lists
<1>3. \A j, k \in 1 .. Len(r) : r[j] = r[k] => j = k
  <2>1. ASSUME NEW j \in 1 .. Len(r), NEW k \in 1 .. Len(r), r[j] = r[k]
        PROVE  j = k
    <3>1. CASE j \in 1 .. Len(q) /\ k \in 1 .. Len(q)
      BY <1>1, <2>1, <3>1 DEF Lists
    <3>2. CASE j = Len(q) + 1 \/ k = Len(q) + 1
      BY <1>1, <1>2, <2>1, <3>2
    <3>3. QED
      BY <1>1, <2>1, <3>1, <3>2
  <2>2. QED
    BY <2>1
<1>4. ASSUME NEW i \in TaskIds
      PROVE  i \in F \union {id} <=> \E k \in 1 .. Len(r) : r[k] = i
  BY <1>1, <1>2 DEF Lists
<1>5. QED
  BY <1>1, <1>3, <1>4 DEF Lists, r

LEMMA RetireType ==
  ASSUME NEW st \in StoreType, NEW id \in TaskIds
  PROVE  Retire(st, id) \in StoreType
<1>1. CASE Limit = NoLimit
  BY <1>1 DEF Retire
<1>2. CASE Limit # NoLimit
  <2>1. Limit \in Nat
    BY <1>2, LimitAssumption
  <2>2. Append(st.terminal, id) \in Seq(TaskIds)
    BY AppendProperties DEF StoreType
  <2>3. Kept(Append(st.terminal, id)) \in Seq(TaskIds)
    BY <2>1, <2>2, KeptShape
  <2>4. QED
    BY <1>2, <2>3 DEF Retire, StoreType
<1>3. QED
  BY <1>1, <1>2

(* Retiring a finished task the queue does not list yet leaves an exact    *)
(* queue, whatever the purge removed.                                      *)
LEMMA RetireExact ==
  ASSUME Limit \in Nat, NEW st \in StoreType, NEW id \in TaskIds,
         Finished(st, id), Lists(st.terminal, FinishedIn(st) \ {id})
  PROVE  /\ Lists(Retire(st, id).terminal, FinishedIn(Retire(st, id)))
         /\ Len(Retire(st, id).terminal) <= Limit
<1>. DEFINE q == Append(st.terminal, id)
            new == Retire(st, id)
<1>1. Limit # NoLimit
  BY LimitAssumption
<1>2. q \in Seq(TaskIds) /\ Lists(q, FinishedIn(st))
  <2>1. (FinishedIn(st) \ {id}) \union {id} = FinishedIn(st)
    BY DEF FinishedIn
  <2>2. st.terminal \in Seq(TaskIds) /\ id \notin FinishedIn(st) \ {id}
    BY DEF StoreType
  <2>3. QED
    BY <2>1, <2>2, AppendLists
<1>3. /\ new.terminal = Kept(q)
      /\ \A i \in TaskIds : new.entries[i] = IF i \in Purged(q) THEN Absent
                                             ELSE st.entries[i]
  BY <1>1 DEF Retire, StoreType
<1>4. FinishedIn(new) = FinishedIn(st) \ Purged(q)
  BY <1>3 DEF FinishedIn, Finished, Stored, StateOf
<1>5. Lists(Kept(q), FinishedIn(st) \ Purged(q))
  BY <1>2, KeptLists
<1>6. Len(Kept(q)) <= Limit
  BY <1>2, ExcessBound, KeptShape
<1>7. QED
  BY <1>3, <1>4, <1>5, <1>6

-----------------------------------------------------------------------------
(* Each write of the store, on the type and on the queue.                  *)

LEMMA PutType ==
  ASSUME NEW st \in StoreType, NEW id \in TaskIds, NEW task \in Task,
         NEW v \in Nat \ {0}
  PROVE  /\ Put(st, id, task, v) \in StoreType
         /\ Put(st, id, task, v).terminal = st.terminal
         /\ \A i \in TaskIds : Put(st, id, task, v).entries[i] =
              IF i = id THEN [task |-> task, version |-> v] ELSE st.entries[i]
  BY DEF Put, StoreType, Entry

Exact(st) ==
  IF Limit = NoLimit
  THEN st.terminal = <<>>
  ELSE Lists(st.terminal, FinishedIn(st)) /\ Len(st.terminal) <= Limit

LEMMA ExactIsRetentionExact == Exact(store) <=> RetentionExact
  BY DEF Exact, RetentionExact, Lists, FinishedIn

(* A write that changes whether id is finished only to make it so, and     *)
(* then retires it, keeps the queue exact; one that does not, too.         *)
LEMMA WriteKeeps ==
  ASSUME NEW st \in StoreType, NEW id \in TaskIds, NEW task \in Task,
         NEW v \in Nat \ {0}, Exact(st)
  PROVE  LET put == Put(st, id, task, v)
         IN  /\ ~Finished(st, id) /\ IsTerminal(task.state) =>
                  Retire(put, id) \in StoreType /\ Exact(Retire(put, id))
             /\ (Finished(st, id) <=> IsTerminal(task.state)) =>
                  put \in StoreType /\ Exact(put)
<1>. DEFINE put == Put(st, id, task, v)
<1>1. /\ put \in StoreType
      /\ put.terminal = st.terminal
      /\ \A i \in TaskIds : put.entries[i] =
           IF i = id THEN [task |-> task, version |-> v] ELSE st.entries[i]
  BY PutType
<1>2. [task |-> task, version |-> v] # Absent
  BY AbsentAssumption DEF Entry
<1>. HIDE DEF put
<1>3. /\ Finished(put, id) <=> IsTerminal(task.state)
      /\ \A i \in TaskIds \ {id} : Finished(put, i) <=> Finished(st, i)
  BY <1>1, <1>2 DEF Finished, Stored, StateOf
<1>4. ASSUME ~Finished(st, id), IsTerminal(task.state)
      PROVE  Retire(put, id) \in StoreType /\ Exact(Retire(put, id))
  <2>1. Retire(put, id) \in StoreType
    BY <1>1, RetireType
  <2>2. CASE Limit = NoLimit
    BY <1>1, <2>2 DEF Retire, Exact
  <2>3. CASE Limit # NoLimit
    <3>1. FinishedIn(put) \ {id} = FinishedIn(st)
      BY <1>3, <1>4 DEF FinishedIn
    <3>2. Lists(put.terminal, FinishedIn(put) \ {id})
      BY <1>1, <2>3, <3>1 DEF Exact
    <3>3. Limit \in Nat
      BY <2>3, LimitAssumption
    <3>4. QED
      BY <1>1, <1>3, <1>4, <2>1, <2>3, <3>2, <3>3, RetireExact DEF Exact
  <2>4. QED
    BY <2>1, <2>2, <2>3
<1>5. ASSUME Finished(st, id) <=> IsTerminal(task.state)
      PROVE  put \in StoreType /\ Exact(put)
  <2>1. FinishedIn(put) = FinishedIn(st)
    BY <1>3, <1>5 DEF FinishedIn
  <2>2. QED
    BY <1>1, <2>1 DEF Exact
<1>6. QED
  BY <1>4, <1>5 DEF put

-----------------------------------------------------------------------------
(* The invariant: the store is well-typed and its queue exact.             *)
IInv == TypeOK /\ RetentionExact

LEMMA InitIInv == Init => IInv
<1> SUFFICES ASSUME Init PROVE IInv
  OBVIOUS
<1>1. store \in StoreType /\ store.terminal = <<>>
      /\ \A i \in TaskIds : store.entries[i] = Absent
  BY EmptySeq DEF Init, EmptyStore, StoreType
<1>2. TypeOK
  BY <1>1 DEF Init, TypeOK, StoreType, Replies
<1>3. RetentionExact
  BY <1>1, LimitAssumption DEF RetentionExact, Finished, Stored
<1>4. QED
  BY <1>2, <1>3 DEF IInv

(* What a successful call has to establish about the store it leaves.      *)
LEMMA CommitKeeps ==
  ASSUME TypeOK, NEW id \in TaskIds, NEW new, Commit(id, new),
         new \in StoreType, Exact(new)
  PROVE  IInv'
<1>1. store' = new /\ reply' = "ok" /\ now' = now + 1
  BY DEF Commit
<1>2. endedAt' \in [TaskIds -> Nat]
  BY DEF Commit, TypeOK
<1>3. TypeOK'
  BY <1>1, <1>2 DEF TypeOK, StoreType, Replies
<1>4. RetentionExact'
  BY <1>1 DEF Exact, RetentionExact, Lists, FinishedIn
<1>5. QED
  BY <1>3, <1>4 DEF IInv

LEMMA RefuseKeeps ==
  ASSUME IInv, NEW r \in Replies, Refuse(r)
  PROVE  IInv'
  BY DEF IInv, Refuse, TypeOK, RetentionExact, Finished, Stored, StateOf

LEMMA NextIInv == IInv /\ [Next]_vars => IInv'
<1> SUFFICES ASSUME IInv, [Next]_vars PROVE IInv'
  OBVIOUS
<1>1. store \in StoreType /\ Exact(store) /\ TypeOK
  BY ExactIsRetentionExact DEF IInv, TypeOK, StoreType
<1>2. ASSUME NEW i \in TaskIds, Stored(store, i)
      PROVE  /\ store.entries[i].task \in Task
             /\ store.entries[i].version + 1 \in Nat \ {0}
  BY <1>1, <1>2 DEF Stored, StoreType, Entry
<1>3. ASSUME NEW id \in TaskIds, NEW task \in Task, Create(id, task)
      PROVE  IInv'
  <2>1. CASE CanCreate(store, id) /\ Commit(id, AfterCreate(store, id, task))
    <3>1. ~Finished(store, id)
      BY <2>1 DEF CanCreate, Finished
    <3>2. AfterCreate(store, id, task) \in StoreType
          /\ Exact(AfterCreate(store, id, task))
      BY <1>1, <3>1, WriteKeeps DEF AfterCreate
    <3>3. QED
      BY <1>1, <2>1, <3>2, CommitKeeps
  <2>2. CASE ~CanCreate(store, id) /\ Refuse("exists")
    BY <2>2, RefuseKeeps DEF Replies
  <2>3. QED
    BY <1>3, <2>1, <2>2 DEF Create
<1>4. ASSUME NEW id \in TaskIds, NEW task \in Task, Update(id, task)
      PROVE  IInv'
  <2>1. CASE CanUpdate(store, id, task)
             /\ Commit(id, AfterUpdate(store, id, task))
    <3>1. store.entries[id].version + 1 \in Nat \ {0}
      BY <1>2, <2>1 DEF CanUpdate
    <3>2. AfterUpdate(store, id, task) \in StoreType
          /\ Exact(AfterUpdate(store, id, task))
      <4>1. CASE ~IsTerminal(StateOf(store, id)) /\ IsTerminal(task.state)
        <5>1. ~Finished(store, id)
          BY <4>1 DEF Finished
        <5>2. QED
          BY <1>1, <3>1, <4>1, <5>1, WriteKeeps DEF AfterUpdate
      <4>2. CASE ~(~IsTerminal(StateOf(store, id)) /\ IsTerminal(task.state))
        <5>1. Finished(store, id) <=> IsTerminal(task.state)
          BY <2>1, <4>2 DEF CanUpdate, Finished
        <5>2. QED
          BY <1>1, <3>1, <4>2, <5>1, WriteKeeps DEF AfterUpdate
      <4>3. QED
        BY <4>1, <4>2
    <3>3. QED
      BY <1>1, <2>1, <3>2, CommitKeeps
  <2>2. CASE Refuse("notFound") \/ Refuse("invalid")
    BY <2>2, RefuseKeeps DEF Replies
  <2>3. QED
    BY <1>4, <2>1, <2>2 DEF Update
<1>5. ASSUME NEW id \in TaskIds, BeginCancel(id)
      PROVE  IInv'
  <2>1. CASE CanBeginCancel(store, id)
             /\ Commit(id, AfterBeginCancel(store, id))
    <3>1. ~Finished(store, id) /\ Stored(store, id)
      BY <2>1 DEF CanBeginCancel, Finished
    <3>2. /\ CanceledTask(store, id) \in Task
          /\ IsTerminal(CanceledTask(store, id).state)
      BY <1>2, <3>1, StatesAssumption
         DEF CanceledTask, Task, IsTerminal, TerminalStates
    <3>3. AfterBeginCancel(store, id) \in StoreType
          /\ Exact(AfterBeginCancel(store, id))
      BY <1>1, <1>2, <3>1, <3>2, WriteKeeps DEF AfterBeginCancel
    <3>4. QED
      BY <1>1, <2>1, <3>3, CommitKeeps
  <2>2. CASE Refuse("notFound") \/ Refuse("notCancelable")
    BY <2>2, RefuseKeeps DEF Replies
  <2>3. QED
    BY <1>5, <2>1, <2>2 DEF BeginCancel
<1>6. CASE UNCHANGED vars
  BY <1>6 DEF IInv, vars, TypeOK, RetentionExact, Finished, Stored, StateOf
<1>7. QED
  BY <1>3, <1>4, <1>5, <1>6 DEF Next

(* The store and its history variables keep their types: what every method *)
(* of InMemoryTaskStore writes under its lock is a well-formed store.      *)
THEOREM TypeCorrect == Spec => []TypeOK
<1>1. IInv => TypeOK
  BY DEF IInv
<1>2. QED
  BY InitIInv, NextIInv, <1>1, PTL DEF Spec

(* Under every limit the retirement queue lists exactly the finished tasks *)
(* held, each once, and at most the limit of them: create, update and      *)
(* begin_cancel of InMemoryTaskStore retire a task exactly once.           *)
THEOREM RetentionIsExact == Spec => []RetentionExact
<1>1. IInv => RetentionExact
  BY DEF IInv
<1>2. QED
  BY InitIInv, NextIInv, <1>1, PTL DEF Spec

-----------------------------------------------------------------------------
(* The abstract states of the tasks of a store.                            *)
Status(st) == [i \in TaskIds |-> IF Stored(st, i) THEN StateOf(st, i) ELSE "None"]

(* The queue is in the order in which its tasks finished.                  *)
InOrderOf(q, at) ==
  \A j, k \in 1 .. Len(q) : j < k => at[q[j]] < at[q[k]]

(* What the moments at which tasks finished have to do with the queue.     *)
Timed ==
  /\ \A i \in TaskIds : ~Stored(store, i) => endedAt[i] = 0
  /\ \A i \in TaskIds : Finished(store, i) => endedAt[i] < now
  /\ Limit # NoLimit => InOrderOf(store.terminal, endedAt)

RInv == IInv /\ Timed

-----------------------------------------------------------------------------
(* What a queue says of the set it lists.                                  *)

(* The lifecycle counts as the store does.                                 *)
LEMMA SameCardinality == ASSUME NEW S PROVE Lifecycle!Cardinality(S) = Cardinality(S)
  BY DEF Lifecycle!Cardinality, Cardinality

LEMMA ListCardinality ==
  ASSUME NEW q \in Seq(TaskIds), NEW F \in SUBSET TaskIds, Lists(q, F)
  PROVE  IsFiniteSet(F) /\ Cardinality(F) = Len(q)
<1>. DEFINE f == [k \in 1 .. Len(q) |-> q[k]]
<1>1. Len(q) \in Nat /\ \A k \in 1 .. Len(q) : q[k] \in F
  <2>1. \A k \in 1 .. Len(q) : q[k] \in TaskIds
    BY ElementOfSeq
  <2>2. QED
    BY <2>1, LenProperties DEF Lists
<1>2. f \in [1 .. Len(q) -> F] /\ \A k \in 1 .. Len(q) : f[k] = q[k]
  BY <1>1
<1>. HIDE DEF f
<1>3. \A i \in F : \E k \in 1 .. Len(q) : f[k] = i
  BY <1>2 DEF Lists
<1>4. \A j, k \in 1 .. Len(q) : f[j] = f[k] => j = k
  BY <1>2 DEF Lists
<1>5. f \in Bijection(1 .. Len(q), F)
  BY <1>2, <1>3, <1>4 DEF Bijection, Injection, Surjection, IsInjective
<1>6. ExistsBijection(1 .. Len(q), F)
  BY <1>5 DEF ExistsBijection
<1>7. IsFiniteSet(1 .. Len(q)) /\ Cardinality(1 .. Len(q)) = Len(q)
  <2>1. 1 \in Int /\ Len(q) \in Int
    BY <1>1
  <2>2. Cardinality(1 .. Len(q)) = IF 1 > Len(q) THEN 0 ELSE Len(q) - 1 + 1
    BY <2>1, FS_Interval
  <2>3. QED
    BY <1>1, <2>1, <2>2, FS_Interval
<1>8. QED
  BY <1>6, <1>7, FS_Bijection

(* What retire cuts off a queue is what the lifecycle must forget.         *)
LEMMA ExcessIsPurge ==
  ASSUME Limit \in Nat, NEW q \in Seq(TaskIds), NEW st, NEW at,
         Lists(q, Lifecycle!FinishedTasks(st)), InOrderOf(q, at)
  PROVE  Lifecycle!IsPurge(Purged(q), st, at)
<1>. DEFINE F == Lifecycle!FinishedTasks(st)
            e == Excess(q)
            P == Purged(q)
<1>1. Limit # NoLimit
  BY LimitAssumption
<1>2. e \in 0 .. Len(q) /\ Len(q) \in Nat /\ P = {q[i] : i \in 1 .. e}
  BY ExcessBound, LenProperties DEF Purged
<1>3. F \in SUBSET TaskIds
  BY DEF Lifecycle!FinishedTasks
<1>4. \A k \in 1 .. Len(q) : q[k] \in F
  BY <1>2, ElementOfSeq DEF Lists
<1>5. Len(q) - e <= Limit /\ (e > 0 => Len(q) - e = Limit)
  BY <1>2 DEF Excess
<1>6. Lists(Kept(q), F \ P) /\ Kept(q) \in Seq(TaskIds) /\ Len(Kept(q)) = Len(q) - e
  BY KeptLists, KeptShape
<1>. HIDE DEF F, e, P
<1>7. P \subseteq F
  BY <1>2, <1>4
<1>8. ASSUME NEW p \in P, NEW r \in F \ P
      PROVE  at[p] < at[r]
  <2>1. PICK j \in 1 .. e : q[j] = p
    BY <1>2
  <2>2. PICK k \in 1 .. Len(q) : q[k] = r
    BY <1>3 DEF Lists, F
  <2>3. k \notin 1 .. e
    BY <1>2, <2>2
  <2>4. j \in 1 .. Len(q) /\ j < k
    BY <1>2, <2>3
  <2>5. QED
    BY <2>1, <2>2, <2>4 DEF InOrderOf
<1>9. Lifecycle!Cardinality(F \ P) = Len(q) - e
  <2>1. F \ P \in SUBSET TaskIds
    BY <1>3
  <2>2. Cardinality(F \ P) = Len(q) - e
    BY <1>6, <2>1, ListCardinality
  <2>3. QED
    BY <2>2, SameCardinality
<1>10. P # {} => e > 0
  BY <1>2
<1>11. QED
  BY <1>1, <1>5, <1>7, <1>8, <1>9, <1>10 DEF Lifecycle!IsPurge, F, P

(* Nothing need be forgotten while the queue is no longer than the limit,  *)
(* or when there is none.                                                  *)
LEMMA NothingToPurge ==
  ASSUME NEW q \in Seq(TaskIds), NEW st, NEW at,
         Limit # NoLimit => /\ Lists(q, Lifecycle!FinishedTasks(st))
                            /\ Len(q) <= Limit
  PROVE  Lifecycle!IsPurge({}, st, at)
<1>. DEFINE F == Lifecycle!FinishedTasks(st)
<1>1. ASSUME Limit # NoLimit PROVE Lifecycle!Cardinality(F \ {}) <= Limit
  <2>1. F \in SUBSET TaskIds /\ F \ {} = F
    BY DEF Lifecycle!FinishedTasks
  <2>2. Cardinality(F) <= Limit
    BY <1>1, <2>1, ListCardinality
  <2>3. QED
    BY <2>1, <2>2, SameCardinality
<1>2. QED
  BY <1>1 DEF Lifecycle!IsPurge

(* A task that finishes last goes to the end of the queue.                 *)
LEMMA AppendInOrder ==
  ASSUME NEW q \in Seq(TaskIds), NEW id \in TaskIds, NEW at, NEW new,
         InOrderOf(q, at),
         \A k \in 1 .. Len(q) : new[q[k]] = at[q[k]] /\ at[q[k]] < new[id]
  PROVE  InOrderOf(Append(q, id), new)
<1>. DEFINE r == Append(q, id)
<1>1. /\ Len(q) \in Nat /\ Len(r) = Len(q) + 1
      /\ \A k \in 1 .. Len(q) : r[k] = q[k]
      /\ r[Len(q) + 1] = id
  BY AppendProperties, LenProperties
<1>. HIDE DEF r
<1>2. ASSUME NEW j \in 1 .. Len(r), NEW k \in 1 .. Len(r), j < k
      PROVE  new[r[j]] < new[r[k]]
  <2>1. CASE k \in 1 .. Len(q)
    <3>1. j \in 1 .. Len(q)
      BY <1>1, <1>2, <2>1
    <3>2. QED
      BY <1>1, <1>2, <2>1, <3>1 DEF InOrderOf
  <2>2. CASE k = Len(q) + 1
    <3>1. j \in 1 .. Len(q)
      BY <1>1, <1>2, <2>2
    <3>2. QED
      BY <1>1, <2>2, <3>1
  <2>3. QED
    BY <1>1, <1>2, <2>1, <2>2
<1>3. QED
  BY <1>2 DEF InOrderOf, r

LEMMA KeptInOrder ==
  ASSUME Limit \in Nat, NEW q \in Seq(TaskIds), NEW at, InOrderOf(q, at)
  PROVE  InOrderOf(Kept(q), at)
<1>1. /\ Excess(q) \in 0 .. Len(q) /\ Len(q) \in Nat
      /\ Len(Kept(q)) = Len(q) - Excess(q)
      /\ \A k \in 1 .. Len(Kept(q)) : Kept(q)[k] = q[Excess(q) + k]
  BY ExcessBound, KeptShape, LenProperties
<1>2. ASSUME NEW j \in 1 .. Len(Kept(q)), NEW k \in 1 .. Len(Kept(q)), j < k
      PROVE  at[Kept(q)[j]] < at[Kept(q)[k]]
  <2>1. /\ Excess(q) + j \in 1 .. Len(q) /\ Excess(q) + k \in 1 .. Len(q)
        /\ Excess(q) + j < Excess(q) + k
    BY <1>1, <1>2
  <2>2. QED
    BY <1>1, <2>1 DEF InOrderOf
<1>3. QED
  BY <1>2 DEF InOrderOf

-----------------------------------------------------------------------------
(* A write of task to id, as the lifecycle sees it.                        *)

StatusAfter(id, task) == [Status(store) EXCEPT ![id] = task.state]

SinceAfter(id, task) ==
  [endedAt EXCEPT ![id] = IF IsTerminal(task.state) /\ ~Finished(store, id)
                          THEN now ELSE endedAt[id]]

(* What the store holds in between: the task put, nothing retired yet.     *)
LEMMA PutSeen ==
  ASSUME RInv, NEW id \in TaskIds, NEW task \in Task, NEW v \in Nat \ {0}
  PROVE  LET put == Put(store, id, task, v)
         IN  /\ Status(put) = StatusAfter(id, task)
             /\ Lifecycle!FinishedTasks(StatusAfter(id, task)) = FinishedIn(put)
             /\ \A i \in TaskIds \ {id} : /\ Stored(put, i) <=> Stored(store, i)
                                          /\ Finished(put, i) <=> Finished(store, i)
             /\ Stored(put, id) /\ (Finished(put, id) <=> IsTerminal(task.state))
<1>. DEFINE put == Put(store, id, task, v)
<1>1. /\ put.terminal = store.terminal
      /\ \A i \in TaskIds : put.entries[i] =
           IF i = id THEN [task |-> task, version |-> v] ELSE store.entries[i]
  BY PutType DEF RInv, IInv, TypeOK, StoreType
<1>2. [task |-> task, version |-> v] # Absent
  BY AbsentAssumption DEF Entry
<1>. HIDE DEF put
<1>3. /\ Stored(put, id) /\ StateOf(put, id) = task.state
      /\ \A i \in TaskIds \ {id} : /\ Stored(put, i) <=> Stored(store, i)
                                   /\ StateOf(put, i) = StateOf(store, i)
  BY <1>1, <1>2 DEF Stored, StateOf
<1>4. Status(put) = StatusAfter(id, task)
  BY <1>3 DEF Status, StatusAfter
<1>5. Lifecycle!FinishedTasks(Status(put)) = FinishedIn(put)
  <2>1. ~Lifecycle!IsTerminal("None")
    BY DEF Lifecycle!IsTerminal, Lifecycle!TerminalStates
  <2>2. ASSUME NEW i \in TaskIds
        PROVE  Lifecycle!IsTerminal(Status(put)[i]) <=> Finished(put, i)
    BY <2>1 DEF Status, Finished, IsTerminal, TerminalStates, Lifecycle!IsTerminal,
                Lifecycle!TerminalStates
  <2>3. QED
    BY <2>2 DEF Lifecycle!FinishedTasks, FinishedIn
<1>6. QED
  BY <1>3, <1>4, <1>5 DEF Finished, put

(* A call that leaves the put store without the tasks of P, which had to   *)
(* be forgotten, is a write of the lifecycle.                              *)
LEMMA WriteRefines ==
  ASSUME RInv, NEW id \in TaskIds, NEW task \in Task, NEW v \in Nat \ {0}, NEW new,
         Commit(id, new), Finished(store, id) => task.state = StateOf(store, id),
         NEW P \in SUBSET TaskIds,
         Lifecycle!IsPurge(P, StatusAfter(id, task), SinceAfter(id, task)),
         \A i \in TaskIds : new.entries[i] = IF i \in P THEN Absent
                                             ELSE Put(store, id, task, v).entries[i],
         Limit # NoLimit => /\ InOrderOf(new.terminal, SinceAfter(id, task))
                            /\ Lists(new.terminal, FinishedIn(new))
                            /\ new.terminal \in Seq(TaskIds)
  PROVE  Lifecycle!Write(id, task.state) /\ Timed'
<1>. DEFINE put == Put(store, id, task, v)
            at == SinceAfter(id, task)
<1>1. /\ Status(put) = StatusAfter(id, task)
      /\ \A i \in TaskIds \ {id} : /\ Stored(put, i) <=> Stored(store, i)
                                   /\ Finished(put, i) <=> Finished(store, i)
      /\ Stored(put, id) /\ (Finished(put, id) <=> IsTerminal(task.state))
  BY PutSeen
<1>2. /\ store' = new /\ now' = now + 1 /\ now \in Nat \ {0}
      /\ endedAt \in [TaskIds -> Nat]
  BY DEF Commit, RInv, IInv, TypeOK
<1>3. \A i \in TaskIds : new.entries[i] = IF i \in P THEN Absent ELSE put.entries[i]
  OBVIOUS
<1>. HIDE DEF put
<1>4. \A i \in TaskIds : /\ Stored(new, i) <=> i \notin P /\ Stored(put, i)
                         /\ Finished(new, i) <=> i \notin P /\ Finished(put, i)
                         /\ i \notin P => StateOf(new, i) = StateOf(put, i)
  BY <1>3 DEF Stored, Finished, StateOf
<1>5. /\ at \in [TaskIds -> Nat]
      /\ \A i \in TaskIds \ {id} : at[i] = endedAt[i]
      /\ at[id] = IF IsTerminal(task.state) /\ ~Finished(store, id) THEN now ELSE endedAt[id]
  BY <1>2 DEF SinceAfter
<1>. HIDE DEF at
<1>6. \A i \in TaskIds : endedAt'[i] = IF i \in P THEN 0 ELSE at[i]
  <2>1. ASSUME NEW i \in TaskIds
        PROVE  endedAt'[i] = IF i \in P THEN 0 ELSE at[i]
    <3>1. endedAt'[i] = CASE ~Stored(new, i)                  -> 0
                          [] i = id /\ Finished(new, id)
                                    /\ ~Finished(store, id)   -> now
                          [] OTHER                            -> endedAt[i]
      BY DEF Commit
    <3>2. CASE ~Stored(new, i)
      <4>1. i \notin P => i # id /\ ~Stored(store, i)
        BY <1>1, <1>4, <3>2
      <4>2. i \notin P => at[i] = 0
        BY <1>5, <4>1 DEF RInv, Timed
      <4>3. endedAt'[i] = 0
        BY <3>1, <3>2 DEF Finished
      <4>4. QED
        BY <4>2, <4>3
    <3>3. CASE Stored(new, i) /\ i = id
      <4>1. i \notin P /\ (Finished(new, id) <=> IsTerminal(task.state))
        BY <1>1, <1>4, <3>3
      <4>2. QED
        BY <1>5, <3>1, <3>3, <4>1
    <3>4. CASE Stored(new, i) /\ i # id
      <4>1. i \notin P /\ endedAt'[i] = endedAt[i]
        BY <1>4, <3>1, <3>4
      <4>2. QED
        BY <1>5, <3>4, <4>1
    <3>5. QED
      BY <3>2, <3>3, <3>4
  <2>2. QED
    BY <2>1
<1>7. endedAt' = [i \in TaskIds |-> IF i \in P THEN 0 ELSE at[i]]
  <2>1. endedAt' \in [TaskIds -> Nat]
    BY <1>2 DEF Commit
  <2>2. QED
    BY <1>6, <2>1
<1>8. Status(new) = [i \in TaskIds |-> IF i \in P THEN "None" ELSE StatusAfter(id, task)[i]]
  <2>1. ASSUME NEW i \in TaskIds
        PROVE  Status(new)[i] = IF i \in P THEN "None" ELSE Status(put)[i]
    BY <1>4 DEF Status
  <2>2. QED
    BY <1>1, <2>1 DEF Status
<1>9. Lifecycle!Write(id, task.state)
  <2>1. /\ Lifecycle!IsTerminal(task.state) <=> IsTerminal(task.state)
        /\ Lifecycle!IsTerminal(Status(store)[id]) <=> Finished(store, id)
        /\ Finished(store, id) => Status(store)[id] = StateOf(store, id)
    <3>1. ~Lifecycle!IsTerminal("None")
      BY DEF Lifecycle!IsTerminal, Lifecycle!TerminalStates
    <3>2. QED
      BY <3>1 DEF Status, Finished, IsTerminal, TerminalStates, Lifecycle!IsTerminal,
                  Lifecycle!TerminalStates
  <2>2. Lifecycle!IsTerminal(Status(store)[id]) => task.state = Status(store)[id]
    BY <2>1
  <2>3. at = [endedAt EXCEPT ![id] = IF /\ Lifecycle!IsTerminal(task.state)
                                        /\ ~Lifecycle!IsTerminal(Status(store)[id])
                                     THEN now ELSE endedAt[id]]
    BY <2>1 DEF at, SinceAfter
  <2>4. Status(store)' = Status(new)
    BY <1>2 DEF Status, Stored, StateOf
  <2>. DEFINE st == [Status(store) EXCEPT ![id] = task.state]
  <2>5. st = StatusAfter(id, task) /\ Lifecycle!IsPurge(P, st, at)
    BY DEF StatusAfter, at
  <2>. HIDE DEF st
  <2>6. /\ Status(store)' = [i \in TaskIds |-> IF i \in P THEN "None" ELSE st[i]]
        /\ endedAt' = [i \in TaskIds |-> IF i \in P THEN 0 ELSE at[i]]
    BY <1>7, <1>8, <2>4, <2>5
  <2>7. \E Q \in SUBSET TaskIds :
          /\ Lifecycle!IsPurge(Q, st, at)
          /\ Status(store)' = [i \in TaskIds |-> IF i \in Q THEN "None" ELSE st[i]]
          /\ endedAt' = [i \in TaskIds |-> IF i \in Q THEN 0 ELSE at[i]]
    BY <2>5, <2>6
  <2>8. QED
    BY <1>2, <2>2, <2>3, <2>7, ZenonT(40) DEF Lifecycle!Write, Status, st
<1>10. Timed'
  <2>1. ASSUME NEW i \in TaskIds, ~Stored(store, i)' PROVE endedAt'[i] = 0
    <3>1. i \notin P => i # id /\ ~Stored(store, i)
      BY <1>1, <1>2, <1>4, <2>1 DEF Stored
    <3>2. i \notin P => at[i] = 0
      BY <1>5, <3>1 DEF RInv, Timed
    <3>3. QED
      BY <1>6, <3>2
  <2>2. ASSUME NEW i \in TaskIds, Finished(store, i)' PROVE endedAt'[i] < now'
    <3>1. Finished(new, i)
      BY <1>2, <2>2 DEF Finished, Stored, StateOf
    <3>2. i \notin P /\ Finished(put, i)
      BY <1>4, <3>1
    <3>3. at[i] = now \/ (Finished(store, i) /\ at[i] = endedAt[i])
      <4>1. CASE i = id
        BY <1>1, <1>5, <3>2, <4>1
      <4>2. CASE i # id
        BY <1>1, <1>5, <3>2, <4>2
      <4>3. QED
        BY <4>1, <4>2
    <3>4. Finished(store, i) => endedAt[i] < now /\ endedAt[i] \in Nat
      BY <1>2 DEF RInv, Timed
    <3>5. QED
      BY <1>2, <1>6, <3>2, <3>3, <3>4
  <2>3. ASSUME Limit # NoLimit PROVE InOrderOf(store.terminal, endedAt)'
    <3>1. \A k \in 1 .. Len(new.terminal) : endedAt'[new.terminal[k]] = at[new.terminal[k]]
      <4>1. \A k \in 1 .. Len(new.terminal) :
              new.terminal[k] \in TaskIds /\ new.terminal[k] \in FinishedIn(new)
        BY <2>3, ElementOfSeq DEF Lists
      <4>2. QED
        BY <1>4, <1>6, <4>1 DEF FinishedIn
    <3>2. InOrderOf(new.terminal, at)
      BY <2>3 DEF at
    <3>3. QED
      BY <1>2, <3>1, <3>2 DEF InOrderOf
  <2>4. QED
    BY <2>1, <2>2, <2>3 DEF Timed
<1>11. QED
  BY <1>9, <1>10

(* A write that finishes a task retires it, one that does not purges       *)
(* nothing.                                                                *)
LEMMA CommitRefines ==
  ASSUME RInv, NEW id \in TaskIds, NEW task \in Task, NEW v \in Nat \ {0}, NEW new,
         Commit(id, new), Finished(store, id) => task.state = StateOf(store, id),
         \/ /\ ~Finished(store, id) /\ IsTerminal(task.state)
            /\ new = Retire(Put(store, id, task, v), id)
         \/ /\ Finished(store, id) <=> IsTerminal(task.state)
            /\ new = Put(store, id, task, v)
  PROVE  Lifecycle!Write(id, task.state) /\ Timed'
<1>. DEFINE put == Put(store, id, task, v)
            st == StatusAfter(id, task)
            at == SinceAfter(id, task)
            q == Append(store.terminal, id)
<1>1. /\ store \in StoreType /\ store.terminal \in Seq(TaskIds) /\ Exact(store)
      /\ now \in Nat \ {0} /\ endedAt \in [TaskIds -> Nat]
  BY ExactIsRetentionExact DEF RInv, IInv, TypeOK, StoreType
<1>2. /\ Lifecycle!FinishedTasks(st) = FinishedIn(put)
      /\ put \in StoreType /\ put.terminal = store.terminal
      /\ \A i \in TaskIds \ {id} : Finished(put, i) <=> Finished(store, i)
      /\ Finished(put, id) <=> IsTerminal(task.state)
  <2>1. store \in StoreType
    BY <1>1
  <2>2. put \in StoreType /\ put.terminal = store.terminal
    <3>1. put.terminal = store.terminal
      BY DEF Put
    <3>2. put \in StoreType
      BY <2>1, PutType
    <3>3. QED
      BY <3>1, <3>2
  <2>3. QED
    BY <2>2, PutSeen
<1>3. /\ \A i \in TaskIds \ {id} : at[i] = endedAt[i]
      /\ at[id] = IF IsTerminal(task.state) /\ ~Finished(store, id) THEN now ELSE endedAt[id]
  BY <1>1 DEF SinceAfter
<1>4. Limit # NoLimit => /\ Lists(store.terminal, FinishedIn(store))
                         /\ Len(store.terminal) <= Limit
                         /\ InOrderOf(store.terminal, endedAt)
  BY <1>1 DEF Exact, RInv, Timed
<1>5. CASE /\ ~Finished(store, id) /\ IsTerminal(task.state) /\ Limit # NoLimit
           /\ new = Retire(put, id)
  <2>1. Limit \in Nat
    BY <1>5, LimitAssumption
  <2>2. q \in Seq(TaskIds) /\ Lists(q, FinishedIn(put))
    <3>1. FinishedIn(put) = FinishedIn(store) \union {id} /\ id \notin FinishedIn(store)
      BY <1>2, <1>5 DEF FinishedIn
    <3>2. QED
      BY <1>1, <1>4, <1>5, <3>1, AppendLists
  <2>3. InOrderOf(q, at)
    <3>1. \A k \in 1 .. Len(store.terminal) :
            /\ at[store.terminal[k]] = endedAt[store.terminal[k]]
            /\ endedAt[store.terminal[k]] < at[id]
      <4>1. ASSUME NEW k \in 1 .. Len(store.terminal)
            PROVE  store.terminal[k] \in TaskIds /\ Finished(store, store.terminal[k])
        BY <1>1, <1>4, <1>5, ElementOfSeq DEF Lists, FinishedIn
      <4>2. at[id] = now
        BY <1>3, <1>5
      <4>3. ASSUME NEW i \in TaskIds, Finished(store, i)
            PROVE  at[i] = endedAt[i] /\ endedAt[i] < now
        BY <1>3, <1>5, <4>3 DEF RInv, Timed
      <4>4. QED
        BY <4>1, <4>2, <4>3
    <3>2. QED
      BY <1>1, <1>4, <1>5, <3>1, AppendInOrder
  <2>4. /\ new.terminal = Kept(q)
        /\ \A i \in TaskIds : new.entries[i] = IF i \in Purged(q) THEN Absent
                                               ELSE put.entries[i]
    BY <1>2, <1>5 DEF Retire, StoreType
  <2>5. Lifecycle!IsPurge(Purged(q), st, at)
    BY <1>2, <2>1, <2>2, <2>3, ExcessIsPurge
  <2>6. InOrderOf(new.terminal, at) /\ new.terminal \in Seq(TaskIds)
    BY <2>1, <2>2, <2>3, <2>4, KeptInOrder, KeptShape
  <2>7. Lists(new.terminal, FinishedIn(new))
    <3>1. FinishedIn(new) = FinishedIn(put) \ Purged(q)
      BY <2>4 DEF FinishedIn, Finished, Stored, StateOf
    <3>2. QED
      BY <2>1, <2>2, <2>4, <3>1, KeptLists
  <2>8. Purged(q) \in SUBSET TaskIds
    BY <2>5 DEF Lifecycle!IsPurge, Lifecycle!FinishedTasks
  <2>. HIDE DEF q
  <2>9. QED
    BY <2>4, <2>5, <2>6, <2>7, <2>8, WriteRefines
<1>6. CASE /\ new = put
           /\ Limit # NoLimit => (Finished(store, id) <=> IsTerminal(task.state))
  <2>1. Limit # NoLimit => FinishedIn(put) = FinishedIn(store)
    BY <1>2, <1>6 DEF FinishedIn
  <2>2. Limit # NoLimit => InOrderOf(store.terminal, at)
    <3>1. ASSUME Limit # NoLimit PROVE at[id] = endedAt[id]
      BY <1>3, <1>6, <3>1
    <3>2. ASSUME Limit # NoLimit, NEW k \in 1 .. Len(store.terminal)
          PROVE  at[store.terminal[k]] = endedAt[store.terminal[k]]
      <4>1. store.terminal[k] \in TaskIds
        BY <1>1, ElementOfSeq
      <4>2. QED
        BY <1>3, <3>1, <3>2, <4>1
    <3>3. QED
      BY <1>4, <3>2 DEF InOrderOf
  <2>3. Lifecycle!IsPurge({}, st, at)
    BY <1>1, <1>2, <1>4, <2>1, NothingToPurge
  <2>4. \A i \in TaskIds : new.entries[i] = IF i \in {} THEN Absent ELSE put.entries[i]
    BY <1>6
  <2>5. {} \in SUBSET TaskIds
    OBVIOUS
  <2>6. QED
    BY <1>1, <1>2, <1>4, <1>6, <2>1, <2>2, <2>3, <2>4, <2>5, WriteRefines
<1>7. QED
  BY <1>5, <1>6 DEF Retire

-----------------------------------------------------------------------------
(* Each call is a write of the lifecycle or leaves it as it is.            *)

LEMMA InitRefines == Init => Lifecycle!Init /\ Timed
<1>. SUFFICES ASSUME Init PROVE Lifecycle!Init /\ Timed
  OBVIOUS
<1>1. /\ store.terminal = <<>> /\ \A i \in TaskIds : ~Stored(store, i)
      /\ endedAt = [i \in TaskIds |-> 0] /\ now = 1
  BY DEF Init, EmptyStore, Stored
<1>2. Lifecycle!Init
  BY <1>1 DEF Lifecycle!Init
<1>3. Timed
  BY <1>1 DEF Timed, Finished, InOrderOf
<1>4. QED
  BY <1>2, <1>3

LEMMA RefuseRefines ==
  ASSUME RInv, UNCHANGED <<store, now, endedAt>>
  PROVE  UNCHANGED Lifecycle!vars /\ Timed'
  BY DEF RInv, Timed, Lifecycle!vars, Stored, Finished, StateOf, InOrderOf

LEMMA NextRefines ==
  RInv /\ [Next]_vars => [Lifecycle!Next]_(Lifecycle!vars) /\ RInv'
<1>. SUFFICES ASSUME RInv, [Next]_vars
              PROVE  [Lifecycle!Next]_(Lifecycle!vars) /\ RInv'
  OBVIOUS
<1>. DEFINE Refines == [Lifecycle!Next]_(Lifecycle!vars) /\ Timed'
<1>1. IInv'
  BY NextIInv DEF RInv
<1>2. ASSUME NEW i \in TaskIds, Stored(store, i)
      PROVE  /\ store.entries[i].task \in Task
             /\ store.entries[i].version + 1 \in Nat \ {0}
  BY <1>2 DEF RInv, IInv, TypeOK, Stored, Entry
<1>3. ASSUME NEW id \in TaskIds, NEW task \in Task, Lifecycle!Write(id, task.state), Timed'
      PROVE  Refines
  BY <1>3 DEF Lifecycle!Next, Task
<1>4. ASSUME NEW r, Refuse(r)
      PROVE  Refines
  BY <1>4, RefuseRefines DEF Refuse
<1>. HIDE DEF Refines
<1>5. ASSUME NEW id \in TaskIds, NEW task \in Task, Create(id, task)
      PROVE  Refines
  <2>1. CASE CanCreate(store, id) /\ Commit(id, AfterCreate(store, id, task))
    <3>1. ~Finished(store, id) /\ 1 \in Nat \ {0}
      BY <2>1 DEF CanCreate, Finished
    <3>2. Lifecycle!Write(id, task.state) /\ Timed'
      BY <2>1, <3>1, CommitRefines DEF AfterCreate
    <3>3. QED
      BY <1>3, <3>2
  <2>2. QED
    BY <1>4, <1>5, <2>1 DEF Create
<1>6. ASSUME NEW id \in TaskIds, NEW task \in Task, Update(id, task)
      PROVE  Refines
  <2>1. CASE CanUpdate(store, id, task) /\ Commit(id, AfterUpdate(store, id, task))
    <3>1. /\ store.entries[id].version + 1 \in Nat \ {0} /\ Stored(store, id)
          /\ Finished(store, id) => task.state = StateOf(store, id)
      BY <1>2, <2>1 DEF CanUpdate, Finished
    <3>2. Lifecycle!Write(id, task.state) /\ Timed'
      <4>1. CASE ~IsTerminal(StateOf(store, id)) /\ IsTerminal(task.state)
        <5>1. ~Finished(store, id)
          BY <4>1 DEF Finished
        <5>2. QED
          BY <2>1, <3>1, <4>1, <5>1, CommitRefines DEF AfterUpdate
      <4>2. CASE ~(~IsTerminal(StateOf(store, id)) /\ IsTerminal(task.state))
        <5>1. Finished(store, id) <=> IsTerminal(task.state)
          BY <2>1, <3>1, <4>2 DEF CanUpdate, Finished
        <5>2. QED
          BY <2>1, <3>1, <4>2, <5>1, CommitRefines DEF AfterUpdate
      <4>3. QED
        BY <4>1, <4>2
    <3>3. QED
      BY <1>3, <3>2
  <2>2. QED
    BY <1>4, <1>6, <2>1 DEF Update
<1>7. ASSUME NEW id \in TaskIds, BeginCancel(id)
      PROVE  Refines
  <2>1. CASE CanBeginCancel(store, id) /\ Commit(id, AfterBeginCancel(store, id))
    <3>1. ~Finished(store, id) /\ Stored(store, id)
      BY <2>1 DEF CanBeginCancel, Finished
    <3>2. /\ CanceledTask(store, id) \in Task
          /\ IsTerminal(CanceledTask(store, id).state)
      BY <1>2, <3>1, StatesAssumption
         DEF CanceledTask, Task, IsTerminal, TerminalStates
    <3>3. Lifecycle!Write(id, CanceledTask(store, id).state) /\ Timed'
      BY <1>2, <2>1, <3>1, <3>2, CommitRefines DEF AfterBeginCancel
    <3>4. QED
      BY <1>3, <3>2, <3>3
  <2>2. QED
    BY <1>4, <1>7, <2>1 DEF BeginCancel
<1>8. ASSUME UNCHANGED vars PROVE Refines
  BY <1>8, RefuseRefines DEF vars, Refines
<1>9. ASSUME Next PROVE Refines
  <2>1. PICK id \in TaskIds : \/ \E task \in Task : Create(id, task) \/ Update(id, task)
                              \/ BeginCancel(id)
    BY <1>9 DEF Next
  <2>2. CASE \E task \in Task : Create(id, task) \/ Update(id, task)
    BY <1>5, <1>6, <2>2
  <2>3. CASE BeginCancel(id)
    BY <1>7, <2>3
  <2>4. QED
    BY <2>1, <2>2, <2>3
<1>10. Refines
  BY <1>8, <1>9
<1>11. [Lifecycle!Next]_(Lifecycle!vars) /\ Timed'
  BY <1>10 DEF Refines
<1>12. RInv'
  BY <1>1, <1>11 DEF RInv
<1>13. QED
  BY <1>11, <1>12

(* create, update and begin_cancel implement the lifecycle: a finished     *)
(* task keeps its state, and retire forgets the tasks that finished        *)
(* longest ago, and only as many as the limit asks for.                    *)
THEOREM StoreImplementsLifecycle == Spec => ImplementsLifecycle
<1>1. Init => RInv /\ Lifecycle!Init
  BY InitIInv, InitRefines DEF RInv
<1>2. QED
  BY <1>1, NextRefines, PTL DEF Spec, ImplementsLifecycle, Lifecycle!Spec

(***************************************************************************)
(* Listings.                                                               *)
(***************************************************************************)

(* How many of the ids in S come before i.                                 *)
Offset(S, i) == Cardinality({j \in S : j < i})

Shown(w, i) == \E k \in 1 .. Len(w.shown) : w.shown[k] = i

(* A walk at work or at its end.                                           *)
Walk == [phase : {"walking", "done"}, req : Requests, token : Nat \union {NoToken},
         shown : Seq(Nat), pages : Nat,
         all : SUBSET TaskIds, joined : SUBSET TaskIds, left : SUBSET TaskIds]

(* Every page but the last is full.                                        *)
Paged(w, size) ==
  /\ Len(w.shown) <= w.pages * size
  /\ w.phase = "walking" =>
       /\ w.token \in Nat
       /\ w.token = w.pages * size /\ Len(w.shown) = w.pages * size

(* What has been listed since the first call, and all along.               *)
Remembers(w, R) == R \subseteq w.all \union w.joined /\ w.all \ w.left \subseteq R

(* What entered after the first call explains a task that comes twice.     *)
ShownOnce(w, R) ==
  \A i \in Nat : (\A j \in w.joined : ~(j < i)) =>
    /\ \A j, k \in 1 .. Len(w.shown) : w.shown[j] = i /\ w.shown[k] = i => j = k
    /\ w.phase = "walking" /\ Shown(w, i) => Offset(R, i) < w.token

(* What left explains a task that is passed over.                          *)
NoneSkipped(w, R) ==
  \A i \in w.all \ w.left : (\A j \in w.left : ~(j < i)) =>
    Shown(w, i) \/ (w.phase = "walking" /\ Offset(R, i) >= w.token)

Known(w) == \A k \in 1 .. Len(w.shown) : w.shown[k] \in w.all \union w.joined

Faithful(w, R) ==
  /\ w \in Walk /\ Paged(w, ResolvePageSize(w.req.size))
  /\ w.phase = "walking" => Remembers(w, R)
  /\ ShownOnce(w, R) /\ NoneSkipped(w, R) /\ Known(w)

Held == {i \in TaskIds : Stored(store, i)}

Walking ==
  /\ IsFiniteSet(Held)
  /\ walk = NoWalk \/ walk \in Walk
  /\ walk.phase # "idle" => Faithful(walk, Listed(store, walk.req))

-----------------------------------------------------------------------------
(* Offsets, and the sequence of the ids of a set in their order.           *)

LEMMA OffsetType ==
  ASSUME NEW S, IsFiniteSet(S), NEW i
  PROVE  Offset(S, i) \in Nat /\ Offset(S, i) <= Cardinality(S)
<1>1. {j \in S : j < i} \in SUBSET S
  OBVIOUS
<1>2. QED
  BY <1>1, FS_Subset, FS_CardinalityType DEF Offset

LEMMA OffsetMonotone ==
  ASSUME NEW S, NEW T, IsFiniteSet(T), NEW i, \A j \in S : j < i => j \in T
  PROVE  Offset(S, i) <= Offset(T, i)
<1>. DEFINE A == {j \in S : j < i}
            B == {j \in T : j < i}
<1>1. IsFiniteSet(B)
  BY FS_Subset
<1>2. A \in SUBSET B
  OBVIOUS
<1>. HIDE DEF A, B
<1>3. Cardinality(A) <= Cardinality(B)
  BY <1>1, <1>2, FS_Subset
<1>4. QED
  BY <1>3 DEF Offset, A, B

LEMMA OffsetsDiffer ==
  ASSUME NEW S \in SUBSET Nat, IsFiniteSet(S), NEW i \in S
  PROVE  /\ Offset(S, i) < Cardinality(S)
         /\ \A j \in Nat : i < j => Offset(S, i) < Offset(S, j)
<1>. DEFINE A == {j \in S : j < i}
<1>1. ASSUME NEW B \in SUBSET S, A \subseteq B, i \in B
      PROVE  Cardinality(A) < Cardinality(B)
  <2>1. IsFiniteSet(B) /\ A \in SUBSET B /\ i \notin A
    <3>1. i \in Nat /\ ~(i < i)
      OBVIOUS
    <3>2. IsFiniteSet(B)
      BY FS_Subset
    <3>3. QED
      BY <1>1, <3>1, <3>2
  <2>. HIDE DEF A
  <2>2. A # B
    BY <1>1, <2>1
  <2>3. /\ Cardinality(A) <= Cardinality(B) /\ IsFiniteSet(A)
        /\ Cardinality(A) # Cardinality(B)
    BY <2>1, <2>2, FS_Subset
  <2>4. Cardinality(A) \in Nat /\ Cardinality(B) \in Nat
    BY <2>1, <2>3, FS_CardinalityType
  <2>5. QED
    BY <2>3, <2>4
<1>2. Cardinality(A) < Cardinality(S)
  BY <1>1
<1>3. ASSUME NEW j \in Nat, i < j PROVE Cardinality(A) < Offset(S, j)
  <2>1. A \subseteq {k \in S : k < j} /\ i \in {k \in S : k < j}
    <3>1. \A k \in S : k \in Nat
      OBVIOUS
    <3>2. i \in Nat /\ \A k \in Nat : k < i => k < j
      BY <1>3
    <3>3. QED
      BY <1>3, <3>1, <3>2
  <2>2. QED
    BY <1>1, <2>1 DEF Offset
<1>4. QED
  BY <1>2, <1>3 DEF Offset

(* A finite set of ids has an enumeration in their order: each id stands   *)
(* behind those before it.                                                 *)
LEMMA SortedExists ==
  ASSUME NEW S \in SUBSET Nat, IsFiniteSet(S)
  PROVE  \E q \in [1 .. Cardinality(S) -> S] :
           \A j, k \in DOMAIN q : j < k => q[j] < q[k]
<1>. DEFINE n == Cardinality(S)
            f == [i \in S |-> Offset(S, i) + 1]
<1>1. n \in Nat
  BY FS_CardinalityType
<1>2. \A i \in S : Offset(S, i) \in Nat /\ Offset(S, i) < n
  BY OffsetType, OffsetsDiffer
<1>3. \A i, j \in S : i < j => f[i] < f[j]
  <2>1. ASSUME NEW i \in S, NEW j \in S, i < j PROVE Offset(S, i) < Offset(S, j)
    BY <2>1, OffsetsDiffer
  <2>2. QED
    BY <1>2, <2>1
<1>4. f \in [S -> 1 .. n]
  BY <1>1, <1>2
<1>. HIDE DEF f, n
<1>5. f \in Injection(S, 1 .. n)
  <2>1. ASSUME NEW i \in S, NEW j \in S, f[i] = f[j] PROVE i = j
    <3>1. i \in Nat /\ j \in Nat /\ f[i] \in Nat /\ f[j] \in Nat
      BY <1>4, <1>1
    <3>2. ~(i < j) /\ ~(j < i)
      BY <1>3, <2>1, <3>1
    <3>3. QED
      BY <3>1, <3>2
  <2>2. QED
    BY <1>4, <2>1 DEF Injection, IsInjective
<1>6. IsFiniteSet(1 .. n) /\ Cardinality(1 .. n) = n
  BY <1>1, FS_Interval
<1>7. f \in Surjection(S, 1 .. n)
  BY <1>5, <1>6, FS_Injection DEF n
<1>. DEFINE q == [k \in 1 .. n |-> CHOOSE i \in S : f[i] = k]
<1>8. \A k \in 1 .. n : q[k] \in S /\ f[q[k]] = k
  BY <1>7 DEF Surjection
<1>9. q \in [1 .. n -> S] /\ DOMAIN q = 1 .. n
  BY <1>8
<1>. HIDE DEF q
<1>10. ASSUME NEW j \in 1 .. n, NEW k \in 1 .. n, j < k PROVE q[j] < q[k]
  <2>1. q[j] \in S /\ q[k] \in S /\ j \in Nat /\ k \in Nat
    BY <1>1, <1>8
  <2>. q[j] \in Nat /\ q[k] \in Nat
    BY <2>1
  <2>2. q[j] # q[k]
    BY <1>8, <1>10, <2>1
  <2>3. ~(q[k] < q[j])
    BY <1>3, <1>8, <1>10, <2>1
  <2>4. QED
    BY <2>1, <2>2, <2>3
<1>11. QED
  BY <1>9, <1>10 DEF n

LEMMA SortedShape ==
  ASSUME NEW S \in SUBSET Nat, IsFiniteSet(S)
  PROVE  LET q == Sorted(S)
             n == Cardinality(S)
         IN  /\ q \in [1 .. n -> S] /\ q \in Seq(S) /\ Len(q) = n /\ n \in Nat
             /\ \A k \in 1 .. n : Offset(S, q[k]) = k - 1
             /\ \A i \in S : Offset(S, i) + 1 \in 1 .. n /\ q[Offset(S, i) + 1] = i
<1>. DEFINE q == Sorted(S)
            n == Cardinality(S)
<1>1. n \in Nat
  BY FS_CardinalityType
<1>2. q \in [1 .. n -> S] /\ \A j, k \in 1 .. n : j < k => q[j] < q[k]
  BY SortedExists DEF Sorted
<1>. HIDE DEF q, n
<1>3. q \in Seq(S) /\ Len(q) = n
  BY <1>1, <1>2
<1>4. \A j, k \in 1 .. n : (q[j] < q[k] <=> j < k) /\ (q[j] = q[k] => j = k)
  <2>1. ASSUME NEW j \in 1 .. n, NEW k \in 1 .. n
        PROVE  (q[j] < q[k] <=> j < k) /\ (q[j] = q[k] => j = k)
    <3>1. q[j] \in S /\ q[k] \in S /\ j \in Nat /\ k \in Nat
      BY <1>1, <1>2
    <3>. q[j] \in Nat /\ q[k] \in Nat
      BY <3>1
    <3>2. (j < k => q[j] < q[k]) /\ (k < j => q[k] < q[j])
      BY <1>2
    <3>3. QED
      BY <3>1, <3>2
  <2>2. QED
    BY <2>1
<1>5. q \in Surjection(1 .. n, S)
  <2>1. q \in Injection(1 .. n, S)
    BY <1>2, <1>4 DEF Injection, IsInjective
  <2>2. IsFiniteSet(1 .. n) /\ Cardinality(1 .. n) = n
    BY <1>1, FS_Interval
  <2>3. QED
    BY <2>1, <2>2, FS_Injection DEF n
<1>6. ASSUME NEW k \in 1 .. n PROVE Offset(S, q[k]) = k - 1
  <2>. DEFINE A == {j \in S : j < q[k]}
              g == [j \in 1 .. k - 1 |-> q[j]]
  <2>1. k - 1 \in Nat /\ \A j \in 1 .. k - 1 : j \in 1 .. n /\ j < k
    BY <1>1
  <2>2. \A j \in 1 .. k - 1 : g[j] = q[j] /\ q[j] \in A
    BY <1>2, <1>4, <2>1
  <2>3. \A i \in A : \E j \in 1 .. k - 1 : g[j] = i
    <3>1. ASSUME NEW i \in A PROVE \E j \in 1 .. k - 1 : q[j] = i
      <4>1. PICK j \in 1 .. n : q[j] = i
        BY <1>5 DEF Surjection
      <4>2. j < k
        BY <1>4, <4>1
      <4>3. QED
        BY <4>1, <4>2, <1>1
    <3>2. QED
      BY <3>1
  <2>4. \A i, j \in 1 .. k - 1 : g[i] = g[j] => i = j
    BY <1>4, <2>1
  <2>5. g \in [1 .. k - 1 -> A]
    BY <2>2
  <2>. HIDE DEF A, g
  <2>6. g \in Bijection(1 .. k - 1, A)
    BY <2>3, <2>4, <2>5 DEF Bijection, Injection, Surjection, IsInjective
  <2>7. Cardinality(A) = k - 1
    BY <2>1, <2>6, FS_CountingElements DEF ExistsBijection
  <2>8. QED
    BY <2>7 DEF A, Offset
<1>7. ASSUME NEW i \in S
      PROVE  Offset(S, i) + 1 \in 1 .. n /\ q[Offset(S, i) + 1] = i
  <2>1. PICK k \in 1 .. n : q[k] = i
    BY <1>5 DEF Surjection
  <2>2. Offset(S, i) + 1 = k
    BY <1>1, <1>6, <2>1
  <2>3. QED
    BY <2>1, <2>2
<1>8. QED
  BY <1>1, <1>2, <1>3, <1>6, <1>7 DEF q, n

-----------------------------------------------------------------------------
(* One page.                                                               *)

LEMMA MinOfTwo ==
  ASSUME NEW a \in Int, NEW b \in Int
  PROVE  Min({a, b}) = IF a <= b THEN a ELSE b
BY DEF Min

LEMMA PageSizes1 ==
  ASSUME NEW n \in Int
  PROVE  /\ ResolvePageSize(n) \in 1 .. MaxPageSize
         /\ ResolvePageSize(ResolvePageSize(n)) = ResolvePageSize(n)
BY SizeAssumption, MinOfTwo DEF ResolvePageSize

LEMMA SizeType == ASSUME NEW req \in Requests PROVE ResolvePageSize(req.size) \in Nat
<1>1. req.size \in Int
  BY SizeAssumption DEF Requests
<1>2. QED
  BY <1>1, PageSizes1, SizeAssumption

(* A page shows, each once, the ids of S whose offset lies between the     *)
(* token and the next one; without a next one, all there are behind the    *)
(* token.                                                                  *)
IsPage(page, S, token, size) ==
  LET n == Len(page.ids)
  IN  /\ page.ids \in Seq(Nat) /\ n \in Nat /\ n <= size
      /\ \A k \in 1 .. n : /\ page.ids[k] \in S
                           /\ Offset(S, page.ids[k]) \in token .. token + size - 1
      /\ \A j, k \in 1 .. n : page.ids[j] = page.ids[k] => j = k
      /\ page.next # NoToken => page.next = token + size /\ n = size
      /\ \A i \in S : /\ Offset(S, i) >= token
                      /\ page.next # NoToken => Offset(S, i) < token + size
                      => \E k \in 1 .. n : page.ids[k] = i

LEMMA PageShows ==
  ASSUME NEW st, NEW req \in Requests, NEW token \in Nat,
         IsFiniteSet(Listed(st, req))
  PROVE  IsPage(Page(st, req, token), Listed(st, req), token, ResolvePageSize(req.size))
<1>. DEFINE S    == Listed(st, req)
            size == ResolvePageSize(req.size)
            q    == Sorted(S)
            n    == Len(q)
            start == Min({token, n})
            end   == Min({start + size, n})
            page == Page(st, req, token)
<1>1. size \in 1 .. MaxPageSize /\ ResolvePageSize(size) = size /\ MaxPageSize \in Nat
  BY SizeAssumption, PageSizes1 DEF Requests
<1>2. page = [ids |-> SubSeq(q, start + 1, end),
              next |-> IF end < n THEN end ELSE NoToken]
  BY <1>1 DEF Page
<1>3. S \in SUBSET Nat /\ IsFiniteSet(S)
  BY IdAssumption DEF Listed
<1>. HIDE DEF S
<1>4. /\ q \in Seq(S) /\ n \in Nat
      /\ \A k \in 1 .. n : q[k] \in S /\ Offset(S, q[k]) = k - 1
      /\ \A i \in S : Offset(S, i) + 1 \in 1 .. n /\ q[Offset(S, i) + 1] = i
  <2>1. q \in Seq(S) /\ n \in Nat /\ n = Cardinality(S)
    BY <1>3, SortedShape
  <2>2. \A k \in 1 .. n : q[k] \in S
    BY <2>1, ElementOfSeq
  <2>3. QED
    BY <1>3, <2>1, <2>2, SortedShape
<1>. HIDE DEF q, n, size
<1>5. /\ start = IF token <= n THEN token ELSE n
      /\ end = IF start + size <= n THEN start + size ELSE n
      /\ start \in 0 .. n /\ end \in start .. n
  <2>1. start = IF token <= n THEN token ELSE n
    BY <1>4, MinOfTwo
  <2>2. start \in 0 .. n
    BY <1>4, <2>1
  <2>. HIDE DEF start
  <2>3. end = IF start + size <= n THEN start + size ELSE n
    BY <1>1, <1>4, <2>2, MinOfTwo
  <2>4. QED
    BY <1>1, <1>4, <2>1, <2>2, <2>3
<1>. HIDE DEF start, end
<1>6. /\ page.ids \in Seq(Nat) /\ Len(page.ids) = end - start
      /\ \A k \in 1 .. end - start : page.ids[k] = q[start + k]
  <2>1. \A k \in start + 1 .. end : q[k] \in Nat
    <3>1. \A k \in start + 1 .. end : k \in 1 .. n
      BY <1>4, <1>5
    <3>2. QED
      BY <1>3, <1>4, <3>1
  <2>2. start + 1 \in Int /\ end \in Int /\ end - (start + 1) + 1 = end - start
    BY <1>4, <1>5
  <2>3. \A k \in 1 .. end - start : start + 1 + k - 1 = start + k
    BY <1>4, <1>5
  <2>4. QED
    BY <1>2, <1>4, <1>5, <2>1, <2>2, <2>3, SubSeqProperties
<1>7. page.next = IF end < n THEN end ELSE NoToken
  BY <1>2
<1>. HIDE DEF page
<1>8. page.next # NoToken => page.next = token + size /\ end - start = size
  <2>1. ASSUME end < n PROVE end = token + size /\ end - start = size
    BY <1>1, <1>4, <1>5, <2>1
  <2>2. QED
    BY <1>7, <2>1
<1>9. ASSUME NEW k \in 1 .. end - start
      PROVE  /\ start + k \in 1 .. n /\ page.ids[k] \in S
             /\ Offset(S, page.ids[k]) = start + k - 1
             /\ Offset(S, page.ids[k]) \in token .. token + size - 1
  <2>1. start + k \in 1 .. n
    BY <1>4, <1>5
  <2>2. Offset(S, page.ids[k]) = start + k - 1 /\ page.ids[k] \in S
    <3>1. page.ids[k] = q[start + k]
      BY <1>6
    <3>2. PICK m \in 1 .. n : m = start + k
      BY <2>1
    <3>3. Offset(S, q[m]) = m - 1 /\ q[m] \in S
      BY <1>4
    <3>4. page.ids[k] = q[m]
      BY <3>1, <3>2
    <3>5. start \in Int /\ m \in Int /\ k \in Int
      BY <1>4, <1>5
    <3>6. QED
      BY <3>2, <3>3, <3>4, <3>5
  <2>3. start = token /\ end <= token + size
    BY <1>1, <1>4, <1>5
  <2>4. start + k - 1 \in token .. token + size - 1
    BY <1>1, <1>4, <1>5, <2>3
  <2>5. QED
    BY <2>1, <2>2, <2>4
<1>10. ASSUME NEW i \in S, Offset(S, i) >= token,
              page.next # NoToken => Offset(S, i) < token + size
       PROVE  \E k \in 1 .. end - start : page.ids[k] = i
  <2>1. Offset(S, i) + 1 \in 1 .. n /\ q[Offset(S, i) + 1] = i /\ Offset(S, i) \in Nat
    BY <1>3, <1>4, OffsetType
  <2>2. start = token /\ Offset(S, i) < end
    BY <1>1, <1>4, <1>5, <1>7, <1>10, <2>1, TokenAssumption
  <2>3. Offset(S, i) + 1 - start \in 1 .. end - start
    BY <1>5, <1>10, <2>1, <2>2
  <2>4. start + (Offset(S, i) + 1 - start) = Offset(S, i) + 1
    BY <1>4, <1>5, <2>1
  <2>5. QED
    BY <1>6, <2>1, <2>3, <2>4
<1>11. \A j, k \in 1 .. end - start : page.ids[j] = page.ids[k] => j = k
  <2>1. ASSUME NEW j \in 1 .. end - start, NEW k \in 1 .. end - start,
               page.ids[j] = page.ids[k]
        PROVE  j = k
    <3>1. start + j - 1 = start + k - 1
      BY <1>9, <2>1
    <3>2. QED
      BY <1>4, <1>5, <3>1
  <2>2. QED
    BY <2>1
<1>12. page.ids \in Seq(Nat) /\ end - start \in Nat /\ end - start <= size
  <2>1. end - start \in Nat /\ end - start <= size
    BY <1>1, <1>4, <1>5
  <2>2. QED
    BY <1>6, <2>1
<1>13. QED
  <2>1. IsPage(page, S, token, size)
    BY <1>6, <1>8, <1>9, <1>10, <1>11, <1>12 DEF IsPage
  <2>2. QED
    BY <2>1 DEF S, size, page

-----------------------------------------------------------------------------
(* What another caller's write does to the listing.                        *)

LEMMA RetireStores ==
  ASSUME NEW st, NEW id, DOMAIN st.entries = TaskIds,
         NEW i \in TaskIds, Stored(Retire(st, id), i)
  PROVE  Stored(st, i)
<1>1. CASE Limit = NoLimit
  BY <1>1 DEF Retire
<1>2. CASE Limit # NoLimit
  <2>. DEFINE purged == Purged(Append(st.terminal, id))
  <2>1. Retire(st, id).entries =
          [j \in TaskIds |-> IF j \in purged THEN Absent ELSE st.entries[j]]
    BY <1>2 DEF Retire
  <2>. HIDE DEF purged
  <2>2. QED
    BY <2>1 DEF Stored
<1>3. QED
  BY <1>1, <1>2

LEMMA PutStores ==
  ASSUME TypeOK, NEW id \in TaskIds, NEW task, NEW v
  PROVE  LET put == Put(store, id, task, v)
         IN  /\ DOMAIN put.entries = TaskIds
             /\ \A i \in TaskIds : Stored(put, i) => Stored(store, i) \/ i = id
BY DEF TypeOK, Put, Stored

LEMMA NextStores ==
  ASSUME TypeOK, Next
  PROVE  \E id \in TaskIds : \A i \in TaskIds :
           Stored(store', i) => Stored(store, i) \/ i = id
<1>1. ASSUME NEW id \in TaskIds, NEW task, NEW v,
             store' \in {Put(store, id, task, v), Retire(Put(store, id, task, v), id)}
      PROVE  \A i \in TaskIds : Stored(store', i) => Stored(store, i) \/ i = id
  BY <1>1, PutStores, RetireStores
<1>2. ASSUME NEW id \in TaskIds, NEW task \in Task, Create(id, task)
      PROVE  \A i \in TaskIds : Stored(store', i) => Stored(store, i) \/ i = id
  <2>1. store' = store \/ store' = AfterCreate(store, id, task)
    BY <1>2 DEF Create, Commit, Refuse
  <2>2. QED
    BY <1>1, <2>1 DEF AfterCreate
<1>3. ASSUME NEW id \in TaskIds, NEW task \in Task, Update(id, task)
      PROVE  \A i \in TaskIds : Stored(store', i) => Stored(store, i) \/ i = id
  <2>1. store' = store \/ store' = AfterUpdate(store, id, task)
    BY <1>3 DEF Update, Commit, Refuse
  <2>2. QED
    BY <1>1, <2>1 DEF AfterUpdate
<1>4. ASSUME NEW id \in TaskIds, BeginCancel(id)
      PROVE  \A i \in TaskIds : Stored(store', i) => Stored(store, i) \/ i = id
  <2>1. store' = store \/ store' = AfterBeginCancel(store, id)
    BY <1>4 DEF BeginCancel, Commit, Refuse
  <2>2. QED
    BY <1>1, <2>1 DEF AfterBeginCancel
<1>5. QED
  BY <1>2, <1>3, <1>4 DEF Next

LEMMA NextHeld ==
  ASSUME TypeOK, [Next]_vars, IsFiniteSet(Held)
  PROVE  IsFiniteSet(Held')
<1>1. CASE Next
  <2>1. PICK id \in TaskIds : \A i \in TaskIds :
          Stored(store', i) => Stored(store, i) \/ i = id
    BY <1>1, NextStores
  <2>2. IsFiniteSet(Held \union {id})
    BY FS_AddElement
  <2>3. Held' \subseteq Held \union {id}
    BY <2>1 DEF Held
  <2>4. QED
    BY <2>2, <2>3, FS_Subset
<1>2. CASE UNCHANGED vars
  BY <1>2 DEF vars, Held, Stored
<1>3. QED
  BY <1>1, <1>2

LEMMA ListedFinite ==
  ASSUME IsFiniteSet(Held), NEW req
  PROVE  IsFiniteSet(Listed(store, req))
<1>1. Listed(store, req) \in SUBSET Held
  BY DEF Listed, Held
<1>2. QED
  BY <1>1, FS_Subset

(* A write may lower the offset of an id only by taking a smaller one out  *)
(* of the listing, and raise it only by putting one in.                    *)
LEMMA WriteFaithful ==
  ASSUME NEW w, w.phase = "walking", NEW R \in SUBSET TaskIds, NEW T \in SUBSET TaskIds,
         IsFiniteSet(R), IsFiniteSet(T), Faithful(w, R),
         NEW v, v = [w EXCEPT !.joined = @ \union (T \ R), !.left = @ \union (R \ T)]
  PROVE  Faithful(v, T)
<1>1. /\ v.phase = w.phase /\ v.req = w.req /\ v.token = w.token /\ v.shown = w.shown
      /\ v.pages = w.pages /\ v.all = w.all
      /\ v.joined = w.joined \union (T \ R) /\ v.left = w.left \union (R \ T)
      /\ w \in Walk /\ v \in Walk
  BY DEF Faithful, Walk
<1>2. /\ Paged(w, ResolvePageSize(w.req.size)) /\ w.token \in Nat
      /\ Remembers(w, R) /\ ShownOnce(w, R) /\ NoneSkipped(w, R) /\ Known(w)
      /\ {w.all, w.joined, w.left} \subseteq SUBSET TaskIds
  BY DEF Faithful, Paged, Walk
<1>3. Paged(v, ResolvePageSize(v.req.size)) /\ Known(v)
  BY <1>1, <1>2 DEF Paged, Known
<1>4. Remembers(v, T)
  BY <1>1, <1>2 DEF Remembers
<1>5. ASSUME NEW i \in Nat, \A j \in v.joined : ~(j < i)
      PROVE  /\ \A j, k \in 1 .. Len(v.shown) : v.shown[j] = i /\ v.shown[k] = i => j = k
             /\ Shown(v, i) => Offset(T, i) < v.token
  <2>1. \A j \in T : j < i => j \in R
    BY <1>1, <1>5
  <2>2. Offset(T, i) <= Offset(R, i)
    BY <2>1, OffsetMonotone
  <2>3. Offset(T, i) \in Nat /\ Offset(R, i) \in Nat
    BY OffsetType
  <2>4. /\ \A j, k \in 1 .. Len(w.shown) : w.shown[j] = i /\ w.shown[k] = i => j = k
        /\ Shown(w, i) => Offset(R, i) < w.token
    BY <1>1, <1>2, <1>5 DEF ShownOnce
  <2>5. QED
    BY <1>1, <1>2, <2>2, <2>3, <2>4 DEF Shown
<1>6. ASSUME NEW i \in v.all \ v.left, \A j \in v.left : ~(j < i), ~Shown(v, i)
      PROVE  Offset(T, i) >= v.token
  <2>1. \A j \in R : j < i => j \in T
    BY <1>1, <1>6
  <2>2. Offset(R, i) <= Offset(T, i)
    BY <2>1, OffsetMonotone
  <2>3. Offset(T, i) \in Nat /\ Offset(R, i) \in Nat
    BY OffsetType
  <2>4. Offset(R, i) >= w.token
    BY <1>1, <1>2, <1>6 DEF NoneSkipped, Shown
  <2>5. QED
    BY <1>1, <1>2, <2>2, <2>3, <2>4
<1>7. ShownOnce(v, T) /\ NoneSkipped(v, T)
  BY <1>1, <1>5, <1>6 DEF ShownOnce, NoneSkipped
<1>8. QED
  BY <1>1, <1>3, <1>4, <1>7 DEF Faithful


(* The walk v is the walk w after one more page.                           *)
AfterPage(w, page, v) ==
  /\ v = [phase |-> v.phase, req |-> v.req, token |-> v.token, shown |-> v.shown,
          pages |-> v.pages, all |-> v.all, joined |-> v.joined, left |-> v.left]
  /\ v.phase = IF page.next = NoToken THEN "done" ELSE "walking"
  /\ v.token = page.next /\ v.shown = w.shown \o page.ids
  /\ v.pages = w.pages + 1
  /\ v.req = w.req /\ v.all = w.all /\ v.joined = w.joined /\ v.left = w.left

(* The next page takes up where the last one ended, whatever happened      *)
(* between the calls.                                                      *)
LEMMA PageFaithful ==
  ASSUME IsFiniteSet(Held), NEW w, w.phase = "walking",
         Faithful(w, Listed(store, w.req)),
         NEW v, AfterPage(w, Page(store, w.req, w.token), v)
  PROVE  Faithful(v, Listed(store, v.req))
<1>. DEFINE R    == Listed(store, w.req)
            size == ResolvePageSize(w.req.size)
            page == Page(store, w.req, w.token)
            m    == Len(w.shown)
            n    == Len(page.ids)
<1>1. /\ w \in Walk /\ w.token \in Nat /\ w.req \in Requests /\ w.pages \in Nat
      /\ w.token = w.pages * size /\ m = w.pages * size
      /\ Remembers(w, R) /\ ShownOnce(w, R) /\ NoneSkipped(w, R) /\ Known(w)
      /\ w.shown \in Seq(Nat) /\ m \in Nat /\ IsFiniteSet(R) /\ R \in SUBSET Nat
      /\ w.left \subseteq TaskIds /\ w.joined \subseteq TaskIds /\ w.all \subseteq Nat
  BY ListedFinite, LenProperties, IdAssumption DEF Faithful, Paged, Walk, Listed
<1>2. size \in Nat
  BY <1>1, SizeType
<1>3. /\ page.ids \in Seq(Nat) /\ n \in Nat /\ n <= size
      /\ \A k \in 1 .. n : /\ page.ids[k] \in R
                           /\ Offset(R, page.ids[k]) \in w.token .. w.token + size - 1
      /\ \A j, k \in 1 .. n : page.ids[j] = page.ids[k] => j = k
      /\ page.next # NoToken => page.next = w.token + size /\ n = size
      /\ \A i \in R : /\ Offset(R, i) >= w.token
                      /\ page.next # NoToken => Offset(R, i) < w.token + size
                      => \E k \in 1 .. n : page.ids[k] = i
  <2>1. w.req \in Requests /\ w.token \in Nat /\ IsFiniteSet(Listed(store, w.req))
    BY <1>1
  <2>2. IsPage(page, R, w.token, size)
    BY ONLY <2>1, PageShows
  <2>. HIDE DEF page, R, size
  <2>3. QED
    BY <2>2 DEF IsPage, n
<1>. HIDE DEF R, size, n, m, page
<1>4. /\ v.phase = IF page.next = NoToken THEN "done" ELSE "walking"
      /\ v.token = page.next /\ v.shown = w.shown \o page.ids
      /\ v.pages = w.pages + 1
      /\ v.req = w.req /\ v.all = w.all /\ v.joined = w.joined /\ v.left = w.left
  BY DEF AfterPage, page
<1>5. /\ v.shown \in Seq(Nat) /\ Len(v.shown) = m + n
      /\ \A k \in 1 .. m : v.shown[k] = w.shown[k]
      /\ \A k \in 1 .. n : v.shown[m + k] = page.ids[k]
  <2>1. w.shown \in Seq(Nat) /\ page.ids \in Seq(Nat)
    BY <1>1, <1>3
  <2>2. /\ w.shown \o page.ids \in Seq(Nat) /\ Len(w.shown \o page.ids) = m + n
        /\ \A k \in 1 .. m + n :
             (w.shown \o page.ids)[k] = IF k <= m THEN w.shown[k] ELSE page.ids[k - m]
    BY <2>1, ConcatProperties DEF m, n
  <2>3. m \in Nat /\ n \in Nat
    BY <1>1, <1>3
  <2>4. ASSUME NEW k \in 1 .. m PROVE k \in 1 .. m + n /\ k <= m
    BY <2>3
  <2>5. ASSUME NEW k \in 1 .. n
        PROVE  (w.shown \o page.ids)[m + k] = page.ids[k]
    <3>1. PICK j \in 1 .. m + n : j = m + k
      BY <2>3
    <3>2. ~(j <= m) /\ j - m = k
      BY <2>3, <3>1
    <3>3. (w.shown \o page.ids)[j] = page.ids[k]
      BY <2>2, <3>2
    <3>4. QED
      BY <3>1, <3>3
  <2>6. QED
    BY <1>4, <2>2, <2>4, <2>5
<1>6. v \in Walk
  <2>1. page.next \in Nat \union {NoToken}
    BY <1>1, <1>2, <1>3
  <2>2. v.phase \in {"walking", "done"} /\ v.pages \in Nat /\ v.shown \in Seq(Nat)
    BY <1>1, <1>4, <1>5
  <2>3. QED
    BY <1>1, <1>4, <2>1, <2>2 DEF Walk, AfterPage
<1>7. Paged(v, size)
  <2>1. (w.pages + 1) * size = w.pages * size + size /\ w.pages * size \in Nat
    BY <1>1, <1>2
  <2>2. m + n <= v.pages * size
    BY <1>1, <1>2, <1>3, <1>4, <2>1
  <2>3. v.phase = "walking" =>
          v.token \in Nat /\ v.token = v.pages * size /\ m + n = v.pages * size
    BY <1>1, <1>2, <1>3, <1>4, <2>1
  <2>4. QED
    BY <1>5, <2>2, <2>3 DEF Paged
<1>8. \A k \in 1 .. m + n : k \in 1 .. m \/ \E j \in 1 .. n : k = m + j
  <2>1. ASSUME NEW k \in 1 .. m + n, k \notin 1 .. m PROVE k - m \in 1 .. n /\ k = m + (k - m)
    BY <1>1, <1>3, <2>1
  <2>2. QED
    BY <2>1
<1>9. Known(v)
  <2>1. ASSUME NEW k \in 1 .. m + n PROVE v.shown[k] \in w.all \union w.joined
    <3>1. CASE k \in 1 .. m
      BY <1>1, <1>5, <3>1 DEF Known, m
    <3>2. CASE \E j \in 1 .. n : k = m + j
      <4>1. PICK j \in 1 .. n : k = m + j
        BY <3>2
      <4>2. v.shown[k] = page.ids[j] /\ page.ids[j] \in R
        BY <1>3, <1>5, <4>1
      <4>3. R \subseteq w.all \union w.joined
        BY <1>1 DEF Remembers
      <4>4. QED
        BY <4>2, <4>3
    <3>3. QED
      BY <1>8, <3>1, <3>2
  <2>2. QED
    BY <1>4, <1>5, <2>1 DEF Known
<1>10. ASSUME NEW i \in Nat, \A j \in w.joined : ~(j < i)
       PROVE  /\ \A j, k \in 1 .. m + n : v.shown[j] = i /\ v.shown[k] = i => j = k
              /\ v.phase = "walking" /\ Shown(v, i) => Offset(R, i) < v.token
  <2>1. /\ \A j, k \in 1 .. m : w.shown[j] = i /\ w.shown[k] = i => j = k
        /\ \A j \in 1 .. m : w.shown[j] = i => Offset(R, i) < w.token
    BY <1>1, <1>10 DEF ShownOnce, Shown, m
  <2>2. Offset(R, i) \in Nat /\ w.token \in Nat /\ size \in Nat
    BY <1>1, <1>2, OffsetType
  <2>3. ASSUME NEW k \in 1 .. n, page.ids[k] = i
        PROVE  Offset(R, i) >= w.token /\ Offset(R, i) < w.token + size
    <3>1. Offset(R, i) \in w.token .. w.token + size - 1
      BY <1>3, <2>3
    <3>2. QED
      BY <2>2, <3>1
  <2>4. ~((\E j \in 1 .. m : v.shown[j] = i) /\ (\E b \in 1 .. n : v.shown[m + b] = i))
    <3>1. (\E j \in 1 .. m : v.shown[j] = i) => Offset(R, i) < w.token
      BY <1>5, <2>1
    <3>2. (\E b \in 1 .. n : v.shown[m + b] = i) => Offset(R, i) >= w.token
      <4>1. ASSUME NEW b \in 1 .. n, v.shown[m + b] = i PROVE Offset(R, i) >= w.token
        <5>1. page.ids[b] = i
          BY <1>5, <4>1
        <5>2. QED
          BY <2>3, <5>1
      <4>2. QED
        BY <4>1
    <3>3. ~(Offset(R, i) < w.token /\ Offset(R, i) >= w.token)
      BY <2>2
    <3>4. QED
      BY ONLY <3>1, <3>2, <3>3, Zenon
  <2>5. ASSUME NEW j \in 1 .. m + n, NEW k \in 1 .. m + n, v.shown[j] = i, v.shown[k] = i
        PROVE  j = k
    <3>1. CASE j \in 1 .. m /\ k \in 1 .. m
      <4>1. w.shown[j] = i /\ w.shown[k] = i
        BY <1>5, <2>5, <3>1
      <4>2. QED
        BY <2>1, <3>1, <4>1
    <3>2. CASE (\E b \in 1 .. n : j = m + b) /\ (\E b \in 1 .. n : k = m + b)
      <4>1. PICK a \in 1 .. n, b \in 1 .. n : j = m + a /\ k = m + b
        BY <3>2
      <4>2. page.ids[a] = i /\ page.ids[b] = i
        BY <1>5, <2>5, <4>1
      <4>3. QED
        BY <1>3, <4>1, <4>2
    <3>3. QED
      BY <1>8, <2>4, <2>5, <3>1, <3>2
  <2>6. ASSUME v.phase = "walking", Shown(v, i) PROVE Offset(R, i) < v.token
    <3>1. PICK k \in 1 .. m + n : v.shown[k] = i
      BY <1>5, <2>6 DEF Shown
    <3>2. v.token = w.token + size
      BY <1>3, <1>4, <2>6
    <3>3. CASE k \in 1 .. m
      <4>1. w.shown[k] = i
        BY <1>5, <3>1, <3>3
      <4>2. QED
        BY <2>1, <2>2, <3>2, <3>3, <4>1
    <3>4. CASE \E b \in 1 .. n : k = m + b
      <4>1. PICK b \in 1 .. n : page.ids[b] = i
        BY <1>5, <3>1, <3>4
      <4>2. QED
        BY <2>3, <3>2, <4>1
    <3>5. QED
      BY <1>8, <3>3, <3>4
  <2>7. QED
    BY <2>5, <2>6
<1>11. ASSUME NEW i \in w.all \ w.left, \A j \in w.left : ~(j < i), ~Shown(v, i)
       PROVE  v.phase = "walking" /\ Offset(R, i) >= v.token
  <2>1. \A k \in 1 .. m : w.shown[k] # i
    <3>1. \A k \in 1 .. m : k \in 1 .. m + n
      BY <1>1, <1>3
    <3>2. QED
      BY <1>5, <1>11, <3>1 DEF Shown
  <2>2. \A k \in 1 .. n : page.ids[k] # i
    <3>1. \A k \in 1 .. n : m + k \in 1 .. m + n
      BY <1>1, <1>3
    <3>2. QED
      BY <1>5, <1>11, <3>1 DEF Shown
  <2>3. Offset(R, i) >= w.token
    BY <1>1, <1>11, <2>1 DEF NoneSkipped, Shown, m
  <2>4. i \in R
    BY <1>1, <1>11 DEF Remembers
  <2>5. page.next # NoToken /\ ~(Offset(R, i) < w.token + size)
    BY <1>3, <2>2, <2>3, <2>4
  <2>6. Offset(R, i) \in Nat
    BY <1>1, OffsetType
  <2>7. QED
    BY <1>1, <1>2, <1>3, <1>4, <2>5, <2>6
<1>12. ShownOnce(v, R) /\ NoneSkipped(v, R)
  <2>1. v.joined = w.joined /\ v.all = w.all /\ v.left = w.left /\ Len(v.shown) = m + n
    BY <1>4, <1>5
  <2>2. ShownOnce(v, R)
    <3>1. ASSUME NEW i \in Nat, \A j \in v.joined : ~(j < i)
          PROVE  /\ \A j, k \in 1 .. Len(v.shown) : v.shown[j] = i /\ v.shown[k] = i => j = k
                 /\ v.phase = "walking" /\ Shown(v, i) => Offset(R, i) < v.token
      <4>1. \A j \in w.joined : ~(j < i)
        BY <2>1, <3>1
      <4>2. QED
        BY <1>10, <2>1, <4>1
    <3>2. QED
      BY <3>1 DEF ShownOnce
  <2>3. NoneSkipped(v, R)
    BY <1>11, <2>1 DEF NoneSkipped
  <2>4. QED
    BY <2>2, <2>3
<1>13. v.phase = "walking" => Remembers(v, R)
  BY <1>1, <1>4 DEF Remembers
<1>14. QED
  BY <1>4, <1>6, <1>7, <1>9, <1>12, <1>13 DEF Faithful, R, size

-----------------------------------------------------------------------------
(* The walk.                                                               *)

LInv == IInv /\ Walking

LEMMA FirstPageWalks ==
  ASSUME IsFiniteSet(Held), NEW req \in Requests, FirstPage(req)
  PROVE  walk' \in Walk /\ Faithful(walk', Listed(store, walk'.req))
<1>. DEFINE R == Listed(store, req)
            w == [phase |-> "walking", req |-> req, token |-> 0, shown |-> <<>>,
                  pages |-> 0, all |-> R, joined |-> {}, left |-> {}]
<1>1. R \in SUBSET TaskIds /\ <<>> \in Seq(Nat) /\ Len(<<>>) = 0 /\ IsFiniteSet(R)
  BY ListedFinite, EmptySeq DEF Listed
<1>2. ResolvePageSize(req.size) \in Nat
  BY SizeType
<1>. HIDE DEF R
<1>3. w \in Walk
  BY <1>1 DEF Walk
<1>4. Paged(w, ResolvePageSize(req.size))
  BY <1>1, <1>2 DEF Paged
<1>5. ShownOnce(w, R) /\ Known(w) /\ Remembers(w, R)
  BY <1>1 DEF ShownOnce, Known, Remembers, Shown
<1>6. NoneSkipped(w, R)
  BY <1>1, OffsetType DEF NoneSkipped
<1>7. w.phase = "walking" /\ Faithful(w, Listed(store, w.req))
  BY <1>3, <1>4, <1>5, <1>6 DEF Faithful, R
<1>8. AfterPage(w, Page(store, w.req, w.token), walk')
  <2>. DEFINE page == Page(store, req, 0)
  <2>1. <<>> \o page.ids = page.ids
    <3>1. page.ids \in Seq(Nat)
      <4>1. IsPage(page, R, 0, ResolvePageSize(req.size))
        BY <1>1, PageShows DEF R
      <4>. HIDE DEF page
      <4>2. QED
        BY <4>1 DEF IsPage
    <3>2. QED
      BY <3>1, ConcatEmptySeq
  <2>2. walk' = [phase |-> IF page.next = NoToken THEN "done" ELSE "walking",
                 req |-> req, token |-> page.next, shown |-> page.ids,
                 pages |-> 1, all |-> R, joined |-> {}, left |-> {}]
    BY DEF FirstPage, R
  <2>. HIDE DEF page
  <2>3. AfterPage(w, page, walk')
    <3>1. /\ walk'.phase = IF page.next = NoToken THEN "done" ELSE "walking"
          /\ walk'.req = req /\ walk'.token = page.next /\ walk'.shown = page.ids
          /\ walk'.pages = 1 /\ walk'.all = R /\ walk'.joined = {} /\ walk'.left = {}
      BY <2>2
    <3>2. walk' = [phase |-> walk'.phase, req |-> walk'.req, token |-> walk'.token,
                   shown |-> walk'.shown, pages |-> walk'.pages, all |-> walk'.all,
                   joined |-> walk'.joined, left |-> walk'.left]
      BY ONLY <2>2, <3>1, Zenon
    <3>3. /\ w.req = req /\ w.shown = <<>> /\ w.pages = 0
          /\ w.all = R /\ w.joined = {} /\ w.left = {}
      OBVIOUS
    <3>. HIDE DEF w
    <3>4. walk'.shown = w.shown \o page.ids
      BY <2>1, <3>1, <3>3
    <3>5. walk'.pages = w.pages + 1
      BY <3>1, <3>3
    <3>6. QED
      BY <3>1, <3>2, <3>3, <3>4, <3>5, Zenon DEF AfterPage
  <2>4. QED
    BY <2>3 DEF page
<1>. HIDE DEF w
<1>9. QED
  BY <1>7, <1>8, PageFaithful DEF Faithful

LEMMA NextWalking ==
  ASSUME LInv, [ListNext]_listVars
  PROVE  LInv'
<1>1. /\ IInv /\ TypeOK /\ IsFiniteSet(Held)
      /\ walk = NoWalk \/ walk \in Walk
      /\ walk.phase # "idle" => Faithful(walk, Listed(store, walk.req))
  BY DEF LInv, Walking, IInv
<1>2. NoWalk.phase = "idle" /\ \A w \in Walk : w.phase # "idle"
  BY DEF NoWalk, Walk
<1>3. [Next]_vars
  BY DEF ListNext, Write, NextPage, FirstPage, listVars
<1>4. IInv' /\ IsFiniteSet(Held')
  <2>1. IInv'
    BY <1>1, <1>3, NextIInv
  <2>2. IsFiniteSet(Held')
    BY <1>1, <1>3, NextHeld
  <2>3. QED
    BY <2>1, <2>2
<1>5. CASE \E req \in Requests : FirstPage(req)
  <2>1. PICK req \in Requests : FirstPage(req)
    BY <1>5
  <2>2. walk' \in Walk /\ Faithful(walk', Listed(store, walk'.req))
    BY <1>1, <2>1, FirstPageWalks
  <2>3. store' = store
    BY <2>1 DEF FirstPage, vars
  <2>4. QED
    BY <1>4, <2>2, <2>3 DEF LInv, Walking
<1>6. CASE NextPage
  <2>1. walk.phase = "walking" /\ store' = store
    BY <1>6 DEF NextPage, vars
  <2>2. Faithful(walk', Listed(store, walk'.req))
    <3>1. AfterPage(walk, Page(store, walk.req, walk.token), walk')
      <4>. DEFINE page == Page(store, walk.req, walk.token)
      <4>1. walk' = [walk EXCEPT !.phase = IF page.next = NoToken THEN "done" ELSE @,
                                 !.token = page.next,
                                 !.shown = @ \o page.ids,
                                 !.pages = @ + 1]
        BY <1>6 DEF NextPage
      <4>. HIDE DEF page
      <4>2. AfterPage(walk, page, walk')
        BY <1>1, <1>2, <2>1, <4>1 DEF Walk, AfterPage
      <4>3. QED
        BY <4>2 DEF page
    <3>2. IsFiniteSet(Held) /\ Faithful(walk, Listed(store, walk.req))
      BY <1>1, <2>1
    <3>3. QED
      BY ONLY <2>1, <3>1, <3>2, PageFaithful
  <2>3. QED
    BY <1>4, <2>1, <2>2 DEF LInv, Walking, Faithful
<1>7. CASE Write /\ walk.phase = "walking"
  <2>. DEFINE R == Listed(store, walk.req)
              T == Listed(store', walk.req)
  <2>1. walk' = [walk EXCEPT !.joined = @ \union (T \ R), !.left = @ \union (R \ T)]
    BY <1>7 DEF Write
  <2>2. R \in SUBSET TaskIds /\ T \in SUBSET TaskIds /\ IsFiniteSet(R) /\ Faithful(walk, R)
    <3>1. R \in SUBSET TaskIds /\ T \in SUBSET TaskIds
      BY DEF Listed
    <3>2. IsFiniteSet(R)
      BY <1>1, ListedFinite
    <3>3. Faithful(walk, R)
      BY <1>1, <1>7
    <3>4. QED
      BY <3>1, <3>2, <3>3
  <2>3. IsFiniteSet(T)
    <3>1. T \in SUBSET (Held')
      BY DEF Listed, Held
    <3>2. QED
      BY <1>4, <3>1, FS_Subset
  <2>4. walk \in Walk
    BY <1>1, <1>2, <1>7
  <2>. HIDE DEF R, T
  <2>5. Faithful(walk', T) /\ walk'.req = walk.req
    BY <1>7, <2>1, <2>2, <2>3, <2>4, WriteFaithful DEF Walk
  <2>6. QED
    BY <1>4, <2>5 DEF LInv, Walking, Faithful, T
<1>8. CASE Write /\ walk.phase # "walking"
  BY <1>2, <1>4, <1>8 DEF Write, LInv, Walking
<1>9. CASE UNCHANGED listVars
  BY <1>1, <1>4, <1>9 DEF listVars, vars, LInv, Walking
<1>10. QED
  BY <1>5, <1>6, <1>7, <1>8, <1>9 DEF ListNext

LEMMA InitWalking == ListInit => LInv
<1>. SUFFICES ASSUME ListInit PROVE LInv
  OBVIOUS
<1>1. Held = {}
  BY DEF ListInit, Init, EmptyStore, Held, Stored
<1>2. QED
  BY <1>1, InitIInv, FS_EmptySet DEF ListInit, LInv, Walking, NoWalk

(* The pages of one walk list what did not move: whatever callers create,  *)
(* change, cancel and purge between two calls of list, a task listed all   *)
(* along is passed over only if one before it left, shown twice only if    *)
(* one before it entered, and every page but the last is full.             *)
THEOREM PagesAreFaithful == ListSpec => []PagesFaithful
<1>1. ASSUME LInv PROVE PagesFaithful
  <2>1. walk.phase # "idle" => walk \in Walk /\ Faithful(walk, Listed(store, walk.req))
    BY <1>1 DEF LInv, Walking, Faithful
  <2>2. ASSUME walk.phase = "done", NEW i \in TaskIds
        PROVE  LET times == Cardinality({k \in DOMAIN walk.shown : walk.shown[k] = i})
               IN  /\ i \in walk.all \ walk.left /\ times = 0
                         => \E j \in walk.left : j < i
                   /\ times > 1 => \E j \in walk.joined : j < i
                   /\ times > 0 => i \in walk.all \union walk.joined
    <3>. DEFINE K == {k \in DOMAIN walk.shown : walk.shown[k] = i}
    <3>1. /\ walk \in Walk /\ ShownOnce(walk, Listed(store, walk.req))
          /\ NoneSkipped(walk, Listed(store, walk.req)) /\ Known(walk) /\ i \in Nat
      BY <2>1, <2>2, IdAssumption DEF Faithful
    <3>2. /\ DOMAIN walk.shown = 1 .. Len(walk.shown) /\ Len(walk.shown) \in Nat
          /\ K \in SUBSET (1 .. Len(walk.shown))
      BY <3>1, LenProperties DEF Walk
    <3>3. IsFiniteSet(K)
      <4>. HIDE DEF K
      <4>1. IsFiniteSet(1 .. Len(walk.shown))
        BY <3>2, FS_Interval
      <4>2. QED
        BY <3>2, <4>1, FS_Subset
    <3>4. Cardinality(K) = 0 <=> ~Shown(walk, i)
      <4>1. K = {} <=> ~Shown(walk, i)
        BY <3>2 DEF Shown
      <4>. HIDE DEF K
      <4>2. QED
        BY <3>3, <4>1, FS_EmptySet
    <3>5. ASSUME \A j \in walk.joined : ~(j < i) PROVE ~(Cardinality(K) > 1)
      <4>1. \A j, k \in K : j = k
        BY <3>1, <3>2, <3>5 DEF ShownOnce
      <4>. HIDE DEF K
      <4>2. CASE K = {}
        BY <4>2, FS_EmptySet
      <4>3. CASE K # {}
        <5>1. PICK k \in K : K = {k}
          BY <4>1, <4>3
        <5>2. QED
          BY <5>1, FS_Singleton
      <4>4. QED
        BY <4>2, <4>3
    <3>6. Cardinality(K) \in Nat
      BY <3>3, FS_CardinalityType
    <3>7. Shown(walk, i) => i \in walk.all \union walk.joined
      BY <3>1 DEF Known, Shown
    <3>8. i \in walk.all \ walk.left /\ ~Shown(walk, i) => \E j \in walk.left : j < i
      BY <2>2, <3>1 DEF NoneSkipped
    <3>. HIDE DEF K
    <3>9. /\ i \in walk.all \ walk.left /\ Cardinality(K) = 0 => \E j \in walk.left : j < i
          /\ Cardinality(K) > 1 => \E j \in walk.joined : j < i
          /\ Cardinality(K) > 0 => i \in walk.all \union walk.joined
      BY <3>4, <3>5, <3>6, <3>7, <3>8
    <3>10. QED
      BY <3>9 DEF K
  <2>3. ASSUME walk.phase # "idle"
        PROVE  LET size == ResolvePageSize(walk.req.size)
               IN  /\ size \in 1 .. MaxPageSize
                   /\ Len(walk.shown) <= walk.pages * size
                   /\ walk.phase = "walking" => Len(walk.shown) = walk.pages * size
    <3>1. walk.req.size \in Int
      BY <2>1, <2>3, SizeAssumption DEF Walk, Requests
    <3>2. QED
      BY <2>1, <2>3, <3>1, PageSizes1 DEF Faithful, Paged
  <2>4. QED
    BY <2>2, <2>3 DEF PagesFaithful
<1>2. LInv /\ [ListNext]_listVars => LInv'
  BY NextWalking
<1>3. QED
  BY <1>1, <1>2, InitWalking, PTL DEF ListSpec

==============================================================================
