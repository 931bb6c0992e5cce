------------------------- MODULE AccountStoreProofs -------------------------
(***************************************************************************)
(* What holds of the account storage for any number of calls, users and      *)
(* accounts.                                                                 *)
(*                                                                           *)
(* AcknowledgedIsDurable is not inductive: a write replaces the file as a    *)
(* whole, so memory and the image a worker thread is about to write have to  *)
(* agree with the promises too (Kept), and only the holder of the lock may   *)
(* have such a thread (Locking).  All of it is lost once a cancelled call    *)
(* leaves its thread behind (the run accounts_serial shows what the file     *)
(* then holds), so it is claimed until then only.                            *)
(***************************************************************************)
EXTENDS AccountStore, TLAPS

\* A call that saves holds the lock; only its worker thread can be under way.
Locking ==
    \A t \in Tasks :
        /\ pc[t] = "saving" => lock = t
        /\ job[t].stage \in {"queued", "writing", "renamed"} => pc[t] = "saving"
        /\ pc[t] = "saving" => job[t].stage # "none"

\* How far the write of a saving call has come.
Progress ==
    \A t \in Tasks : pc[t] = "saving" =>
        /\ memory = job[t].image
        /\ job[t].image[op[t].slot] = op[t].password
        /\ promised[op[t].slot] = Unknown
        /\ job[t].stage \in {"renamed", "done"} => disk = job[t].image
        /\ job[t].stage = "done" => durable = {job[t].image}

\* Memory, the file and whatever a power loss may leave of it agree with every promise.
Kept ==
    \A s \in Slots : promised[s] # Unknown =>
        \A image \in durable \cup {memory, disk} : image[s] = promised[s]

StoreInv == TypeOK /\ (~orphaned => Locking /\ Progress /\ Kept)

\* _upsert and get_account_for_url only deal with accounts that exist.
LEMMA CandidatesExist ==
    ASSUME NEW u, NEW d, NEW s \in Candidates(u, d)
    PROVE  s \in Slots /\ memory[s] # None /\ s[1] \in {u, Shared}
  BY DEF Candidates

\* The values that stand for no account, no call and no worker thread.
LEMMA EmptyValues == Empty \in Images /\ NoJob \in Jobs /\ NoOp \in Ops
<1>1. Empty \in Images
  BY DEF Empty, Images
<1>2. NoJob \in Jobs
  BY <1>1 DEF NoJob, Jobs
<1>3. PICK e \in Emails : TRUE
  BY StoreAssumption
<1>4. <<Shared, e>> \in Slots
  BY <1>3 DEF Slots, Owners
<1>5. (CHOOSE s \in Slots : TRUE) \in Slots
  BY <1>4, Zenon
<1> QED
  BY <1>1, <1>2, <1>5 DEF NoOp, Ops, Kinds

\* The types hold at the start and every step keeps them.
LEMMA TypeInit == Init => TypeOK
<1>1. Empty \in [Slots -> Tasks \cup {None, Unknown}]
  BY DEF Empty
<1> QED
  BY <1>1, EmptyValues, StoreAssumption DEF Init, TypeOK

LEMMA TypeStep ==
    TypeOK /\ [Next]_vars => TypeOK'
<1> SUFFICES ASSUME TypeOK, [Next]_vars PROVE TypeOK'
  OBVIOUS
<1> USE StoreAssumption DEF TypeOK, Go, End, file, history
<1>a. ASSUME NEW t \in Tasks, NEW s \in Slots, CallAdd(t, s) \/ CallRemove(t, s)
      PROVE  TypeOK'
  BY <1>a DEF CallAdd, CallRemove, Ops, Kinds
<1>b. ASSUME NEW t \in Tasks, NEW u \in Users, NEW d \in Domains, Browse(t, u, d)
      PROVE  TypeOK'
  <2>1. PICK s \in Candidates(u, d) :
           op' = [op EXCEPT ![t] = [kind |-> "save", slot |-> s, password |-> memory[s]]]
    BY <1>b DEF Browse
  <2>2. s \in Slots /\ memory[s] \in Tasks \cup {None}
    BY <2>1, CandidatesExist DEF Images
  <2> QED
    BY <1>b, <2>1, <2>2 DEF Browse, Ops, Kinds
<1>c. ASSUME NEW t \in Tasks, Browsed(t) \/ BrowserFails(t) \/ EnterAbsent(t)
      PROVE  TypeOK'
  BY <1>c, EmptyValues DEF Browsed, BrowserFails, EnterAbsent
<1>d. ASSUME NEW t \in Tasks, Enter(t) PROVE TypeOK'
  <2>1. op[t].slot \in Slots /\ op[t].password \in Tasks \cup {None}
    BY DEF Ops
  <2>2. [memory EXCEPT ![op[t].slot] = op[t].password] \in Images
    BY <2>1 DEF Images
  <2>3. [stage |-> "queued", image |-> [memory EXCEPT ![op[t].slot] = op[t].password]] \in Jobs
    BY <2>2 DEF Jobs
  <2> QED
    BY <1>d, <2>1, <2>2, <2>3 DEF Enter, Put, Save
<1>f. ASSUME NEW t \in Tasks, Return(t) \/ Raise(t) PROVE TypeOK'
  <2>1. op[t].slot \in Slots /\ op[t].password \in Tasks \cup {None}
    BY DEF Ops
  <2> QED
    BY <1>f, <2>1, EmptyValues DEF Return, Raise
<1>g. ASSUME NEW t \in Tasks, Cancel(t) PROVE TypeOK'
  BY <1>g, EmptyValues DEF Cancel
<1>h. ASSUME NEW t \in Tasks, Thread(t) PROVE TypeOK'
  <2>1. job[t].image \in Images
    BY DEF Jobs
  <2>2. \A x \in {"writing", "renamed", "done", "failed"} :
           [job EXCEPT ![t].stage = x] \in [Tasks -> Jobs]
    BY DEF Jobs
  <2> QED
    BY <1>h, <2>1, <2>2
       DEF Thread, Work, StartJob, WriteFails, Rename, SyncDirectory, SyncFails
<1>i. CASE Crash \/ PowerLoss
  BY <1>i, EmptyValues DEF Crash, PowerLoss, Restart
<1>j. CASE UNCHANGED vars
  BY <1>j DEF vars
<1> QED
  BY <1>a, <1>b, <1>c, <1>d, <1>f, <1>g, <1>h, <1>i, <1>j
     DEF Next, Call, Locked, Resume

\* A thread left behind is never forgotten.
LEMMA OrphanedForGood == [Next]_vars /\ orphaned => orphaned'
  BY DEF vars, history, Next, Call, CallAdd, CallRemove, Browse, Locked, Enter, Put, Save,
         EnterAbsent, Resume, Browsed, BrowserFails, Return, Raise, Cancel,
         Thread, Work, StartJob, WriteFails, Rename, SyncDirectory, SyncFails, Crash, PowerLoss,
         Restart

\* While no thread is left behind, the lock is held as long as one may write.
LEMMA LockingStep ==
    TypeOK /\ Locking /\ [Next]_vars /\ ~orphaned' => Locking'
<1> SUFFICES ASSUME TypeOK, Locking, [Next]_vars, ~orphaned' PROVE Locking'
  OBVIOUS
<1> USE StoreAssumption DEF TypeOK, Locking, Go, End, file, history
<1>a. ASSUME NEW t \in Tasks, NEW s \in Slots, CallAdd(t, s) \/ CallRemove(t, s)
      PROVE  Locking'
  BY <1>a DEF CallAdd, CallRemove
<1>b. ASSUME NEW t \in Tasks, NEW u \in Users, NEW d \in Domains, Browse(t, u, d)
      PROVE  Locking'
  BY <1>b DEF Browse
<1>c. ASSUME NEW t \in Tasks, Browsed(t) \/ BrowserFails(t) \/ EnterAbsent(t)
      PROVE  Locking'
  BY <1>c DEF Browsed, BrowserFails, EnterAbsent
<1>d. ASSUME NEW t \in Tasks, Enter(t) PROVE Locking'
  BY <1>d DEF Enter, Put, Save
<1>f. ASSUME NEW t \in Tasks, Return(t) \/ Raise(t) PROVE Locking'
  BY <1>f DEF Return, Raise, NoJob
<1>g. ASSUME NEW t \in Tasks, Cancel(t) PROVE Locking'
  BY <1>g DEF Cancel, NoJob
<1>h. ASSUME NEW t \in Tasks, Thread(t) PROVE Locking'
  <2>1. PICK x \in {"writing", "renamed", "done", "failed"} :
           job' = [job EXCEPT ![t].stage = x]
    BY <1>h DEF Thread, Work, StartJob, WriteFails, Rename, SyncDirectory, SyncFails
  <2>2. job[t].stage \in {"queued", "writing", "renamed"} /\ UNCHANGED <<pc, lock>>
    BY <1>h DEF Thread, Work, StartJob, WriteFails, Rename, SyncDirectory, SyncFails
  <2>3. \A s \in Tasks : s # t => job'[s] = job[s]
    BY <2>1
  <2>4. job'[t].stage = x
    BY <2>1 DEF Jobs
  <2> QED
    BY <2>2, <2>3, <2>4
<1>i. CASE Crash \/ PowerLoss
  BY <1>i DEF Crash, PowerLoss, Restart, NoJob
<1>j. CASE UNCHANGED vars
  BY <1>j DEF vars
<1> QED
  BY <1>a, <1>b, <1>c, <1>d, <1>f, <1>g, <1>h, <1>i, <1>j
     DEF Next, Call, Locked, Resume

\* A saving call and its worker thread work towards one image, which nobody else
\* changes meanwhile.
LEMMA ProgressStep ==
    TypeOK /\ Locking /\ Progress /\ [Next]_vars /\ ~orphaned' => Progress'
<1> SUFFICES ASSUME TypeOK, Locking, Progress, [Next]_vars, ~orphaned' PROVE Progress'
  OBVIOUS
<1> USE StoreAssumption DEF TypeOK, Locking, Progress, Go, End, file, history
<1>a. ASSUME NEW t \in Tasks, NEW s \in Slots, CallAdd(t, s) \/ CallRemove(t, s)
      PROVE  Progress'
  BY <1>a DEF CallAdd, CallRemove
<1>b. ASSUME NEW t \in Tasks, NEW u \in Users, NEW d \in Domains, Browse(t, u, d)
      PROVE  Progress'
  BY <1>b DEF Browse
<1>c. ASSUME NEW t \in Tasks, Browsed(t) \/ BrowserFails(t) \/ EnterAbsent(t)
      PROVE  Progress'
  BY <1>c DEF Browsed, BrowserFails, EnterAbsent
<1>d. ASSUME NEW t \in Tasks, Enter(t) PROVE Progress'
  <2> DEFINE image == [memory EXCEPT ![op[t].slot] = op[t].password]
  <2>1. op[t].slot \in Slots /\ memory \in [Slots -> Tasks \cup {None}]
    BY DEF Ops, Images
  <2>2. \A s \in Tasks : pc'[s] = "saving" => s = t
    BY <1>d DEF Enter, Put, Save
  <2>3. /\ job'[t] = [stage |-> "queued", image |-> image]
        /\ memory' = image
        /\ promised' = [promised EXCEPT ![op[t].slot] = Unknown]
        /\ op' = op
    BY <1>d DEF Enter, Put, Save
  <2>4. image[op[t].slot] = op[t].password /\ promised'[op[t].slot] = Unknown
    BY <2>1, <2>3
  <2>5. job'[t].stage = "queued" /\ job'[t].image = image
    BY <2>3
  <2> HIDE DEF image
  <2> QED
    BY <2>2, <2>3, <2>4, <2>5
<1>f. ASSUME NEW t \in Tasks, Return(t) \/ Raise(t) PROVE Progress'
  BY <1>f DEF Return, Raise, NoJob
<1>g. ASSUME NEW t \in Tasks, Cancel(t) PROVE Progress'
  BY <1>g DEF Cancel, NoJob
<1>h. ASSUME NEW t \in Tasks, Thread(t) PROVE Progress'
  <2>1. PICK x \in {"writing", "renamed", "done", "failed"} :
           /\ job' = [job EXCEPT ![t].stage = x]
           /\ UNCHANGED <<memory, lock, pc, op, promised>>
           /\ x = "renamed" => disk' = job[t].image
           /\ x = "done" => job[t].stage = "renamed" /\ disk' = disk /\ durable' = {disk}
    BY <1>h DEF Thread, Work, StartJob, WriteFails, Rename, SyncDirectory, SyncFails
  <2>2. pc[t] = "saving" /\ lock = t
    BY <1>h DEF Thread, Work, StartJob, WriteFails, Rename, SyncDirectory, SyncFails
  <2>3. job'[t].stage = x /\ job'[t].image = job[t].image
    BY <2>1 DEF Jobs
  <2>4. \A s \in Tasks : pc'[s] = "saving" => s = t
    BY <2>1, <2>2
  <2> QED
    BY <2>1, <2>2, <2>3, <2>4
<1>i. CASE Crash \/ PowerLoss
  BY <1>i DEF Crash, PowerLoss, Restart
<1>j. CASE UNCHANGED vars
  BY <1>j DEF vars
<1> QED
  BY <1>a, <1>b, <1>c, <1>d, <1>f, <1>g, <1>h, <1>i, <1>j
     DEF Next, Call, Locked, Resume

\* No step of a call, a worker thread or a crash disturbs a promise.
LEMMA KeptStep ==
    TypeOK /\ Locking /\ Progress /\ Kept /\ [Next]_vars /\ ~orphaned' => Kept'
<1> SUFFICES ASSUME TypeOK, Locking, Progress, Kept, [Next]_vars, ~orphaned' PROVE Kept'
  OBVIOUS
<1> USE StoreAssumption DEF TypeOK, Locking, Progress, Kept, Go, End, file, history
<1>a. ASSUME NEW t \in Tasks, NEW s \in Slots, CallAdd(t, s) \/ CallRemove(t, s)
      PROVE  Kept'
  BY <1>a DEF CallAdd, CallRemove
<1>b. ASSUME NEW t \in Tasks, NEW u \in Users, NEW d \in Domains, Browse(t, u, d)
      PROVE  Kept'
  BY <1>b DEF Browse
<1>c. ASSUME NEW t \in Tasks, Browsed(t) \/ BrowserFails(t) \/ EnterAbsent(t)
      PROVE  Kept'
  BY <1>c DEF Browsed, BrowserFails, EnterAbsent
<1>d. ASSUME NEW t \in Tasks, Enter(t) PROVE Kept'
  \* The slot of the call is Unknown from here on; memory keeps the others.
  <2>1. op[t].slot \in Slots /\ memory \in [Slots -> Tasks \cup {None}]
    BY DEF Ops, Images
  <2>2. /\ memory' = [memory EXCEPT ![op[t].slot] = op[t].password]
        /\ promised' = [promised EXCEPT ![op[t].slot] = Unknown]
        /\ UNCHANGED <<disk, durable>>
    BY <1>d DEF Enter, Put, Save
  <2> QED
    BY <2>1, <2>2
<1>f. ASSUME NEW t \in Tasks, Return(t) PROVE Kept'
  <2>1. op[t].slot \in Slots
    BY DEF Ops
  <2>2. /\ memory = job[t].image /\ disk = job[t].image /\ durable = {job[t].image}
        /\ job[t].image[op[t].slot] = op[t].password
    BY <1>f DEF Return
  <2> QED
    BY <1>f, <2>1, <2>2 DEF Return
<1>k. ASSUME NEW t \in Tasks, Raise(t) PROVE Kept'
  BY <1>k DEF Raise
<1>g. ASSUME NEW t \in Tasks, Cancel(t) PROVE Kept'
  BY <1>g DEF Cancel, NoJob
<1>h. ASSUME NEW t \in Tasks, Thread(t) PROVE Kept'
  \* Whatever is written is memory.
  <2>1. /\ UNCHANGED <<memory, promised>>
        /\ disk' \in {disk, job[t].image}
        /\ durable' \subseteq durable \cup {disk, job[t].image}
    BY <1>h DEF Thread, Work, StartJob, WriteFails, Rename, SyncDirectory, SyncFails
  <2>2. memory = job[t].image
    BY <1>h DEF Thread, Work, StartJob, WriteFails, Rename, SyncDirectory, SyncFails
  <2> QED
    BY <2>1, <2>2
<1>i. CASE Crash \/ PowerLoss
  BY <1>i DEF Crash, PowerLoss, Restart
<1>j. CASE UNCHANGED vars
  BY <1>j DEF vars
<1> QED
  BY <1>a, <1>b, <1>c, <1>d, <1>f, <1>k, <1>g, <1>h, <1>i, <1>j
     DEF Next, Call, Locked, Resume

\* The types of the state, whatever is cancelled.
THEOREM TypeCorrect == Spec => []TypeOK
  BY TypeInit, TypeStep, PTL DEF Spec

\* A success that _save_unlocked reported outlives a crash of the process and of
\* the machine at any later moment, unless a cancelled call left a thread behind.
THEOREM AcknowledgedSurvives == Spec => []AcknowledgedIsDurable
<1>1. Init => StoreInv
  <2>1. Init => Locking /\ Progress
    BY DEF Init, Locking, Progress, NoJob
  <2>2. Init => Kept
    BY DEF Init, Kept
  <2> QED
    BY <2>1, <2>2, TypeInit DEF StoreInv
<1>2. StoreInv /\ [Next]_vars => StoreInv'
  BY TypeStep, LockingStep, ProgressStep, KeptStep, OrphanedForGood DEF StoreInv
<1>3. StoreInv => AcknowledgedIsDurable
  BY DEF StoreInv, Kept, AcknowledgedIsDurable, Durable
<1> QED
  BY <1>1, <1>2, <1>3, PTL DEF Spec

\* The browser is never given an account of somebody else, whatever calls and
\* crashes come in between: get_account_for_url.
THEOREM AccountsStayPrivate == Spec => OwnAccountsOnly
<1>1. TypeOK =>
         \A t \in Tasks, u \in Users, d \in Domains :
            Browse(t, u, d) => op'[t].slot[1] \in {u, Shared}
  BY CandidatesExist DEF TypeOK, Browse
<1> QED
  BY <1>1, TypeCorrect, PTL DEF Spec, OwnAccountsOnly
=============================================================================
