---------------------------- MODULE AccountStore ----------------------------
(***************************************************************************)
(* AccountManager (src/bot/auth/account_manager.py) and its only concurrent  *)
(* client, fetch_via_headless_auth: the registered accounts in memory, the   *)
(* asyncio.Lock around every operation, the worker thread that writes the    *)
(* encrypted file, and the file itself.                                      *)
(*                                                                           *)
(* An account is abstracted to its password, named after the call that set   *)
(* it; a slot is what _upsert, save_account and remove_account identify an   *)
(* account by: its owner (a user or Shared) with its email and domain.       *)
(***************************************************************************)
CONSTANTS
    Tasks,      \* calls of the manager
    Users,
    Shared,     \* the owner of the accounts of _accounts (user_id = 0)
    Emails,     \* (email, domain) pairs
    Domain,     \* [Emails -> domains]
    None,       \* no account in a slot
    Unknown     \* a slot for which nothing was acknowledged last

Owners == Users \cup {Shared}
Slots == Owners \X Emails
Images == [Slots -> Tasks \cup {None}]
Domains == {Domain[e] : e \in Emails}

ASSUME StoreAssumption ==
    /\ Shared \notin Users
    /\ Emails # {}
    /\ None \notin Tasks
    /\ Unknown \notin Tasks \cup {None}

VARIABLES
    memory,     \* _accounts and _user_accounts
    disk,       \* the content of storage_path
    durable,    \* what storage_path may hold after a power loss
    lock,       \* the holder of _lock, or None
    pc,
    op,         \* what each call is about: its kind, slot and password
    job,        \* the worker thread each call started
    promised,   \* history: what the last acknowledged call left in each slot
    orphaned    \* history: a worker thread has outlived its cancelled call

vars == <<memory, disk, durable, lock, pc, op, job, promised, orphaned>>

Kinds == {"none", "add", "remove", "save"}
Ops == [kind : Kinds, slot : Slots, password : Tasks \cup {None}]
Jobs == [stage : {"none", "queued", "writing", "renamed", "done", "failed"},
         image : Images]

Empty == [s \in Slots |-> None]
NoOp == [kind |-> "none", slot |-> CHOOSE s \in Slots : TRUE, password |-> None]
NoJob == [stage |-> "none", image |-> Empty]

TypeOK ==
    /\ memory \in Images /\ disk \in Images /\ durable \subseteq Images
    /\ lock \in Tasks \cup {None}
    /\ pc \in [Tasks -> {"idle", "wait", "browse", "saving", "done", "dead"}]
    /\ op \in [Tasks -> Ops]
    /\ job \in [Tasks -> Jobs]
    /\ promised \in [Slots -> Tasks \cup {None, Unknown}]
    /\ orphaned \in BOOLEAN
    /\ \A t \in Tasks : lock = t => pc[t] = "saving"

Init ==
    /\ memory = Empty /\ disk = Empty /\ durable = {Empty}
    /\ lock = None
    /\ pc = [t \in Tasks |-> "idle"]
    /\ op = [t \in Tasks |-> NoOp]
    /\ job = [t \in Tasks |-> NoJob]
    /\ promised = Empty
    /\ orphaned = FALSE

Go(t, stage) == pc' = [pc EXCEPT ![t] = stage]

\* The call is over and its locals with it.
End(t) == Go(t, "done") /\ op' = [op EXCEPT ![t] = NoOp]

file == <<disk, durable>>
history == <<promised, orphaned>>

-----------------------------------------------------------------------------
(* The calls. *)

\* add_account: for_user decides the owner, whatever the caller's object says.
CallAdd(t, s) ==
    /\ pc[t] = "idle"
    /\ op' = [op EXCEPT ![t] = [kind |-> "add", slot |-> s, password |-> t]]
    /\ Go(t, "wait")
    /\ UNCHANGED <<memory, file, lock, job, history>>

CallRemove(t, s) ==
    /\ pc[t] = "idle"
    /\ op' = [op EXCEPT ![t] = [kind |-> "remove", slot |-> s, password |-> None]]
    /\ Go(t, "wait")
    /\ UNCHANGED <<memory, file, lock, job, history>>

AnyOwner(u, d) ==
    {s \in Slots : memory[s] # None /\ Domain[s[2]] = d}

\* A personal account for the domain, else a shared one.
Candidates(u, d) ==
    LET of(owner) == {s \in Slots : s[1] = owner /\ memory[s] # None /\ Domain[s[2]] = d}
    IN IF of(u) # {} THEN of(u) ELSE of(Shared)

\* fetch_via_headless_auth: get_account_for_url under the lock, then the browser
\* works with the account object it was given.
Browse(t, u, d) ==
    /\ pc[t] = "idle"
    /\ lock = None
    /\ \E s \in Candidates(u, d) :
          op' = [op EXCEPT ![t] = [kind |-> "save", slot |-> s, password |-> memory[s]]]
    /\ Go(t, "browse")
    /\ UNCHANGED <<memory, file, lock, job, history>>

\* The page was read: save_account(account) with the new cookies.
Browsed(t) ==
    /\ pc[t] = "browse"
    /\ Go(t, "wait")
    /\ UNCHANGED <<memory, file, lock, op, job, history>>

BrowserFails(t) ==
    /\ pc[t] = "browse"
    /\ End(t)
    /\ UNCHANGED <<memory, file, lock, job, history>>

-----------------------------------------------------------------------------
(* Inside the lock. *)

\* _save_unlocked: the snapshot is taken and encrypted before the first await.
Save(t, image) ==
    /\ memory' = image
    /\ job' = [job EXCEPT ![t] = [stage |-> "queued", image |-> image]]
    /\ promised' = [promised EXCEPT ![op[t].slot] = Unknown]
    /\ UNCHANGED orphaned
    /\ lock' = t
    /\ Go(t, "saving")

Put(t) == Save(t, [memory EXCEPT ![op[t].slot] = op[t].password])

Enter(t) ==
    /\ pc[t] = "wait"
    /\ lock = None
    /\ op[t].kind = "add" \/ memory[op[t].slot] # None
    /\ Put(t)
    /\ UNCHANGED <<file, op>>

\* save_account raises "not registered", remove_account returns False.
EnterAbsent(t) ==
    /\ pc[t] = "wait"
    /\ lock = None
    /\ op[t].kind # "add" /\ memory[op[t].slot] = None
    /\ End(t)
    /\ UNCHANGED <<memory, file, lock, job, history>>

ReturnEarly(t) ==
    /\ pc[t] = "saving"
    /\ job[t].stage \in {"renamed", "done"}
    /\ promised' = [promised EXCEPT ![op[t].slot] = op[t].password]
    /\ lock' = None
    /\ job' = [job EXCEPT ![t] = NoJob]
    /\ End(t)
    /\ UNCHANGED <<memory, file, orphaned>>

\* to_thread returned: the call succeeds.
Return(t) ==
    /\ pc[t] = "saving"
    /\ job[t].stage = "done"
    /\ promised' = [promised EXCEPT ![op[t].slot] = op[t].password]
    /\ lock' = None
    /\ job' = [job EXCEPT ![t] = NoJob]
    /\ End(t)
    /\ UNCHANGED <<memory, file, orphaned>>

RaiseLocked(t) ==
    /\ pc[t] = "saving"
    /\ job[t].stage = "failed"
    /\ job' = [job EXCEPT ![t] = NoJob]
    /\ End(t)
    /\ UNCHANGED <<memory, file, lock, history>>

\* The error of the thread is raised; memory keeps the change.
Raise(t) ==
    /\ pc[t] = "saving"
    /\ job[t].stage = "failed"
    /\ lock' = None
    /\ job' = [job EXCEPT ![t] = NoJob]
    /\ End(t)
    /\ UNCHANGED <<memory, file, history>>

\* The caller's timeout: the lock is released, but a thread that started goes
\* on; one still queued in the executor is withdrawn.
Cancel(t) ==
    /\ pc[t] \in {"wait", "browse", "saving"}
    /\ lock' = IF lock = t THEN None ELSE lock
    /\ LET working == job[t].stage \in {"writing", "renamed"}
       IN /\ job' = [job EXCEPT ![t] = IF working THEN @ ELSE NoJob]
          /\ orphaned' = (orphaned \/ working)
    /\ End(t)
    /\ UNCHANGED <<memory, file, promised>>

-----------------------------------------------------------------------------
(* The worker thread: _atomic_write. *)

Work(t, from, to) ==
    /\ job[t].stage = from
    /\ job' = [job EXCEPT ![t].stage = to]
    /\ UNCHANGED <<memory, lock, pc, op, history>>

StartJob(t) == Work(t, "queued", "writing") /\ UNCHANGED file

\* Creating, writing or syncing the temporary file fails: it is removed.
WriteFails(t) == Work(t, "writing", "failed") /\ UNCHANGED file

\* os.replace of the synced temporary file.
Rename(t) ==
    /\ Work(t, "writing", "renamed")
    /\ disk' = job[t].image
    /\ durable' = durable \cup {disk'}

\* fsync of the directory makes the rename survive a power loss.
SyncDirectory(t) ==
    /\ Work(t, "renamed", "done")
    /\ durable' = {disk}
    /\ UNCHANGED disk

\* chmod or the fsync fails once the new file is in place.
SyncFails(t) == Work(t, "renamed", "failed") /\ UNCHANGED file

Thread(t) ==
    StartJob(t) \/ WriteFails(t) \/ Rename(t) \/ SyncDirectory(t) \/ SyncFails(t)

-----------------------------------------------------------------------------
\* The bot starts again, with what the file holds: _load_sync.
Restart ==
    /\ \E t \in Tasks : pc[t] \notin {"idle", "dead"}
    /\ memory' = disk'
    /\ lock' = None
    /\ pc' = [t \in Tasks |-> IF pc[t] = "idle" THEN "idle" ELSE "dead"]
    /\ op' = [t \in Tasks |-> NoOp]
    /\ job' = [t \in Tasks |-> NoJob]
    /\ UNCHANGED history

\* The process dies: the file stays as it is, its last rename perhaps not synced.
Crash == UNCHANGED file /\ Restart

\* The machine dies: renames that were not synced have reached the medium, or not.
PowerLoss == disk' \in durable /\ durable' = {disk'} /\ Restart

Call(t) ==
    \/ \E s \in Slots : CallAdd(t, s) \/ CallRemove(t, s)
    \/ \E u \in Users, d \in Domains : Browse(t, u, d)

Locked(t) == Enter(t) \/ EnterAbsent(t)
Resume(t) == Browsed(t) \/ BrowserFails(t) \/ Return(t) \/ Raise(t)

Next ==
    \/ \E t \in Tasks :
          Call(t) \/ Locked(t) \/ Resume(t) \/ Cancel(t) \/ Thread(t)
    \/ Crash \/ PowerLoss

\* asyncio.Lock wakes its waiters in turn (SF); a coroutine or a thread whose
\* wait is over runs.
Fairness ==
    \A t \in Tasks : SF_vars(Locked(t)) /\ WF_vars(Resume(t)) /\ WF_vars(Thread(t))

Spec == Init /\ [][Next]_vars
FairSpec == Spec /\ Fairness

-----------------------------------------------------------------------------
(* Properties *)

Durable ==
    \A s \in Slots : promised[s] # Unknown =>
        \A image \in durable \cup {disk} : image[s] = promised[s]

\* What a call acknowledged is on disk, and a crash of the process or of the
\* machine at any moment leaves it there, until another call for the same account
\* begins.  Writes that fail for other accounts do not disturb it, nor do
\* cancelled calls, unless one leaves its worker thread behind.
AcknowledgedIsDurable == ~orphaned => Durable

\* The browser only ever works with an account of the user it reads for, or with
\* a shared one (account_manager.py:272-278).
OwnAccountsOnly ==
    [][\A t \in Tasks, u \in Users, d \in Domains :
          Browse(t, u, d) => op'[t].slot[1] \in {u, Shared}]_vars

\* The lock is never lost: whichever way the write or the caller ends, every call
\* gets its turn and ends.
EveryCallEnds ==
    \A t \in Tasks : pc[t] # "idle" ~> pc[t] \in {"done", "dead"}

\* docs/ACCOUNT_STORAGE.md: in-process writes are serialized, so the file is what
\* the acknowledged calls made it, cancelled callers or not.
WritesAreSerialized == Durable
=============================================================================
