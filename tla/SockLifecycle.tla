--------------------------- MODULE SockLifecycle ---------------------------
(***************************************************************************)
(* The life cycle of class sock (tcp_engine.cpp): users of one label, in   *)
(* one process or several, construct, use and destroy a sock.  The label   *)
(* names three kernel objects: a semaphore, a shared memory and a message  *)
(* queue.  An object outlives its name, so objects are numbered in the     *)
(* order of their creation and a name is a number or NoObject.             *)
(*                                                                         *)
(* A step is a system call on a name or on a semaphore, with the local     *)
(* work around it.  A call of the socket is the sequence of what it does   *)
(* to the internal locks of the memory (its path); of each user one thread *)
(* at a time is in a call.                                                 *)
(***************************************************************************)
EXTENDS Naturals, Sequences

CONSTANTS Users,     \* sock objects of the label, each in some process
          LocksNum,  \* locks_shmem::locks_num, 4 in the code
          Paths,     \* the calls that users make
          MaxOpens   \* bound on constructions in a behaviour

ASSUME SockAssumption == LocksNum \in Nat \ {0} /\ MaxOpens \in Nat

VARIABLES sem_name, shm_name, mq_name,  \* what the label names
          sems,      \* value of every semaphore created so far
          mems,      \* shm_state and internal locks of every shared memory
          mqs,       \* number of queues created
          pc,        \* where each user is
          lock, mem, mq, \* members of sock; mq is NoObject for a null pointer
          next,      \* the internal lock ~sock takes next
          has,       \* the internal locks a call has taken and not released
          todo,      \* what is left of its path
          kept,      \* history: those it has had since its last accquire_shmem
          opens,     \* constructions so far
          overlap,   \* a construction and a destruction have run at once
          second     \* a memory has been closed a second time

names == <<sem_name, shm_name, mq_name>>
objects == <<sems, mems, mqs>>
call == <<has, todo, kept>>
members == <<lock, mem, mq, next>>
history == <<opens, overlap, second>>
vars == <<names, objects, pc, members, call, history>>

NoObject == 0
InternalLocks == 1..LocksNum

Constructing == {"lock", "open", "check", "init", "queue"}
Destroying == {"closing", "locking", "unlink", "unlink_shm", "mark", "unlink_mq"}
Broken == {"threw", "crashed"}

(* What a call does in a step: lock and unlock of an internal lock, the    *)
(* test of accquire_shmem, and next_msg, which goes through mq.            *)
Lock(i) == <<"lock", i>>
Unlock(i) == <<"unlock", i>>
Test == <<"accquire_shmem", 0>>
NextMsg == <<"next_msg", 0>>

send_lock == 1
recv_lock == 2
recv_worker_lock == 3
send_worker_lock == 4

\* handshake(false), where the connection is closed
HandshakeSend ==
    <<Lock(send_lock), Lock(send_worker_lock), Test, NextMsg,
      Unlock(send_worker_lock), Unlock(send_lock)>>

\* handshake(true), likewise
HandshakeRecv ==
    <<Lock(recv_lock), Lock(recv_worker_lock), Test, NextMsg,
      Unlock(recv_worker_lock), Unlock(recv_lock)>>

\* client_flush_request of recv(): mem_ctl::call lets go of the lock for the
\* wait and takes it again without a test
RecvProc ==
    <<Lock(recv_lock), Test, Unlock(recv_lock), Lock(recv_lock), Unlock(recv_lock)>>

\* A turn of the receive worker with a segment that fills the window:
\* on_msg calls out twice, here once
OnRegularMsg ==
    <<NextMsg, Lock(recv_worker_lock), Test, Lock(recv_lock), Test,
      Unlock(recv_lock), Lock(recv_lock), Unlock(recv_lock), Unlock(recv_worker_lock)>>

\* A turn of the send worker: output_send_finally sends with the lock
\* released; what follows tests again
SendWorker ==
    <<Lock(send_worker_lock), Test, Unlock(send_worker_lock),
      Lock(send_worker_lock), Test, Unlock(send_worker_lock)>>

\* The memory a user maps
Mem(u) == mems[mem[u]]

Init ==
    /\ sem_name = NoObject /\ shm_name = NoObject /\ mq_name = NoObject
    /\ sems = <<>> /\ mems = <<>> /\ mqs = 0
    /\ pc = [u \in Users |-> "none"]
    /\ lock = [u \in Users |-> NoObject]
    /\ mem = [u \in Users |-> NoObject]
    /\ mq = [u \in Users |-> NoObject]
    /\ next = [u \in Users |-> 0]
    /\ has = [u \in Users |-> {}]
    /\ todo = [u \in Users |-> <<>>]
    /\ kept = [u \in Users |-> {}]
    /\ opens = 0 /\ overlap = FALSE /\ second = FALSE

Goto(u, l) == pc' = [pc EXCEPT ![u] = l]

SemPost(s) == sems' = [sems EXCEPT ![s] = @ + 1]

----------------------------------------------------------------------------
(* The constructor.                                                        *)

(* Mutant: sem_open creates the semaphore with the value 2. *)
create_lock_Two(u) ==
    /\ pc[u] = "none" /\ opens < MaxOpens
    /\ opens' = opens + 1
    /\ overlap' = (overlap \/ \E v \in Users : pc[v] \in Destroying)
    /\ IF sem_name = NoObject
       THEN sems' = Append(sems, 2) /\ sem_name' = Len(sems) + 1
       ELSE UNCHANGED <<sems, sem_name>>
    /\ lock' = [lock EXCEPT ![u] = sem_name']
    /\ Goto(u, "lock")
    /\ UNCHANGED <<shm_name, mq_name, mems, mqs, mem, mq, next, call, second>>

(* Mutant: the constructor unlinks an old semaphore before it opens one. *)
create_lock_Fresh(u) ==
    /\ pc[u] = "none" /\ opens < MaxOpens
    /\ opens' = opens + 1
    /\ overlap' = (overlap \/ \E v \in Users : pc[v] \in Destroying)
    /\ sems' = Append(sems, 1) /\ sem_name' = Len(sems) + 1
    /\ lock' = [lock EXCEPT ![u] = sem_name']
    /\ Goto(u, "lock")
    /\ UNCHANGED <<shm_name, mq_name, mems, mqs, mem, mq, next, call, second>>

\* sock::sock and __create_lock: sem_open(label, O_CREAT, value 1)
create_lock(u) ==
    /\ pc[u] = "none" /\ opens < MaxOpens
    /\ opens' = opens + 1
    /\ overlap' = (overlap \/ \E v \in Users : pc[v] \in Destroying)
    /\ IF sem_name = NoObject
       THEN sems' = Append(sems, 1) /\ sem_name' = Len(sems) + 1
       ELSE UNCHANGED <<sems, sem_name>>
    /\ lock' = [lock EXCEPT ![u] = sem_name']
    /\ Goto(u, "lock")
    /\ UNCHANGED <<shm_name, mq_name, mems, mqs, mem, mq, next, call, second>>

\* __lock: sem_wait on the semaphore the sock has opened, which a reopen
\* does not look up again
sock_lock(u) ==
    /\ pc[u] \in {"lock", "closing"}
    /\ sems[lock[u]] > 0
    /\ sems' = [sems EXCEPT ![lock[u]] = @ - 1]
    /\ next' = [next EXCEPT ![u] = IF pc[u] = "lock" THEN 0 ELSE 1]
    /\ Goto(u, IF pc[u] = "lock" THEN "open" ELSE "locking")
    /\ UNCHANGED <<names, mems, mqs, lock, mem, mq, call, history>>

\* shm_open(label, O_CREAT), ftruncate, mmap: a new memory is all zeroes,
\* and its locks cannot be taken
shm_open(u) ==
    /\ pc[u] = "open"
    /\ IF shm_name = NoObject
       THEN /\ mems' = Append(mems, [state |-> "UNITILIZATED",
                                     locks |-> [i \in InternalLocks |-> 0]])
            /\ shm_name' = Len(mems) + 1
       ELSE UNCHANGED <<mems, shm_name>>
    /\ mem' = [mem EXCEPT ![u] = shm_name']
    /\ Goto(u, "check")
    /\ UNCHANGED <<sem_name, mq_name, sems, mqs, lock, mq, next, call, history>>

\* A closed memory: munmap, __unlock, goto reopen
reopen_unlinked(u) ==
    /\ pc[u] = "check" /\ Mem(u).state = "UNLINKED"
    /\ mem' = [mem EXCEPT ![u] = NoObject]
    /\ SemPost(lock[u])
    /\ Goto(u, "lock")
    /\ UNCHANGED <<names, mems, mqs, lock, mq, next, call, history>>

reopen_init(u) ==
    /\ pc[u] = "check" /\ Mem(u).state = "UNITILIZATED"
    /\ Goto(u, "init")
    /\ UNCHANGED <<names, objects, members, call, history>>

(* Mutant: the way through __load_shmem returns without __unlock. *)
load_shmem_KeepsLock(u) ==
    /\ pc[u] = "check" /\ Mem(u).state = "OK"
    /\ Goto(u, "user")
    /\ UNCHANGED <<names, objects, members, call, history>>

\* __load_shmem binds the locks and opens no queue
load_shmem(u) ==
    /\ pc[u] = "check" /\ Mem(u).state = "OK"
    /\ SemPost(lock[u])
    /\ Goto(u, "user")
    /\ UNCHANGED <<names, mems, mqs, members, call, history>>

\* __init_shmem: initializer.init gives every lock its value 1
init_shmem(u) ==
    /\ pc[u] = "init"
    /\ mems' = [mems EXCEPT ![mem[u]] =
                  [state |-> "OK", locks |-> [i \in InternalLocks |-> 1]]]
    /\ Goto(u, "queue")
    /\ UNCHANGED <<names, sems, mqs, members, call, history>>

\* new sock_mq(mq_param) with create = true, then __unlock
create_mq(u) ==
    /\ pc[u] = "queue"
    /\ IF mq_name = NoObject
       THEN mqs' = mqs + 1 /\ mq_name' = mqs + 1
       ELSE UNCHANGED <<mqs, mq_name>>
    /\ mq' = [mq EXCEPT ![u] = mq_name']
    /\ SemPost(lock[u])
    /\ Goto(u, "user")
    /\ UNCHANGED <<sem_name, shm_name, mems, lock, mem, next, call, history>>

----------------------------------------------------------------------------
(* Calls of send() and recv() and the worker threads.                      *)

call_begin(u, p) ==
    /\ pc[u] = "user"
    /\ todo' = [todo EXCEPT ![u] = p]
    /\ Goto(u, "call")
    /\ UNCHANGED <<names, objects, members, has, kept, history>>

At(u, op) == pc[u] = "call" /\ todo[u] # <<>> /\ Head(todo[u]) = op

Done(u) == todo' = [todo EXCEPT ![u] = Tail(@)]

\* external_lock_wrapper::lock, of mem_get, of mem_ctl::call or alone
region_lock(u, i) ==
    /\ At(u, Lock(i)) /\ Mem(u).locks[i] > 0
    /\ mems' = [mems EXCEPT ![mem[u]].locks[i] = @ - 1]
    /\ has' = [has EXCEPT ![u] = @ \cup {i}]
    /\ Done(u)
    /\ UNCHANGED <<names, sems, mqs, pc, members, kept, history>>

\* accquire_shmem finds the memory open
acquire_shmem(u) ==
    /\ At(u, Test) /\ Mem(u).state # "UNLINKED"
    /\ kept' = [kept EXCEPT ![u] = has[u]]
    /\ Done(u)
    /\ UNCHANGED <<names, objects, pc, members, has, history>>

\* accquire_shmem throws out of mem_get and leaves the locks of the call
\* taken; thrown in a worker thread, it ends the process
acquire_closed(u) ==
    /\ At(u, Test) /\ Mem(u).state = "UNLINKED"
    /\ \E l \in Broken : Goto(u, l)
    /\ kept' = [kept EXCEPT ![u] = {}]
    /\ UNCHANGED <<names, objects, members, has, todo, history>>

\* external_lock_wrapper::unlock, of mem_put, of mem_ctl::call or alone
region_unlock(u, i) ==
    /\ At(u, Unlock(i)) /\ i \in has[u]
    /\ mems' = [mems EXCEPT ![mem[u]].locks[i] = @ + 1]
    /\ has' = [has EXCEPT ![u] = @ \ {i}]
    /\ kept' = [kept EXCEPT ![u] = @ \ {i}]
    /\ Done(u)
    /\ UNCHANGED <<names, sems, mqs, pc, members, history>>

next_msg(u) ==
    /\ At(u, NextMsg) /\ mq[u] # NoObject
    /\ Done(u)
    /\ UNCHANGED <<names, objects, pc, members, has, kept, history>>

\* get_mq dereferences a null pointer, which ends the process
next_msg_null(u) ==
    /\ At(u, NextMsg) /\ mq[u] = NoObject
    /\ kept' = [kept EXCEPT ![u] = {}]
    /\ Goto(u, "crashed")
    /\ UNCHANGED <<names, objects, members, has, todo, history>>

call_return(u) ==
    /\ pc[u] = "call" /\ todo[u] = <<>> /\ has[u] = {}
    /\ Goto(u, "user")
    /\ UNCHANGED <<names, objects, members, call, history>>

----------------------------------------------------------------------------
(* The destructor; sock_lock above is its first step.                      *)

destroy(u) ==
    /\ pc[u] \in {"user", "threw"}
    /\ overlap' = (overlap \/ \E v \in Users : pc[v] \in Constructing)
    /\ Goto(u, "closing")
    /\ UNCHANGED <<names, objects, members, call, opens, second>>

(* Mutant: the loop of ~sock leaves out the last lock. *)
lock_internal_OneLess(u) ==
    /\ pc[u] = "locking" /\ Mem(u).locks[next[u]] > 0
    /\ mems' = [mems EXCEPT ![mem[u]].locks[next[u]] = @ - 1]
    /\ IF next[u] >= LocksNum - 1
       THEN Goto(u, "unlink") /\ UNCHANGED next
       ELSE next' = [next EXCEPT ![u] = @ + 1] /\ UNCHANGED pc
    /\ UNCHANGED <<names, sems, mqs, lock, mem, mq, call, history>>

\* external_lock_wrapper(&locks[i]).lock(), one lock after the other
lock_internal(u) ==
    /\ pc[u] = "locking" /\ Mem(u).locks[next[u]] > 0
    /\ mems' = [mems EXCEPT ![mem[u]].locks[next[u]] = @ - 1]
    /\ IF next[u] = LocksNum
       THEN Goto(u, "unlink") /\ UNCHANGED next
       ELSE next' = [next EXCEPT ![u] = @ + 1] /\ UNCHANGED pc
    /\ UNCHANGED <<names, sems, mqs, lock, mem, mq, call, history>>

\* sem_unlink(label): whatever semaphore the label names by now
sem_unlink(u) ==
    /\ pc[u] = "unlink"
    /\ sem_name' = NoObject
    /\ second' = (second \/ Mem(u).state = "UNLINKED")
    /\ Goto(u, "unlink_shm")
    /\ UNCHANGED <<shm_name, mq_name, objects, members, call, opens, overlap>>

(* Mutant: ~sock forgets shm_unlink. *)
shm_unlink_Not(u) ==
    /\ pc[u] = "unlink_shm"
    /\ Goto(u, "mark")
    /\ UNCHANGED <<names, objects, members, call, history>>

shm_unlink(u) ==
    /\ pc[u] = "unlink_shm"
    /\ shm_name' = NoObject
    /\ Goto(u, "mark")
    /\ UNCHANGED <<sem_name, mq_name, objects, members, call, history>>

\* shm_state = UNLINKED, the internal locks released, munmap, __unlock; the
\* member mq is destroyed after the body of ~sock, that is without the lock
mark_unlinked(u) ==
    /\ pc[u] = "mark"
    /\ mems' = [mems EXCEPT ![mem[u]] =
                  [state |-> "UNLINKED",
                   locks |-> [i \in InternalLocks |-> @.locks[i] + 1]]]
    /\ SemPost(lock[u])
    /\ lock' = [lock EXCEPT ![u] = NoObject]
    /\ mem' = [mem EXCEPT ![u] = NoObject]
    /\ next' = [next EXCEPT ![u] = 0]
    /\ has' = [has EXCEPT ![u] = {}]
    /\ Goto(u, IF mq[u] = NoObject THEN "none" ELSE "unlink_mq")
    /\ UNCHANGED <<names, mqs, mq, todo, kept, history>>

\* ~sock_mq: mq_unlink(label) by the creator
mq_unlink(u) ==
    /\ pc[u] = "unlink_mq"
    /\ mq_name' = NoObject
    /\ mq' = [mq EXCEPT ![u] = NoObject]
    /\ Goto(u, "none")
    /\ UNCHANGED <<sem_name, shm_name, objects, lock, mem, next, call, history>>

----------------------------------------------------------------------------

Construct(u) ==
    \/ create_lock(u) \/ shm_open(u) \/ reopen_unlinked(u) \/ reopen_init(u)
    \/ load_shmem(u) \/ init_shmem(u) \/ create_mq(u)

Call(u) ==
    \/ \E p \in Paths : call_begin(u, p)
    \/ \E i \in InternalLocks : region_lock(u, i) \/ region_unlock(u, i)
    \/ acquire_shmem(u) \/ acquire_closed(u) \/ next_msg(u) \/ next_msg_null(u)
    \/ call_return(u)

Destroy(u) ==
    \/ destroy(u) \/ lock_internal(u) \/ sem_unlink(u) \/ shm_unlink(u)
    \/ mark_unlinked(u) \/ mq_unlink(u)

Next == \E u \in Users : Construct(u) \/ sock_lock(u) \/ Call(u) \/ Destroy(u)

Spec == Init /\ [][Next]_vars

\* A constructor or destructor that can run runs, and one that finds a
\* semaphore free again and again takes it.  When to call and to destroy is
\* the application's choice, and a call may wait for its peer in any step.
Fairness ==
    \A u \in Users :
        /\ WF_vars(/\ pc[u] \notin {"none", "user", "threw", "locking"}
                   /\ Construct(u) \/ Destroy(u))
        /\ SF_vars(sock_lock(u))
        /\ SF_vars(lock_internal(u))

FairSpec == Spec /\ Fairness

----------------------------------------------------------------------------
(* Properties.                                                             *)

TypeOK ==
    /\ sem_name \in 0..Len(sems) /\ shm_name \in 0..Len(mems) /\ mq_name \in 0..mqs
    /\ sems \in Seq(Nat)
    /\ mems \in Seq([state : {"UNITILIZATED", "OK", "UNLINKED"},
                     locks : [InternalLocks -> Nat]])
    /\ pc \in [Users -> {"none", "user"} \cup Constructing \cup Destroying
                          \cup {"call"} \cup Broken]
    /\ lock \in [Users -> 0..Len(sems)]
    /\ mem \in [Users -> 0..Len(mems)]
    /\ mq \in [Users -> 0..mqs]
    /\ next \in [Users -> 0..LocksNum]
    /\ has \in [Users -> SUBSET InternalLocks] /\ kept \in [Users -> SUBSET InternalLocks]
    /\ todo \in [Users -> Seq({"lock", "unlock", "accquire_shmem", "next_msg"} \X Nat)]
    /\ opens \in 0..MaxOpens
    /\ overlap \in BOOLEAN /\ second \in BOOLEAN

\* The label never names a closed memory: ~sock removes the name before it
\* sets UNLINKED, so the loop of reopen finds another memory next time round.
NamedIsOpen == shm_name # NoObject => mems[shm_name].state # "UNLINKED"

\* "call from sock constructor under socket lock": no two constructors work
\* on one memory at once, as long as no construction overlaps a destruction.
InitUnderLock ==
    ~overlap =>
        \A u, v \in Users :
            /\ pc[u] \in {"check", "init", "queue"}
            /\ pc[v] \in {"check", "init", "queue"}
            /\ mem[u] = mem[v]
            => u = v

\* ~sock takes every internal lock before it closes the memory.  So a call that
\* has kept a lock since its last accquire_shmem works on an open memory, also
\* while mem_ctl::call has let go of another.  One that kept none, as recv()
\* after its wait and the send worker around sendto, may find it closed under it.
KeptLockExcludesClose ==
    ~overlap => \A u \in Users : kept[u] # {} => Mem(u).state = "OK"

\* A socket in use can be found by its label: the label names its semaphore,
\* its memory and, if it created one, its queue.  This holds until a
\* destruction overlaps a construction or repeats one.
LiveSocketIsReachable ==
    ~overlap /\ ~second =>
        \A u \in Users :
            /\ pc[u] \in {"user", "call"}
            /\ Mem(u).state = "OK"
            /\ \A v \in Users : pc[v] \notin Destroying
            => /\ sem_name = lock[u]
               /\ shm_name = mem[u]
               /\ mq[u] # NoObject => mq_name = mq[u]

\* A constructor, however often it has to reopen, and a destructor, with other
\* users calling and destroying meanwhile, return, if every call lets go of its
\* internal locks in the end.  A call does not when it waits for its peer under
\* a lock, when it took two locks in the other order than ~sock, or when it ended
\* with a lock taken.
ConstructorAndDestructorReturn ==
    (\A v \in Users : []<>(has[v] = {})) =>
        \A u \in Users :
            pc[u] \in Constructing \cup Destroying ~> pc[u] \in {"user", "none"}
=============================================================================
