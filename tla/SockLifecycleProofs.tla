------------------------- MODULE SockLifecycleProofs -------------------------
(***************************************************************************)
(* A label never names a closed shared memory, for any number of users,    *)
(* constructions and internal locks, overlaps of construction and          *)
(* destruction and repeated destruction included.                          *)
(*                                                                         *)
(* NamedIsOpen is not inductive: the memory ~sock is about to mark must    *)
(* have lost its name for good (MarkedIsNameless).  It has, because        *)
(* shm_unlink comes first and a name is only ever given to a new memory.   *)
(*                                                                         *)
(* The other properties come one from the other.  A semaphore has one      *)
(* holder (SemaphoreExcludes).  Without an overlap all constructors look   *)
(* up the same semaphore, so they exclude each other (ConstructorsExclude) *)
(* and a memory is filled once; its internal locks then have one holder    *)
(* each (InternalLocksExclude), and ~sock, which has them all, shuts out   *)
(* every call that kept one (CallsExcludeClose).  Without a second closing *)
(* nobody but the destructor of a memory takes its names                   *)
(* (UsedSocketIsReachable).                                                *)
(***************************************************************************)
EXTENDS SockLifecycle, Integers, TLAPS

-----------------------------------------------------------------------------
(* The facts on sequences that the proofs below cite: those of the library's *)
(* SequenceTheorems, without the weight of that module on every obligation.  *)

LEMMA EmptySeq ==
    ASSUME NEW S
    PROVE  /\ <<>> \in Seq(S)
           /\ Len(<<>>) = 0
           /\ \A q \in Seq(S) : q # <<>> => Len(q) \in Nat \ {0}
  OBVIOUS

LEMMA LenProperties ==
    ASSUME NEW S, NEW q \in Seq(S)
    PROVE  /\ Len(q) \in Nat
           /\ q \in [1 .. Len(q) -> S]
           /\ DOMAIN q = 1 .. Len(q)
  OBVIOUS

LEMMA ExceptSeq ==
    ASSUME NEW S, NEW q \in Seq(S), NEW i \in 1 .. Len(q), NEW e \in S
    PROVE  /\ [q EXCEPT ![i] = e] \in Seq(S)
           /\ Len([q EXCEPT ![i] = e]) = Len(q)
           /\ \A j \in 1 .. Len(q) :
                  [q EXCEPT ![i] = e][j] = IF j = i THEN e ELSE q[j]
  OBVIOUS

LEMMA AppendProperties ==
    ASSUME NEW S, NEW q \in Seq(S), NEW e \in S
    PROVE  /\ Append(q, e) \in Seq(S)
           /\ Append(q, e) # <<>>
           /\ Len(Append(q, e)) = Len(q) + 1
           /\ \A i \in 1 .. Len(q) : Append(q, e)[i] = q[i]
           /\ Append(q, e)[Len(q) + 1] = e
  OBVIOUS

-----------------------------------------------------------------------------

Memory == [state : {"UNITILIZATED", "OK", "UNLINKED"}, locks : [InternalLocks -> Int]]

MemTypes ==
    /\ mems \in Seq(Memory)
    /\ shm_name \in 0 .. Len(mems)
    /\ mem \in [Users -> 0 .. Len(mems)]
    /\ DOMAIN pc = Users

\* A destructor about to set UNLINKED has taken the name from its memory
MarkedIsNameless ==
    \A u \in Users : pc[u] = "mark" => shm_name = NoObject \/ shm_name # mem[u]

SInv == MemTypes /\ NamedIsOpen /\ MarkedIsNameless

-----------------------------------------------------------------------------
(* A step that changes no memory's state, no name and no mapping and does  *)
(* not bring a destructor to its mark keeps the invariant.                 *)
LEMMA Unmoved ==
  ASSUME SInv, mems' \in Seq(Memory), Len(mems') = Len(mems),
         \A i \in 1 .. Len(mems) : mems'[i].state = mems[i].state,
         UNCHANGED <<shm_name, mem>>,
         DOMAIN pc' = Users, \A u \in Users : pc'[u] = "mark" => pc[u] = "mark"
  PROVE  SInv'
<1>1. MemTypes'
  BY Zenon DEF SInv, MemTypes
<1>2. NamedIsOpen'
  BY DEF SInv, MemTypes, NamedIsOpen, NoObject
<1>3. MarkedIsNameless'
  BY Zenon DEF SInv, MemTypes, MarkedIsNameless
<1> QED BY <1>1, <1>2, <1>3, Zenon DEF SInv

(* Taking or releasing an internal lock leaves the states of the memories. *)
LEMMA LockChange ==
  ASSUME MemTypes, NEW k, NEW i, NEW v,
         k \in 1 .. Len(mems) /\ i \in InternalLocks => v \in Int,
         mems' = [mems EXCEPT ![k].locks[i] = v]
  PROVE  /\ mems' \in Seq(Memory) /\ Len(mems') = Len(mems)
         /\ \A j \in 1 .. Len(mems) : mems'[j].state = mems[j].state
<1>1. mems \in [1 .. Len(mems) -> Memory] /\ Len(mems) \in Nat
  BY LenProperties, Zenon DEF MemTypes
<1>2. CASE k \in 1 .. Len(mems)
  <2> DEFINE r == [mems[k] EXCEPT !.locks[i] = v]
  <2>1. mems[k] \in Memory
    BY <1>1, <1>2, Zenon
  <2>2. r \in Memory /\ r.state = mems[k].state
    BY <1>2, <2>1, Zenon DEF Memory
  <2>3. mems' = [mems EXCEPT ![k] = r]
    BY Zenon
  <2> HIDE DEF r
  <2>4. /\ [mems EXCEPT ![k] = r] \in Seq(Memory)
        /\ Len([mems EXCEPT ![k] = r]) = Len(mems)
        /\ \A j \in 1 .. Len(mems) :
              [mems EXCEPT ![k] = r][j] = IF j = k THEN r ELSE mems[j]
    BY <1>2, <2>2, ExceptSeq DEF MemTypes
  <2> QED BY <2>2, <2>3, <2>4, Zenon
<1>3. CASE k \notin 1 .. Len(mems)
  <2>1. mems' = mems
    BY <1>1, <1>3, Zenon
  <2> QED BY <2>1, Zenon DEF MemTypes
<1> QED BY <1>2, <1>3, Zenon

(* The value of an internal lock is a number. *)
LEMMA LockValue ==
  ASSUME MemTypes, NEW k \in 1 .. Len(mems), NEW i \in InternalLocks
  PROVE  mems[k].locks[i] \in Int
<1>1. mems[k] \in Memory
  BY LenProperties, Zenon DEF MemTypes
<1> QED BY <1>1, Zenon DEF Memory

-----------------------------------------------------------------------------
(* The steps of a call are those on the internal locks and those that only *)
(* look.                                                                   *)

Looks(u) ==
    \/ \E p \in Paths : call_begin(u, p)
    \/ acquire_shmem(u) \/ acquire_closed(u) \/ next_msg(u) \/ next_msg_null(u)
    \/ call_return(u)

LEMMA LooksOnly ==
  ASSUME DOMAIN pc = Users, NEW u \in Users, Looks(u)
  PROVE  /\ UNCHANGED <<sem_name, shm_name, mq_name, sems, mems, mqs>>
         /\ UNCHANGED <<lock, mem, mq, next, overlap, second>>
         /\ pc[u] \in {"user", "call"} /\ pc'[u] \in {"user", "call", "threw", "crashed"}
         /\ DOMAIN pc' = Users /\ \A v \in Users \ {u} : pc'[v] = pc[v]
<1> USE DEF names, objects, members, history, Goto, At, Done
<1>1. ASSUME NEW p \in Paths, call_begin(u, p)
      PROVE  /\ UNCHANGED <<sem_name, shm_name, mq_name, sems, mems, mqs>>
             /\ UNCHANGED <<lock, mem, mq, next, overlap, second>>
             /\ pc[u] = "user" /\ pc'[u] = "call"
             /\ DOMAIN pc' = Users /\ \A v \in Users \ {u} : pc'[v] = pc[v]
  BY <1>1, Zenon DEF call_begin
<1>2. CASE acquire_shmem(u) \/ next_msg(u)
  BY <1>2, Zenon DEF acquire_shmem, next_msg
<1>3. CASE acquire_closed(u) \/ next_msg_null(u) \/ call_return(u)
  BY <1>3, Zenon DEF acquire_closed, next_msg_null, call_return, Broken
<1> QED BY <1>1, <1>2, <1>3, Zenon DEF Looks

LEMMA RegionStep ==
  ASSUME NEW u \in Users, NEW i \in InternalLocks, region_lock(u, i) \/ region_unlock(u, i)
  PROVE  /\ UNCHANGED <<sem_name, shm_name, mq_name, sems, mqs>>
         /\ UNCHANGED <<pc, lock, mem, mq, next, overlap, second>> /\ pc[u] = "call"
         /\ \/ mems' = [mems EXCEPT ![mem[u]].locks[i] = mems[mem[u]].locks[i] + 1]
            \/ mems' = [mems EXCEPT ![mem[u]].locks[i] = mems[mem[u]].locks[i] - 1]
  BY Zenon DEF region_lock, region_unlock, names, members, history, At

-----------------------------------------------------------------------------
(* Steps on the semaphore and the queue, and those that only look. *)
LEMMA LookingPreserves ==
  ASSUME SInv, NEW u \in Users,
         \/ create_lock(u) \/ sock_lock(u) \/ reopen_init(u) \/ load_shmem(u)
         \/ create_mq(u) \/ Looks(u) \/ destroy(u) \/ sem_unlink(u) \/ mq_unlink(u)
  PROVE  SInv'
<1>1. /\ UNCHANGED <<shm_name, mem, mems>>
      /\ DOMAIN pc' = Users /\ pc'[u] # "mark" /\ \A x \in Users \ {u} : pc'[x] = pc[x]
  <2>1. CASE create_lock(u) \/ sock_lock(u) \/ reopen_init(u) \/ load_shmem(u)
    BY <2>1, Zenon DEF create_lock, sock_lock, reopen_init, load_shmem, Goto, names,
                objects, members, SInv, MemTypes
  <2>2. CASE Looks(u)
    BY <2>2, LooksOnly, Zenon DEF SInv, MemTypes
  <2>3. CASE create_mq(u) \/ destroy(u) \/ sem_unlink(u) \/ mq_unlink(u)
    BY <2>3, Zenon DEF create_mq, destroy, sem_unlink, mq_unlink, Goto, names, objects,
                members, SInv, MemTypes
  <2> QED BY <2>1, <2>2, <2>3, Zenon
<1>2. DOMAIN pc' = Users /\ \A x \in Users : pc'[x] = "mark" => pc[x] = "mark"
  BY <1>1, Zenon DEF SInv, MemTypes
<1>3. mems' \in Seq(Memory) /\ Len(mems') = Len(mems)
  BY <1>1, Zenon DEF SInv, MemTypes
<1> QED BY <1>1, <1>2, <1>3, Unmoved, Zenon

(* Steps on the internal locks. *)
LEMMA LockingPreserves ==
  ASSUME SInv, NEW u \in Users,
         \/ \E i \in InternalLocks : region_lock(u, i) \/ region_unlock(u, i)
         \/ lock_internal(u)
  PROVE  SInv'
<1> DEFINE Same == /\ mems' \in Seq(Memory) /\ Len(mems') = Len(mems)
                   /\ \A j \in 1 .. Len(mems) : mems'[j].state = mems[j].state
<1>1. ASSUME NEW i \in InternalLocks, region_lock(u, i) \/ region_unlock(u, i)
      PROVE  Same /\ UNCHANGED <<shm_name, mem, pc>>
  <2>1. mem[u] \in 1 .. Len(mems) => /\ mems[mem[u]].locks[i] + 1 \in Int
                                      /\ mems[mem[u]].locks[i] - 1 \in Int
    BY LockValue DEF SInv
  <2>2. /\ UNCHANGED <<shm_name, mem, pc>>
        /\ \/ mems' = [mems EXCEPT ![mem[u]].locks[i] = mems[mem[u]].locks[i] + 1]
           \/ mems' = [mems EXCEPT ![mem[u]].locks[i] = mems[mem[u]].locks[i] - 1]
    BY <1>1, RegionStep, Zenon
  <2> QED BY <2>1, <2>2, LockChange, Zenon DEF SInv
<1>2. ASSUME lock_internal(u)
      PROVE  /\ Same /\ UNCHANGED <<shm_name, mem>>
             /\ DOMAIN pc' = Users /\ \A x \in Users : pc'[x] = "mark" => pc[x] = "mark"
  <2>1. /\ mems' = [mems EXCEPT ![mem[u]].locks[next[u]] = mems[mem[u]].locks[next[u]] - 1]
        /\ UNCHANGED <<shm_name, mem>>
    BY <1>2, Zenon DEF lock_internal, names
  <2>2. mem[u] \in 1 .. Len(mems) /\ next[u] \in InternalLocks =>
          mems[mem[u]].locks[next[u]] - 1 \in Int
    BY LockValue DEF SInv
  <2>3. DOMAIN pc' = Users /\ \A x \in Users : pc'[x] = "mark" => pc[x] = "mark"
    BY <1>2, Zenon DEF lock_internal, Goto, SInv, MemTypes
  <2> QED BY <2>1, <2>2, <2>3, LockChange, Zenon DEF SInv
<1>3. DOMAIN pc = Users
  BY Zenon DEF SInv, MemTypes
<1> QED BY <1>1, <1>2, <1>3, Unmoved, Zenon

-----------------------------------------------------------------------------
(* One memory written as a whole leaves the others. *)
LEMMA OneWritten ==
  ASSUME MemTypes, NEW k, NEW r,
         k \in 1 .. Len(mems) => r \in Memory,
         mems' = [mems EXCEPT ![k] = r]
  PROVE  /\ mems' \in Seq(Memory) /\ Len(mems') = Len(mems)
         /\ \A j \in 1 .. Len(mems) : mems'[j] = IF j = k THEN r ELSE mems[j]
<1>1. mems \in [1 .. Len(mems) -> Memory]
  BY LenProperties, Zenon DEF MemTypes
<1>2. CASE k \in 1 .. Len(mems)
  BY <1>2, ExceptSeq DEF MemTypes
<1>3. CASE k \notin 1 .. Len(mems)
  <2>1. mems' = mems
    BY <1>1, <1>3, Zenon
  <2> QED BY <2>1, <1>3, Zenon DEF MemTypes
<1> QED BY <1>2, <1>3, Zenon

(* A new memory is not closed, and no destructor has it mapped. *)
LEMMA OpenPreserves ==
  ASSUME SInv, NEW u \in Users, shm_open(u)
  PROVE  SInv'
<1> DEFINE r == [state |-> "UNITILIZATED", locks |-> [i \in InternalLocks |-> 0]]
<1>1. r \in Memory /\ r.state # "UNLINKED"
  BY DEF Memory
<1>2. /\ mem' = [mem EXCEPT ![u] = shm_name']
      /\ pc' = [pc EXCEPT ![u] = "check"]
      /\ \/ shm_name = NoObject /\ mems' = Append(mems, r) /\ shm_name' = Len(mems) + 1
         \/ shm_name # NoObject /\ mems' = mems /\ shm_name' = shm_name
  BY Zenon DEF shm_open, Goto
<1> HIDE DEF r
<1>3. Len(mems) \in Nat
  BY LenProperties, Zenon DEF SInv, MemTypes
<1>4. CASE shm_name = NoObject /\ mems' = Append(mems, r) /\ shm_name' = Len(mems) + 1
  <2>1. /\ mems' \in Seq(Memory) /\ Len(mems') = Len(mems) + 1
        /\ mems'[Len(mems) + 1] = r
    BY <1>1, <1>4, AppendProperties DEF SInv, MemTypes
  <2>2. MemTypes'
    BY <1>2, <1>3, <1>4, <2>1 DEF SInv, MemTypes
  <2>3. NamedIsOpen'
    BY <1>1, <1>4, <2>1, Zenon DEF NamedIsOpen
  <2>4. MarkedIsNameless'
    BY <1>2, <1>3, <1>4 DEF SInv, MemTypes, MarkedIsNameless
  <2> QED BY <2>2, <2>3, <2>4, Zenon DEF SInv
<1>5. CASE shm_name # NoObject /\ mems' = mems /\ shm_name' = shm_name
  <2>1. MemTypes'
    BY <1>2, <1>5, Zenon DEF SInv, MemTypes
  <2>2. NamedIsOpen'
    BY <1>5, Zenon DEF SInv, NamedIsOpen
  <2>3. MarkedIsNameless'
    BY <1>2, <1>5, Zenon DEF SInv, MemTypes, MarkedIsNameless
  <2> QED BY <2>1, <2>2, <2>3, Zenon DEF SInv
<1> QED BY <1>2, <1>4, <1>5, Zenon

(* The constructor that unmaps a closed memory, and the one that fills a    *)
(* new one.                                                                *)
LEMMA InitPreserves ==
  ASSUME SInv, NEW u \in Users, reopen_unlinked(u) \/ init_shmem(u)
  PROVE  SInv'
<1>1. CASE reopen_unlinked(u)
  <2>1. /\ UNCHANGED <<shm_name, mems>>
        /\ mem' = [mem EXCEPT ![u] = NoObject] /\ pc' = [pc EXCEPT ![u] = "lock"]
    BY <1>1, Zenon DEF reopen_unlinked, names, Goto
  <2>2. Len(mems) \in Nat
    BY LenProperties, Zenon DEF SInv, MemTypes
  <2>3. MemTypes'
    BY <2>1, <2>2 DEF SInv, MemTypes, NoObject
  <2>4. NamedIsOpen' /\ MarkedIsNameless'
    BY <2>1, Zenon DEF SInv, MemTypes, NamedIsOpen, MarkedIsNameless
  <2> QED BY <2>3, <2>4, Zenon DEF SInv
<1>2. CASE init_shmem(u)
  <2> DEFINE r == [state |-> "OK", locks |-> [i \in InternalLocks |-> 1]]
  <2>1. r \in Memory /\ r.state # "UNLINKED"
    BY DEF Memory
  <2>2. /\ UNCHANGED <<shm_name, mem>> /\ pc' = [pc EXCEPT ![u] = "queue"]
        /\ mems' = [mems EXCEPT ![mem[u]] = r]
    BY <1>2, Zenon DEF init_shmem, names, members, Goto
  <2> HIDE DEF r
  <2>3. /\ mems' \in Seq(Memory) /\ Len(mems') = Len(mems)
        /\ \A j \in 1 .. Len(mems) : mems'[j] = IF j = mem[u] THEN r ELSE mems[j]
    BY <2>1, <2>2, OneWritten, Zenon DEF SInv
  <2>4. MemTypes'
    BY <2>2, <2>3, Zenon DEF SInv, MemTypes
  <2>5. NamedIsOpen'
    BY <2>1, <2>2, <2>3 DEF SInv, MemTypes, NamedIsOpen, NoObject
  <2>6. MarkedIsNameless'
    BY <2>2, Zenon DEF SInv, MemTypes, MarkedIsNameless
  <2> QED BY <2>4, <2>5, <2>6, Zenon DEF SInv
<1> QED BY <1>1, <1>2, Zenon

(* The destructor takes the name away and then marks the memory closed. *)
LEMMA ClosePreserves ==
  ASSUME SInv, NEW u \in Users, shm_unlink(u) \/ mark_unlinked(u)
  PROVE  SInv'
<1>0. Len(mems) \in Nat
  BY LenProperties, Zenon DEF SInv, MemTypes
<1>1. CASE shm_unlink(u)
  <2>1. /\ UNCHANGED <<mem, mems>> /\ shm_name' = NoObject
        /\ pc' = [pc EXCEPT ![u] = "mark"]
    BY <1>1, Zenon DEF shm_unlink, objects, members, Goto
  <2>2. MemTypes'
    BY <1>0, <2>1 DEF SInv, MemTypes, NoObject
  <2>3. NamedIsOpen' /\ MarkedIsNameless'
    BY <2>1, Zenon DEF NamedIsOpen, MarkedIsNameless
  <2> QED BY <2>2, <2>3, Zenon DEF SInv
<1>2. CASE mark_unlinked(u)
  <2> DEFINE r == [state |-> "UNLINKED",
                   locks |-> [i \in InternalLocks |-> mems[mem[u]].locks[i] + 1]]
  <2>1. ASSUME mem[u] \in 1 .. Len(mems)
        PROVE  r \in Memory
    <3>1. \A i \in InternalLocks : mems[mem[u]].locks[i] + 1 \in Int
      BY <2>1, LockValue DEF SInv
    <3> QED BY <3>1, Zenon DEF Memory
  <2>2. /\ shm_name' = shm_name /\ mem' = [mem EXCEPT ![u] = NoObject]
        /\ pc[u] = "mark"
        /\ DOMAIN pc' = Users /\ \A x \in Users : pc'[x] = "mark" => x # u /\ pc[x] = "mark"
    BY <1>2, Zenon DEF mark_unlinked, names, Goto, SInv, MemTypes
  <2>3. mems' = [mems EXCEPT ![mem[u]] = r]
    BY <1>2, Zenon DEF mark_unlinked
  <2> HIDE DEF r
  <2>4. /\ mems' \in Seq(Memory) /\ Len(mems') = Len(mems)
        /\ \A j \in 1 .. Len(mems) : mems'[j] = IF j = mem[u] THEN r ELSE mems[j]
    BY <2>1, <2>3, OneWritten, Zenon DEF SInv
  <2>5. MemTypes'
    BY <1>0, <2>2, <2>4 DEF SInv, MemTypes, NoObject
  <2>6. NamedIsOpen'
    BY <2>2, <2>4 DEF SInv, MemTypes, NamedIsOpen, MarkedIsNameless, NoObject
  <2>7. MarkedIsNameless'
    BY <2>2, Zenon DEF SInv, MemTypes, MarkedIsNameless
  <2> QED BY <2>5, <2>6, <2>7, Zenon DEF SInv
<1> QED BY <1>1, <1>2, Zenon

-----------------------------------------------------------------------------
(* The invariant holds at the start and every step keeps it. *)
LEMMA SInvStep ==
  /\ Init => SInv
  /\ SInv /\ [Next]_vars => SInv'
<1>1. Init => SInv
  BY EmptySeq DEF Init, SInv, MemTypes, NamedIsOpen, MarkedIsNameless, NoObject
<1>2. ASSUME SInv, Next
      PROVE  SInv'
  <2>1. PICK u \in Users : Construct(u) \/ sock_lock(u) \/ Call(u) \/ Destroy(u)
    BY <1>2, Zenon DEF Next
  <2>2. CASE Construct(u) \/ sock_lock(u)
    BY <1>2, <2>2, LookingPreserves, OpenPreserves, InitPreserves, Zenon DEF Construct
  <2>3. CASE Call(u)
    BY <1>2, <2>3, LookingPreserves, LockingPreserves, Zenon DEF Call, Looks
  <2>4. CASE Destroy(u)
    BY <1>2, <2>4, LookingPreserves, LockingPreserves, ClosePreserves, Zenon DEF Destroy
  <2> QED BY <2>1, <2>2, <2>3, <2>4, Zenon
<1>3. ASSUME SInv, UNCHANGED vars
      PROVE  SInv'
  BY <1>3, Zenon DEF vars, names, objects, members, SInv, MemTypes, NamedIsOpen, MarkedIsNameless
<1> QED BY <1>1, <1>2, <1>3, Zenon

(* The inductive invariant of the life cycle of a sock: the types of the    *)
(* memories and of what maps them, NamedIsOpen and MarkedIsNameless.       *)
THEOREM SockInvariant == Spec => []SInv
  BY SInvStep, PTL DEF Spec

(* ~sock and reopen together: shm_open never gives a constructor a memory   *)
(* that is closed already, whatever destructors run meanwhile, so a memory  *)
(* found UNLINKED was closed after it was opened and the next turn of the   *)
(* loop in reopen looks up another one.                                    *)
THEOREM NameIsOpen == Spec => []NamedIsOpen
<1>1. SInv => NamedIsOpen
  BY Zenon DEF SInv
<1> QED BY <1>1, SockInvariant, PTL
-----------------------------------------------------------------------------
(* The named semaphore is a lock: whatever semaphore a sock has opened, at *)
(* most one sock is between the __lock and the __unlock of it.             *)

\* Between __lock and __unlock
SemHolding ==
    {"open", "check", "init", "queue", "locking", "unlink", "unlink_shm", "mark"}

UserTypes ==
    /\ DOMAIN pc = Users /\ DOMAIN mq = Users
    /\ DOMAIN has = Users /\ DOMAIN kept = Users
    /\ lock \in [Users -> 0 .. Len(sems)] /\ next \in [Users -> Nat]
    /\ sems \in Seq(Int) /\ sem_name \in 0 .. Len(sems)

\* A sock that is not destroyed has opened a semaphore
Opened ==
    \A u \in Users : pc[u] \notin {"none", "unlink_mq"} => lock[u] \in 1 .. Len(sems)

SemExclusive ==
    /\ \A i \in 1 .. Len(sems) : sems[i] \in {0, 1}
    /\ \A u \in Users : pc[u] \in SemHolding => sems[lock[u]] = 0
    /\ \A u, v \in Users :
          pc[u] \in SemHolding /\ pc[v] \in SemHolding /\ lock[u] = lock[v] => u = v

LInv == UserTypes /\ Opened /\ SemExclusive

\* A step of u leaves the members of the other socks
OthersKept(u) ==
    /\ DOMAIN pc' = Users /\ DOMAIN mq' = Users
    /\ DOMAIN has' = Users /\ DOMAIN kept' = Users
    /\ \A v \in Users \ {u} : /\ pc'[v] = pc[v] /\ lock'[v] = lock[v]
                              /\ mem'[v] = mem[v] /\ mq'[v] = mq[v]
                              /\ next'[v] = next[v] /\ has'[v] = has[v]
                              /\ kept'[v] = kept[v]

(* One semaphore posted or taken. *)
LEMMA SemChange ==
  ASSUME UserTypes, NEW k \in 1 .. Len(sems), NEW x \in Int,
         sems' = [sems EXCEPT ![k] = x]
  PROVE  /\ sems' \in Seq(Int) /\ Len(sems') = Len(sems)
         /\ \A j \in 1 .. Len(sems) : sems'[j] = IF j = k THEN x ELSE sems[j]
  BY ExceptSeq DEF UserTypes

(* The value of a semaphore is a number. *)
LEMMA SemValue ==
  ASSUME UserTypes, NEW k \in 1 .. Len(sems) PROVE sems[k] \in Int
  BY LenProperties, Zenon DEF UserTypes

(* A step only writes the members of the sock that takes it. *)
LEMMA StepIsLocal ==
  ASSUME SInv, UserTypes, NEW u \in Users,
         Construct(u) \/ sock_lock(u) \/ Call(u) \/ Destroy(u)
  PROVE  OthersKept(u)
<1> USE DEF SInv, MemTypes, UserTypes, OthersKept, Goto, members, call
<1>1. CASE create_lock(u) \/ shm_open(u) \/ reopen_unlinked(u) \/ reopen_init(u)
  BY <1>1, Zenon DEF create_lock, shm_open, reopen_unlinked, reopen_init
<1>2. CASE load_shmem(u) \/ init_shmem(u) \/ create_mq(u) \/ sock_lock(u)
  BY <1>2, Zenon DEF load_shmem, init_shmem, create_mq, sock_lock
<1>3. ASSUME NEW i \in InternalLocks, region_lock(u, i) \/ region_unlock(u, i)
      PROVE  OthersKept(u)
  BY <1>3, Zenon DEF region_lock, region_unlock
<1>4. ASSUME Looks(u) PROVE OthersKept(u)
  <2>1. ASSUME NEW p \in Paths, call_begin(u, p) PROVE OthersKept(u)
    BY <2>1, Zenon DEF call_begin
  <2>2. CASE acquire_shmem(u) \/ next_msg(u) \/ call_return(u)
    BY <2>2, Zenon DEF acquire_shmem, next_msg, call_return
  <2>3. CASE acquire_closed(u) \/ next_msg_null(u)
    BY <2>3, Zenon DEF acquire_closed, next_msg_null
  <2> QED BY <1>4, <2>1, <2>2, <2>3, Zenon DEF Looks
<1>5. CASE destroy(u) \/ lock_internal(u) \/ sem_unlink(u) \/ shm_unlink(u)
  BY <1>5, Zenon DEF destroy, lock_internal, sem_unlink, shm_unlink
<1>6. CASE mark_unlinked(u) \/ mq_unlink(u)
  BY <1>6 DEF mark_unlinked, mq_unlink
<1> QED BY <1>1, <1>2, <1>3, <1>4, <1>5, <1>6, Zenon DEF Construct, Call, Looks, Destroy

(* __lock: the semaphore had the value 1, so nobody was inside. *)
LEMMA SockLockKeepsLInv ==
  ASSUME SInv, LInv, NEW u \in Users, sock_lock(u), OthersKept(u) PROVE LInv'
<1> USE DEF LInv
<1>1. /\ pc[u] \in {"lock", "closing"} /\ sems[lock[u]] > 0
      /\ sems' = [sems EXCEPT ![lock[u]] = sems[lock[u]] - 1]
      /\ UNCHANGED <<lock, sem_name>>
      /\ \E h \in {0, 1} : next' = [next EXCEPT ![u] = h]
  BY Zenon DEF sock_lock, names
<1>2. pc'[u] \in {"open", "locking"}
  BY Zenon DEF sock_lock, Goto, UserTypes
<1>3. lock[u] \in 1 .. Len(sems)
  BY <1>1, Zenon DEF Opened
<1>4. sems[lock[u]] = 1
  BY <1>1, <1>3 DEF SemExclusive
<1>5. /\ sems' \in Seq(Int) /\ Len(sems') = Len(sems)
      /\ \A j \in 1 .. Len(sems) : sems'[j] = IF j = lock[u] THEN 0 ELSE sems[j]
  <2> DEFINE x == sems[lock[u]] - 1
  <2>1. sems' = [sems EXCEPT ![lock[u]] = x] /\ x = 0 /\ x \in Int
    BY <1>1, <1>4
  <2> HIDE DEF x
  <2>2. /\ sems' \in Seq(Int) /\ Len(sems') = Len(sems)
        /\ \A j \in 1 .. Len(sems) : sems'[j] = IF j = lock[u] THEN x ELSE sems[j]
    BY <1>3, <2>1, SemChange, Zenon
  <2> QED BY <2>1, <2>2, Zenon
<1>6. UserTypes'
  BY <1>1, <1>5 DEF UserTypes, OthersKept
<1>7. Opened'
  BY <1>1, <1>3, <1>5, Zenon DEF Opened, OthersKept
<1>8. SemExclusive'
  <2>1. \A i \in 1 .. Len(sems') : sems'[i] \in {0, 1}
    BY <1>5, Zenon DEF SemExclusive
  <2>2. \A v \in Users : pc[v] \in SemHolding => lock[v] # lock[u]
    BY <1>4 DEF SemExclusive
  <2>3. \A v \in Users \ {u} : pc'[v] = pc[v] /\ lock'[v] = lock[v]
    BY Zenon DEF OthersKept
  <2>4. \A v \in Users : pc[v] \in SemHolding => lock[v] \in 1 .. Len(sems)
    BY Zenon DEF Opened, SemHolding
  <2>5. \A v \in Users : pc'[v] \in SemHolding => sems'[lock'[v]] = 0
    BY <1>1, <1>3, <1>5, <2>3, <2>4 DEF SemExclusive
  <2>6. \A v, w \in Users :
          pc'[v] \in SemHolding /\ pc'[w] \in SemHolding /\ lock'[v] = lock'[w] => v = w
    BY <1>1, <2>2, <2>3, Zenon DEF SemExclusive
  <2> QED BY <2>1, <2>5, <2>6, Zenon DEF SemExclusive
<1> QED BY <1>6, <1>7, <1>8, Zenon

(* __unlock: the sock that posts was the only one inside. *)
LEMMA PostKeepsLInv ==
  ASSUME LInv, NEW u \in Users, OthersKept(u), SemPost(lock[u]),
         pc[u] \in SemHolding, UNCHANGED sem_name, next' \in [Users -> Nat],
         \/ pc'[u] \in {"lock", "user"} /\ UNCHANGED lock
         \/ pc'[u] \in {"none", "unlink_mq"} /\ lock' = [lock EXCEPT ![u] = NoObject]
  PROVE  LInv'
<1> USE DEF LInv
<1>1. lock[u] \in 1 .. Len(sems)
  BY Zenon DEF Opened, SemHolding
<1>2. sems[lock[u]] = 0
  BY Zenon DEF SemExclusive
<1>3. /\ sems' \in Seq(Int) /\ Len(sems') = Len(sems)
      /\ \A j \in 1 .. Len(sems) : sems'[j] = IF j = lock[u] THEN 1 ELSE sems[j]
  <2> DEFINE x == sems[lock[u]] + 1
  <2>1. sems' = [sems EXCEPT ![lock[u]] = x] /\ x = 1 /\ x \in Int
    BY <1>2 DEF SemPost
  <2> HIDE DEF x
  <2>2. /\ sems' \in Seq(Int) /\ Len(sems') = Len(sems)
        /\ \A j \in 1 .. Len(sems) : sems'[j] = IF j = lock[u] THEN x ELSE sems[j]
    BY <1>1, <2>1, SemChange, Zenon
  <2> QED BY <2>1, <2>2, Zenon
<1>4. Len(sems) \in Nat
  BY LenProperties, Zenon DEF UserTypes
<1>5. lock' \in [Users -> 0 .. Len(sems)]
  <2>1. NoObject \in 0 .. Len(sems) /\ lock \in [Users -> 0 .. Len(sems)]
    BY <1>4 DEF UserTypes, NoObject
  <2> QED BY <2>1, Zenon
<1>6. UserTypes'
  BY <1>3, <1>5, Zenon DEF UserTypes, OthersKept
<1>7. Opened'
  BY <1>1, <1>3, Zenon DEF Opened, OthersKept
<1>8. SemExclusive'
  <2>1. \A i \in 1 .. Len(sems') : sems'[i] \in {0, 1}
    BY <1>3, Zenon DEF SemExclusive
  <2>2. \A v \in Users \ {u} : pc'[v] = pc[v] /\ lock'[v] = lock[v]
    BY Zenon DEF OthersKept
  <2>3. \A v \in Users : pc'[v] \in SemHolding => v # u
    BY Zenon DEF SemHolding
  <2>4. \A v \in Users : pc[v] \in SemHolding => lock[v] \in 1 .. Len(sems)
    BY Zenon DEF Opened, SemHolding
  <2>5. \A v \in Users : pc'[v] \in SemHolding => sems'[lock'[v]] = 0
    BY <1>3, <2>2, <2>3, <2>4 DEF SemExclusive
  <2>6. \A v, w \in Users :
          pc'[v] \in SemHolding /\ pc'[w] \in SemHolding /\ lock'[v] = lock'[w] => v = w
    BY <2>2, <2>3, Zenon DEF SemExclusive
  <2> QED BY <2>1, <2>5, <2>6, Zenon DEF SemExclusive
<1> QED BY <1>6, <1>7, <1>8, Zenon

(* A step on neither side of the lock. *)
LEMMA StillKeepsLInv ==
  ASSUME LInv, NEW u \in Users, OthersKept(u), UNCHANGED <<sems, lock>>,
         sem_name' \in {sem_name, NoObject}, next' \in [Users -> Nat],
         pc'[u] \in SemHolding => pc[u] \in SemHolding,
         pc'[u] \notin {"none", "unlink_mq"} => pc[u] \notin {"none", "unlink_mq"}
  PROVE  LInv'
<1> USE DEF LInv
<1>1. Len(sems) \in Nat
  BY LenProperties, Zenon DEF UserTypes
<1>2. UserTypes'
  BY <1>1 DEF UserTypes, OthersKept, NoObject
<1>3. \A v \in Users \ {u} : pc'[v] = pc[v]
  BY Zenon DEF OthersKept
<1>4. Opened'
  BY <1>3, Zenon DEF Opened
<1>5. SemExclusive'
  BY <1>3, Zenon DEF SemExclusive
<1> QED BY <1>2, <1>4, <1>5, Zenon

(* sem_open creates a semaphore with the value 1, or finds one. *)
LEMMA CreateLockKeepsLInv ==
  ASSUME LInv, NEW u \in Users, create_lock(u), OthersKept(u) PROVE LInv'
<1> USE DEF LInv
<1>1. /\ pc'[u] = "lock" /\ lock' = [lock EXCEPT ![u] = sem_name'] /\ UNCHANGED next
      /\ \/ sem_name = NoObject /\ sems' = Append(sems, 1) /\ sem_name' = Len(sems) + 1
         \/ sem_name # NoObject /\ UNCHANGED <<sems, sem_name>>
  BY Zenon DEF create_lock, Goto, UserTypes
<1>2. /\ sems' \in Seq(Int) /\ Len(sems') >= Len(sems)
      /\ \A j \in 1 .. Len(sems) : sems'[j] = sems[j]
      /\ \A j \in 1 .. Len(sems') : sems'[j] \in {0, 1}
      /\ sem_name' \in 1 .. Len(sems')
  <2>1. Len(sems) \in Nat
    BY LenProperties, Zenon DEF UserTypes
  <2>2. CASE UNCHANGED <<sems, sem_name>> /\ sem_name # NoObject
    BY <2>1, <2>2 DEF UserTypes, SemExclusive, NoObject
  <2>3. CASE sems' = Append(sems, 1) /\ sem_name' = Len(sems) + 1
    <3>1. /\ sems' \in Seq(Int) /\ Len(sems') = Len(sems) + 1
          /\ \A j \in 1 .. Len(sems) : sems'[j] = sems[j]
          /\ sems'[Len(sems) + 1] = 1
      BY <2>3, AppendProperties DEF UserTypes
    <3> QED BY <2>1, <2>3, <3>1 DEF SemExclusive
  <2> QED BY <1>1, <2>2, <2>3, Zenon
<1>3. /\ Len(sems) \in Nat /\ Len(sems') \in Nat
  BY <1>2, LenProperties, Zenon DEF UserTypes
<1>4. UserTypes'
  BY <1>1, <1>2, <1>3 DEF UserTypes, OthersKept
<1>5. \A v \in Users \ {u} : pc'[v] = pc[v] /\ lock'[v] = lock[v]
  BY Zenon DEF OthersKept
<1>6. lock'[u] = sem_name'
  BY <1>1, Zenon DEF UserTypes
<1>7. Opened'
  BY <1>2, <1>3, <1>5, <1>6 DEF Opened
<1>8. \A v \in Users : pc[v] \in SemHolding => lock[v] \in 1 .. Len(sems)
  BY Zenon DEF Opened, SemHolding
<1>9. \A v \in Users : pc'[v] \in SemHolding => v # u
  BY <1>1, Zenon DEF SemHolding
<1>10. SemExclusive'
  BY <1>2, <1>5, <1>8, <1>9 DEF SemExclusive
<1> QED BY <1>4, <1>7, <1>10, Zenon

(* The semaphore excludes at every step. *)
LEMMA LInvStep ==
  ASSUME SInv, LInv, [Next]_vars PROVE LInv'
<1>1. CASE UNCHANGED vars
  BY <1>1, Zenon DEF vars, names, objects, members, call, LInv, UserTypes, Opened, SemExclusive
<1>2. CASE Next
  <2>1. PICK u \in Users : Construct(u) \/ sock_lock(u) \/ Call(u) \/ Destroy(u)
    BY <1>2, Zenon DEF Next
  <2>2. OthersKept(u)
    BY <2>1, StepIsLocal, Zenon DEF LInv
  <2>3. next \in [Users -> Nat] /\ \A h \in Nat : [next EXCEPT ![u] = h] \in [Users -> Nat]
    BY Zenon DEF LInv, UserTypes
  <2>4. CASE create_lock(u) \/ sock_lock(u)
    BY <2>2, <2>4, CreateLockKeepsLInv, SockLockKeepsLInv, Zenon
  <2>5. CASE reopen_unlinked(u) \/ load_shmem(u) \/ create_mq(u) \/ mark_unlinked(u)
    <3>1. SemPost(lock[u]) /\ pc[u] \in SemHolding /\ UNCHANGED sem_name
      BY <2>5, Zenon DEF reopen_unlinked, load_shmem, create_mq, mark_unlinked, names, SemHolding
    <3>2. next' \in [Users -> Nat]
      BY <2>3, <2>5 DEF reopen_unlinked, load_shmem, create_mq, mark_unlinked, members
    <3>3. \/ pc'[u] \in {"lock", "user"} /\ UNCHANGED lock
          \/ pc'[u] \in {"none", "unlink_mq"} /\ lock' = [lock EXCEPT ![u] = NoObject]
      BY <2>5, Zenon DEF reopen_unlinked, load_shmem, create_mq, mark_unlinked, members, Goto,
                  LInv, UserTypes
    <3> QED BY <2>2, <3>1, <3>2, <3>3, PostKeepsLInv, Zenon
  <2>6. CASE \/ shm_open(u) \/ reopen_init(u) \/ init_shmem(u)
             \/ Call(u) \/ destroy(u) \/ lock_internal(u) \/ sem_unlink(u)
             \/ shm_unlink(u) \/ mq_unlink(u)
    <3> DEFINE Still == /\ UNCHANGED <<sems, lock>> /\ sem_name' \in {sem_name, NoObject}
                        /\ next' \in [Users -> Nat]
                        /\ pc'[u] \in SemHolding => pc[u] \in SemHolding
                        /\ pc'[u] \notin {"none", "unlink_mq"} =>
                              pc[u] \notin {"none", "unlink_mq"}
    <3>1. ASSUME shm_open(u) \/ reopen_init(u) \/ init_shmem(u) PROVE Still
      BY <2>3, <3>1, Zenon DEF shm_open, reopen_init, init_shmem, names, objects, members, Goto,
                  SemHolding, LInv, UserTypes
    <3>2. ASSUME NEW i \in InternalLocks, region_lock(u, i) \/ region_unlock(u, i) PROVE Still
      <4>1. UNCHANGED <<sem_name, sems, lock, next, pc>>
        BY <3>2, RegionStep, Zenon
      <4> QED BY <2>3, <4>1, Zenon
    <3>3. ASSUME Looks(u) PROVE Still
      <4>1. /\ UNCHANGED <<sem_name, sems, lock, next>>
            /\ pc[u] \in {"user", "call"} /\ pc'[u] \in {"user", "call", "threw", "crashed"}
        BY <3>3, LooksOnly, Zenon DEF LInv, UserTypes
      <4> QED BY <2>3, <4>1, Zenon DEF SemHolding
    <3>4. ASSUME lock_internal(u) PROVE Still
      <4>1. next[u] + 1 \in Nat
        BY <2>3
      <4> QED BY <2>3, <3>4, <4>1, Zenon DEF lock_internal, names, Goto, SemHolding, LInv, UserTypes
    <3>5. ASSUME destroy(u) \/ sem_unlink(u) \/ shm_unlink(u) \/ mq_unlink(u) PROVE Still
      BY <2>3, <3>5, Zenon DEF destroy, sem_unlink, shm_unlink, mq_unlink, names, objects,
                  members, Goto, SemHolding, LInv, UserTypes
    <3>6. Still
      BY <2>6, <3>1, <3>2, <3>3, <3>4, <3>5, Zenon DEF Call, Looks
    <3> QED BY <2>2, <3>6, StillKeepsLInv, Zenon
  <2> QED BY <2>1, <2>4, <2>5, <2>6, Zenon DEF Construct, Destroy
<1> QED BY <1>1, <1>2, Zenon

LEMMA LInvInit == Init => LInv
  BY EmptySeq DEF Init, LInv, UserTypes, Opened, SemExclusive, SemHolding, NoObject

(* At most one sock is between __lock and __unlock of a semaphore, for any  *)
(* number of constructions and destructions at once.                       *)
THEOREM SemaphoreExcludes == Spec => []LInv
  BY LInvInit, LInvStep, SockInvariant, PTL DEF Spec

-----------------------------------------------------------------------------
(* As long as no construction has overlapped a destruction, all            *)
(* constructors under way have opened the semaphore the label names, so    *)
(* its lock excludes any two of them.                                      *)

NoQueueYet == \A u \in Users : pc[u] \in Constructing \cup {"none"} => mq[u] = NoObject

Apart == \A u, v \in Users : ~(pc[u] \in Constructing /\ pc[v] \in Destroying)

Looked == \A u \in Users : pc[u] \in Constructing => lock[u] = sem_name

AInv == NoQueueYet /\ (~overlap => Apart /\ Looked)

\* A step of u that begins neither a construction nor a destruction
Continues(u) ==
    /\ overlap' = overlap
    /\ pc'[u] \in Constructing =>
          pc[u] \in Constructing /\ lock'[u] = lock[u] /\ mq'[u] = mq[u]
    /\ pc'[u] = "none" => mq'[u] = NoObject
    /\ pc'[u] \in Destroying => pc[u] \in Destroying
    /\ sem_name' # sem_name => pc[u] \in Destroying

LEMMA ContinuesKeepsAInv ==
  ASSUME LInv, AInv, NEW u \in Users, OthersKept(u), Continues(u) PROVE AInv'
<1>1. \A v \in Users \ {u} : pc'[v] = pc[v] /\ lock'[v] = lock[v] /\ mq'[v] = mq[v]
  BY Zenon DEF OthersKept
<1>2. NoQueueYet'
  BY <1>1, Zenon DEF AInv, NoQueueYet, Continues
<1>3. ASSUME ~overlap' PROVE Apart' /\ Looked'
  <2>1. Apart /\ Looked
    BY <1>3, Zenon DEF AInv, Continues
  <2>2. Apart'
    BY <1>1, <2>1, Zenon DEF Apart, Continues
  <2>3. ASSUME NEW v \in Users, pc'[v] \in Constructing PROVE lock'[v] = sem_name'
    <3>1. pc[v] \in Constructing /\ lock'[v] = lock[v]
      BY <1>1, <2>3, Zenon DEF Continues
    <3>2. pc[u] \notin Destroying
      BY <2>1, <3>1, Zenon DEF Apart
    <3> QED BY <2>1, <3>1, <3>2, Zenon DEF Looked, Continues
  <2> QED BY <2>2, <2>3, Zenon DEF Looked
<1> QED BY <1>2, <1>3, Zenon DEF AInv

LEMMA CreateLockKeepsAInv ==
  ASSUME LInv, AInv, NEW u \in Users, OthersKept(u), create_lock(u) PROVE AInv'
<1>1. \A v \in Users \ {u} : pc'[v] = pc[v] /\ lock'[v] = lock[v] /\ mq'[v] = mq[v]
  BY Zenon DEF OthersKept
<1>2. /\ pc[u] = "none" /\ pc'[u] = "lock" /\ mq' = mq /\ lock'[u] = sem_name'
      /\ sem_name' = sem_name \/ sem_name = NoObject
  BY Zenon DEF create_lock, Goto, LInv, UserTypes
<1>3. NoQueueYet'
  BY <1>1, <1>2, Zenon DEF AInv, NoQueueYet
<1>4. ASSUME ~overlap' PROVE Apart' /\ Looked'
  <2>1. overlap' = (overlap \/ \E v \in Users : pc[v] \in Destroying)
    BY Zenon DEF create_lock
  <2>2. ~overlap /\ \A v \in Users : pc[v] \notin Destroying
    BY <1>4, <2>1, Zenon
  <2>3. Apart /\ Looked
    BY <2>2, Zenon DEF AInv
  <2>4. Apart'
    BY <1>1, <1>2, <2>2, Zenon DEF Apart, Destroying
  <2>5. ASSUME NEW v \in Users \ {u}, pc'[v] \in Constructing PROVE lock'[v] = sem_name'
    <3>1. pc[v] \in Constructing /\ lock'[v] = lock[v] /\ lock[v] = sem_name
      BY <1>1, <2>3, <2>5, Zenon DEF Looked
    <3>2. lock[v] # NoObject
      BY <3>1 DEF LInv, Opened, Constructing, NoObject
    <3> QED BY <1>2, <3>1, <3>2, Zenon
  <2>6. Looked'
    BY <1>2, <2>5, Zenon DEF Looked
  <2> QED BY <2>4, <2>6, Zenon
<1> QED BY <1>3, <1>4, Zenon DEF AInv

LEMMA DestroyKeepsAInv ==
  ASSUME LInv, AInv, NEW u \in Users, OthersKept(u), destroy(u) PROVE AInv'
<1>1. \A v \in Users \ {u} : pc'[v] = pc[v]
  BY Zenon DEF OthersKept
<1>2. pc'[u] = "closing" /\ UNCHANGED <<mq, lock, sem_name>>
  BY Zenon DEF destroy, Goto, members, names, LInv, UserTypes
<1>3. NoQueueYet'
  BY <1>1, <1>2, Zenon DEF AInv, NoQueueYet, Constructing
<1>4. ASSUME ~overlap' PROVE Apart' /\ Looked'
  <2>1. overlap' = (overlap \/ \E v \in Users : pc[v] \in Constructing)
    BY Zenon DEF destroy
  <2>2. ~overlap /\ \A v \in Users : pc[v] \notin Constructing
    BY <1>4, <2>1, Zenon
  <2>3. \A v \in Users : pc'[v] \notin Constructing
    BY <1>1, <1>2, <2>2, Zenon DEF Constructing
  <2> QED BY <2>3, Zenon DEF Apart, Looked
<1> QED BY <1>3, <1>4, Zenon DEF AInv

LEMMA StepContinues ==
  ASSUME LInv, NEW u \in Users, OthersKept(u),
         Construct(u) \/ sock_lock(u) \/ Call(u) \/ Destroy(u),
         ~create_lock(u), ~destroy(u)
  PROVE  Continues(u)
<1> USE DEF LInv, UserTypes, Continues, Goto, names, members, history,
            Constructing, Destroying
<1>1. CASE shm_open(u) \/ reopen_unlinked(u) \/ reopen_init(u)
  BY <1>1, Zenon DEF shm_open, reopen_unlinked, reopen_init
<1>2. CASE load_shmem(u) \/ init_shmem(u) \/ create_mq(u) \/ sock_lock(u)
  BY <1>2, Zenon DEF load_shmem, init_shmem, create_mq, sock_lock
<1>3. CASE Call(u)
  <2>1. ASSUME NEW i \in InternalLocks, region_lock(u, i) \/ region_unlock(u, i)
        PROVE  Continues(u)
    BY <2>1, RegionStep, Zenon
  <2>2. ASSUME Looks(u) PROVE Continues(u)
    BY <2>2, LooksOnly, Zenon
  <2> QED BY <1>3, <2>1, <2>2, Zenon DEF Call, Looks
<1>4. CASE lock_internal(u) \/ sem_unlink(u) \/ shm_unlink(u)
  BY <1>4, Zenon DEF lock_internal, sem_unlink, shm_unlink
<1>5. CASE mark_unlinked(u) \/ mq_unlink(u)
  BY <1>5, Zenon DEF mark_unlinked, mq_unlink
<1> QED BY <1>1, <1>2, <1>3, <1>4, <1>5, Zenon DEF Construct, Destroy

LEMMA AInvStep ==
  ASSUME SInv, LInv, AInv, [Next]_vars PROVE AInv'
<1>1. CASE UNCHANGED vars
  BY <1>1, Zenon DEF vars, names, members, history, AInv, NoQueueYet, Apart, Looked
<1>2. CASE Next
  <2>1. PICK u \in Users : Construct(u) \/ sock_lock(u) \/ Call(u) \/ Destroy(u)
    BY <1>2, Zenon DEF Next
  <2>2. OthersKept(u)
    BY <2>1, StepIsLocal, Zenon DEF LInv
  <2> QED BY <2>1, <2>2, StepContinues, ContinuesKeepsAInv, CreateLockKeepsAInv,
             DestroyKeepsAInv, Zenon
<1> QED BY <1>1, <1>2, Zenon

LEMMA AInvInit == Init => AInv
  BY Zenon DEF Init, AInv, NoQueueYet, Apart, Looked, Constructing

(* Without an overlap, the constructors of a label work under one semaphore, *)
(* the one that the label names.                                            *)
THEOREM ConstructorsShareTheLock == Spec => []AInv
  BY AInvInit, AInvStep, SemaphoreExcludes, SockInvariant, PTL DEF Spec

(* "call from sock constructor under socket lock": no two constructors     *)
(* check or fill a memory at once, unless some construction has overlapped *)
(* a destruction.                                                          *)
THEOREM ConstructorsExclude == Spec => []InitUnderLock
<1>1. LInv /\ AInv => InitUnderLock
  BY DEF LInv, AInv, SemExclusive, Looked, InitUnderLock, SemHolding, Constructing
<1> QED BY <1>1, SemaphoreExcludes, ConstructorsShareTheLock, PTL

-----------------------------------------------------------------------------
(* What a call kept it has, and between two calls it has nothing.          *)

Outside == Constructing \cup {"none", "user", "unlink_mq"}

KeptAt(u) ==
    /\ kept[u] \subseteq has[u] /\ has[u] \subseteq InternalLocks
    /\ pc[u] \in Outside => has[u] = {}
    /\ pc[u] # "call" => kept[u] = {}

KInv == \A u \in Users : KeptAt(u)

(* A step that leaves what the call has. *)
LEMMA UntouchedKeepsKInv ==
  ASSUME KInv, NEW u \in Users, OthersKept(u), has'[u] = has[u], kept'[u] = kept[u],
         pc[u] # "call", pc'[u] \in Outside => pc[u] \in Outside
  PROVE  KInv'
<1>1. \A v \in Users \ {u} : KeptAt(v)'
  BY Zenon DEF KInv, KeptAt, OthersKept
<1>2. KeptAt(u) /\ kept[u] = {}
  BY Zenon DEF KInv, KeptAt
<1>3. KeptAt(u)'
  BY <1>2, Zenon DEF KeptAt
<1> QED BY <1>1, <1>3, Zenon DEF KInv

LEMMA CallKeepsKInv ==
  ASSUME LInv, KInv, NEW u \in Users, OthersKept(u), Call(u) PROVE KInv'
<1>1. \A v \in Users \ {u} : KeptAt(v)'
  BY Zenon DEF KInv, KeptAt, OthersKept
<1>2. KeptAt(u)
  BY Zenon DEF KInv
<1>3. ASSUME NEW i \in InternalLocks, region_lock(u, i) PROVE KeptAt(u)'
  <2>1. pc'[u] = "call" /\ has'[u] = has[u] \cup {i} /\ kept'[u] = kept[u]
    BY <1>3, Zenon DEF LInv, UserTypes, Goto, At, region_lock
  <2> QED BY <1>2, <2>1, Zenon DEF KeptAt, Outside, Constructing
<1>4. ASSUME NEW i \in InternalLocks, region_unlock(u, i) PROVE KeptAt(u)'
  <2>1. pc'[u] = "call" /\ has'[u] = has[u] \ {i} /\ kept'[u] = kept[u] \ {i}
    BY <1>4, Zenon DEF LInv, UserTypes, Goto, At, region_unlock
  <2> QED BY <1>2, <2>1, Zenon DEF KeptAt, Outside, Constructing
<1>5. ASSUME NEW p \in Paths, call_begin(u, p) PROVE KeptAt(u)'
  <2>1. pc'[u] = "call" /\ has'[u] = has[u] /\ kept'[u] = kept[u]
    BY <1>5, Zenon DEF LInv, UserTypes, Goto, At, call_begin
  <2> QED BY <1>2, <2>1, Zenon DEF KeptAt, Outside, Constructing
<1>6. ASSUME acquire_shmem(u) \/ next_msg(u) PROVE KeptAt(u)'
  <2>1. /\ pc'[u] = "call" /\ has'[u] = has[u]
        /\ kept'[u] = kept[u] \/ kept'[u] = has[u]
    BY <1>6, Zenon DEF LInv, UserTypes, Goto, At, acquire_shmem, next_msg
  <2> QED BY <1>2, <2>1, Zenon DEF KeptAt, Outside, Constructing
<1>7. ASSUME acquire_closed(u) \/ next_msg_null(u) PROVE KeptAt(u)'
  <2>1. pc'[u] \in {"threw", "crashed"} /\ has'[u] = has[u] /\ kept'[u] = {}
    BY <1>7, Zenon DEF LInv, UserTypes, Goto, At, acquire_closed, next_msg_null, Broken
  <2> QED BY <1>2, <2>1, Zenon DEF KeptAt, Outside, Constructing
<1>8. ASSUME call_return(u) PROVE KeptAt(u)'
  <2>1. has[u] = {} /\ kept[u] = {} /\ has'[u] = has[u] /\ kept'[u] = kept[u]
    BY <1>2, <1>8, Zenon DEF LInv, UserTypes, Goto, At, call_return, call, KeptAt
  <2> QED BY <1>2, <2>1, Zenon DEF KeptAt
<1>9. KeptAt(u)'
  BY <1>3, <1>4, <1>5, <1>6, <1>7, <1>8, Zenon DEF Call
<1> QED BY <1>1, <1>9, Zenon DEF KInv

LEMMA KInvStep ==
  ASSUME SInv, LInv, KInv, [Next]_vars PROVE KInv'
<1>1. CASE UNCHANGED vars
  BY <1>1, Zenon DEF vars, call, KInv, KeptAt
<1>2. CASE Next
  <2>1. PICK u \in Users : Construct(u) \/ sock_lock(u) \/ Call(u) \/ Destroy(u)
    BY <1>2, Zenon DEF Next
  <2>2. OthersKept(u)
    BY <2>1, StepIsLocal, Zenon DEF LInv
  <2>3. CASE Call(u)
    BY <2>2, <2>3, CallKeepsKInv, Zenon
  <2>4. CASE Construct(u) \/ sock_lock(u)
    <3> USE DEF LInv, UserTypes, Goto, call, Outside, Constructing
    <3>1. has'[u] = has[u] /\ kept'[u] = kept[u]
      BY <2>4, Zenon DEF Construct, create_lock, shm_open, reopen_unlinked, reopen_init,
                  load_shmem, init_shmem, create_mq, sock_lock
    <3>2. CASE create_lock(u) \/ shm_open(u) \/ reopen_unlinked(u) \/ reopen_init(u)
      <4>1. pc[u] \in Outside /\ pc[u] # "call"
        BY <3>2, Zenon DEF create_lock, shm_open, reopen_unlinked, reopen_init
      <4> QED BY <2>2, <3>1, <4>1, UntouchedKeepsKInv, Zenon
    <3>3. CASE load_shmem(u) \/ init_shmem(u) \/ create_mq(u)
      <4>1. pc[u] \in Outside /\ pc[u] # "call"
        BY <3>3, Zenon DEF load_shmem, init_shmem, create_mq
      <4> QED BY <2>2, <3>1, <4>1, UntouchedKeepsKInv, Zenon
    <3>4. CASE sock_lock(u)
      <4>1. pc[u] # "call" /\ (pc'[u] \in Outside => pc[u] \in Outside)
        BY <3>4, Zenon DEF sock_lock
      <4> QED BY <2>2, <3>1, <4>1, UntouchedKeepsKInv, Zenon
    <3> QED BY <2>4, <3>2, <3>3, <3>4, Zenon DEF Construct
  <2>5. CASE Destroy(u) /\ ~mark_unlinked(u)
    <3> USE DEF LInv, UserTypes, Goto, call, Outside, Constructing
    <3>1. has'[u] = has[u] /\ kept'[u] = kept[u]
      BY <2>5, Zenon DEF Destroy, destroy, lock_internal, sem_unlink, shm_unlink, mq_unlink
    <3>2. pc[u] # "call" /\ (pc'[u] \in Outside => pc[u] \in Outside)
      BY <2>5, Zenon DEF Destroy, destroy, lock_internal, sem_unlink, shm_unlink, mq_unlink
    <3> QED BY <2>2, <3>1, <3>2, UntouchedKeepsKInv, Zenon
  <2>6. CASE mark_unlinked(u)
    <3>1. /\ pc[u] = "mark" /\ has'[u] = {} /\ kept'[u] = kept[u]
      BY <2>6, Zenon DEF mark_unlinked, LInv, UserTypes
    <3>2. kept[u] = {}
      BY <3>1, Zenon DEF KInv, KeptAt
    <3>3. KeptAt(u)'
      BY <3>1, <3>2, Zenon DEF KeptAt
    <3>4. \A v \in Users \ {u} : KeptAt(v)'
      BY <2>2, Zenon DEF KInv, KeptAt, OthersKept
    <3> QED BY <3>3, <3>4, Zenon DEF KInv
  <2> QED BY <2>1, <2>3, <2>4, <2>5, <2>6, Zenon
<1> QED BY <1>1, <1>2, Zenon

(* A call keeps only locks it has, and ends without any, whatever its path. *)
THEOREM CallsReturnLocks == Spec => []KInv
<1>1. Init => KInv
  BY Zenon DEF Init, KInv, KeptAt
<1> QED BY <1>1, KInvStep, SockInvariant, SemaphoreExcludes, PTL DEF Spec

-----------------------------------------------------------------------------
(* As long as no construction has overlapped a destruction, a sock in use  *)
(* maps a memory that was filled, and each internal lock of a memory is    *)
(* held by at most one call or destructor.  A lock that a call had when it  *)
(* threw keeps the value 0 for good and is held by nobody.                 *)

Using == {"user", "call", "threw",
          "closing", "locking", "unlink", "unlink_shm", "mark"}

\* A constructor with the memory mapped
Filling == {"check", "init", "queue"}

MappedAt(u) ==
    /\ pc[u] \in Using \cup Filling => mem[u] \in 1 .. Len(mems)
    /\ pc[u] \in Using => Mem(u).state \in {"OK", "UNLINKED"}
    /\ pc[u] \in Filling => mem[u] = shm_name
    /\ pc[u] = "init" => Mem(u).state = "UNITILIZATED"
    /\ pc[u] = "queue" => Mem(u).state = "OK"
    /\ pc[u] = "call" /\ kept[u] # {} => Mem(u).state = "OK"
    /\ pc[u] = "locking" => next[u] \in InternalLocks

Mapped == \A u \in Users : MappedAt(u)

Holds(u, i) ==
    \/ pc[u] = "call" /\ i \in has[u]
    \/ pc[u] = "locking" /\ i < next[u]
    \/ pc[u] \in {"unlink", "unlink_shm", "mark"}

LockExclusive ==
    /\ \A k \in 1 .. Len(mems) : \A i \in InternalLocks : mems[k].locks[i] \in {0, 1}
    /\ \A u \in Users : \A i \in InternalLocks : Holds(u, i) => Mem(u).locks[i] = 0
    /\ \A u, v \in Users : \A i \in InternalLocks :
          Holds(u, i) /\ Holds(v, i) /\ mem[u] = mem[v] => u = v

MInv == ~overlap => Mapped /\ LockExclusive

(* Who holds an internal lock is a user of the memory. *)
LEMMA HolderUses ==
  ASSUME NEW u \in Users, NEW i, Holds(u, i) PROVE pc[u] \in Using
  BY Zenon DEF Holds, Using

(* At most one constructor has a memory mapped. *)
LEMMA OneFills ==
  ASSUME LInv, Looked, NEW u \in Users, NEW v \in Users,
         pc[u] \in Filling \cup {"open"}, pc[v] \in Filling \cup {"open"}
  PROVE  u = v
  BY DEF LInv, Looked, SemExclusive, SemHolding, Filling, Constructing

(* What the other users see of a step that writes no memory they map. *)
LEMMA OtherMapped ==
  ASSUME Mapped, NEW u \in Users, OthersKept(u), NEW v \in Users \ {u},
         Len(mems) \in Nat, Len(mems') \in Nat, Len(mems) <= Len(mems'),
         pc[v] \in Using \cup Filling => mems'[mem[v]].state = mems[mem[v]].state,
         pc[v] \in Filling => shm_name' = shm_name
  PROVE  MappedAt(v)'
<1>1. /\ pc'[v] = pc[v] /\ mem'[v] = mem[v] /\ MappedAt(v)
      /\ next'[v] = next[v] /\ has'[v] = has[v] /\ kept'[v] = kept[v]
  BY Zenon DEF OthersKept, Mapped
<1> QED BY <1>1 DEF MappedAt, Mem, Using, Filling

(* A step that takes and releases no internal lock. *)
LEMMA QuietKeepsMInv ==
  ASSUME Mapped, LockExclusive, NEW u \in Users, OthersKept(u),
         Len(mems) \in Nat, Len(mems') \in Nat, Len(mems) <= Len(mems'),
         \A k \in 1 .. Len(mems) : mems'[k] = mems[k],
         \A k \in 1 .. Len(mems') : \A i \in InternalLocks :
            k \notin 1 .. Len(mems) => mems'[k].locks[i] = 0,
         shm_name' = shm_name \/ \A v \in Users \ {u} : pc[v] \notin Filling,
         \A i \in InternalLocks : Holds(u, i)' => Holds(u, i) /\ mem'[u] = mem[u],
         MappedAt(u)'
  PROVE  Mapped' /\ LockExclusive'
<1>1. \A v \in Users \ {u} : /\ pc'[v] = pc[v] /\ mem'[v] = mem[v] /\ next'[v] = next[v] /\ has'[v] = has[v]
  BY Zenon DEF OthersKept
<1>2. ASSUME NEW v \in Users PROVE MappedAt(v)'
  <2>1. ASSUME v # u PROVE pc[v] \in Using \cup Filling => mems'[mem[v]] = mems[mem[v]]
    BY Zenon DEF Mapped, MappedAt
  <2> QED BY <2>1, OtherMapped, Zenon
<1>3. ASSUME NEW v \in Users, NEW i \in InternalLocks, Holds(v, i)'
      PROVE  Holds(v, i) /\ mem'[v] = mem[v] /\ mems'[mem[v]] = mems[mem[v]]
  <2>1. Holds(v, i) /\ mem'[v] = mem[v]
    BY <1>1, <1>3, Zenon DEF Holds
  <2>2. mem[v] \in 1 .. Len(mems)
    BY <2>1, HolderUses, Zenon DEF Mapped, MappedAt
  <2> QED BY <2>1, <2>2, Zenon
<1>4. LockExclusive'
  <2>1. \A k \in 1 .. Len(mems') : \A i \in InternalLocks : mems'[k].locks[i] \in {0, 1}
    BY Zenon DEF LockExclusive
  <2>2. \A v \in Users : \A i \in InternalLocks : Holds(v, i)' => (Mem(v).locks[i])' = 0
    BY <1>3 DEF LockExclusive, Mem
  <2>3. \A v, w \in Users : \A i \in InternalLocks :
          Holds(v, i)' /\ Holds(w, i)' /\ mem'[v] = mem'[w] => v = w
    BY <1>3 DEF LockExclusive
  <2> QED BY <2>1, <2>2, <2>3, Zenon DEF LockExclusive
<1> QED BY <1>2, <1>4, Zenon DEF Mapped

LockSet(k, i, x) == mems' = [mems EXCEPT ![k].locks[i] = x]

(* One internal lock taken or released leaves the others. *)
LEMMA LockWritten ==
  ASSUME MemTypes, NEW k \in 1 .. Len(mems), NEW i \in InternalLocks, NEW x \in Int,
         LockSet(k, i, x)
  PROVE  /\ Len(mems') = Len(mems)
         /\ \A j \in 1 .. Len(mems) : mems'[j].state = mems[j].state
         /\ mems'[k].locks[i] = x
         /\ \A j \in 1 .. Len(mems) : \A n \in InternalLocks :
               j # k \/ n # i => mems'[j].locks[n] = mems[j].locks[n]
<1> DEFINE r == [mems[k] EXCEPT !.locks[i] = x]
<1>1. mems[k] \in Memory
  BY LenProperties, Zenon DEF MemTypes
<1>2. /\ r \in Memory /\ r.state = mems[k].state
      /\ r.locks[i] = x /\ \A n \in InternalLocks \ {i} : r.locks[n] = mems[k].locks[n]
  BY <1>1, Zenon DEF Memory
<1>3. mems' = [mems EXCEPT ![k] = r]
  BY Zenon DEF LockSet
<1> HIDE DEF r
<1>4. /\ Len(mems') = Len(mems)
      /\ \A j \in 1 .. Len(mems) : mems'[j] = IF j = k THEN r ELSE mems[j]
  BY <1>2, <1>3, OneWritten
<1> QED BY <1>2, <1>4, Zenon

(* A free lock is taken: nobody held it. *)
LEMMA TakeKeepsMInv ==
  ASSUME SInv, Mapped, LockExclusive, NEW u \in Users, OthersKept(u),
         pc[u] \in {"call", "locking"},
         UNCHANGED <<mem, shm_name>>, NEW i \in InternalLocks, Mem(u).locks[i] > 0,
         mems' = [mems EXCEPT ![mem[u]].locks[i] = Mem(u).locks[i] - 1],
         \A n \in InternalLocks : Holds(u, n)' => Holds(u, n) \/ n = i,
         \/ pc'[u] = "call" /\ pc[u] = "call" /\ kept'[u] = kept[u]
         \/ pc'[u] = "locking" /\ next'[u] \in InternalLocks
         \/ pc'[u] = "unlink"
  PROVE  Mapped' /\ LockExclusive'
<1>1. MemTypes /\ mem[u] \in 1 .. Len(mems) /\ Mem(u).state \in {"OK", "UNLINKED"}
  BY Zenon DEF SInv, Mapped, MappedAt, Using
<1>2. Mem(u).locks[i] = 1
  BY <1>1 DEF LockExclusive, Mem
<1>3. /\ Len(mems') = Len(mems)
      /\ \A j \in 1 .. Len(mems) : mems'[j].state = mems[j].state
      /\ mems'[mem[u]].locks[i] = 0
      /\ \A j \in 1 .. Len(mems) : \A n \in InternalLocks :
            j # mem[u] \/ n # i => mems'[j].locks[n] = mems[j].locks[n]
  <2>1. Mem(u).locks[i] - 1 = 0 /\ Mem(u).locks[i] - 1 \in Int
    BY <1>2
  <2>2. /\ Len(mems') = Len(mems)
        /\ \A j \in 1 .. Len(mems) : mems'[j].state = mems[j].state
        /\ mems'[mem[u]].locks[i] = Mem(u).locks[i] - 1
        /\ \A j \in 1 .. Len(mems) : \A n \in InternalLocks :
              j # mem[u] \/ n # i => mems'[j].locks[n] = mems[j].locks[n]
    <3>1. LockSet(mem[u], i, Mem(u).locks[i] - 1)
      BY Zenon DEF LockSet
    <3> QED BY <1>1, <2>1, <3>1, LockWritten, Zenon
  <2> QED BY <2>1, <2>2, Zenon
<1>4. Len(mems) \in Nat
  BY <1>1, LenProperties, Zenon DEF MemTypes
<1>5. \A v \in Users \ {u} : pc'[v] = pc[v] /\ next'[v] = next[v] /\ has'[v] = has[v]
  BY Zenon DEF OthersKept
<1>6. ASSUME NEW v \in Users PROVE MappedAt(v)'
  <2>1. CASE v = u
    <3>1. MappedAt(u)
      BY Zenon DEF Mapped
    <3> QED BY <1>1, <1>3, <2>1, <3>1, Zenon DEF MappedAt, Mem, Using, Filling
  <2>2. CASE v # u
    <3>1. pc[v] \in Using \cup Filling => mem[v] \in 1 .. Len(mems)
      BY Zenon DEF Mapped, MappedAt
    <3> QED BY <1>3, <1>4, <2>2, <3>1, OtherMapped
  <2> QED BY <2>1, <2>2, Zenon
<1>7. ASSUME NEW v \in Users, NEW n \in InternalLocks, Holds(v, n)'
      PROVE  /\ Holds(v, n) \/ (v = u /\ n = i)
             /\ mem[v] \in 1 .. Len(mems)
             /\ Holds(v, n) => mem[v] # mem[u] \/ n # i
  <2>1. Holds(v, n) \/ (v = u /\ n = i)
    BY <1>5, <1>7, Zenon DEF Holds
  <2>2. Holds(v, n) => mem[v] \in 1 .. Len(mems)
    BY HolderUses, Zenon DEF Mapped, MappedAt
  <2>3. Holds(v, n) => mem[v] # mem[u] \/ n # i
    BY <1>2 DEF LockExclusive, Mem
  <2> QED BY <1>1, <2>1, <2>2, <2>3, Zenon
<1>8. LockExclusive'
  <2>1. \A k \in 1 .. Len(mems') : \A n \in InternalLocks : mems'[k].locks[n] \in {0, 1}
    BY <1>3 DEF LockExclusive
  <2>2. ASSUME NEW v \in Users, NEW n \in InternalLocks, Holds(v, n)'
        PROVE  (Mem(v).locks[n])' = 0
    <3>1. Holds(v, n) => mems[mem[v]].locks[n] = 0
      BY Zenon DEF LockExclusive, Mem
    <3> QED BY <1>3, <1>7, <2>2, <3>1 DEF Mem
  <2>3. ASSUME NEW v \in Users, NEW w \in Users, NEW n \in InternalLocks,
               Holds(v, n)', Holds(w, n)', mem'[v] = mem'[w]
        PROVE  v = w
    <3>1. /\ Holds(v, n) \/ (v = u /\ n = i)
          /\ Holds(w, n) \/ (w = u /\ n = i)
          /\ Holds(v, n) => mem[v] # mem[u] \/ n # i
          /\ Holds(w, n) => mem[w] # mem[u] \/ n # i
      BY <1>7, <2>3, Zenon
    <3>2. Holds(v, n) /\ Holds(w, n) => v = w
      BY <2>3, Zenon DEF LockExclusive
    <3> QED BY <2>3, <3>1, <3>2, Zenon
  <2> QED BY <2>1, <2>2, <2>3, Zenon DEF LockExclusive
<1> QED BY <1>6, <1>8, Zenon DEF Mapped

(* mem_put or mem_ctl::call: a lock the call had is free again. *)
LEMMA ReleaseKeepsMInv ==
  ASSUME SInv, LInv, Mapped, LockExclusive, NEW u \in Users, OthersKept(u),
         NEW i \in InternalLocks, region_unlock(u, i)
  PROVE  Mapped' /\ LockExclusive'
<1>1. /\ pc[u] = "call" /\ pc'[u] = "call" /\ UNCHANGED <<mem, shm_name>> /\ i \in has[u]
      /\ has'[u] = has[u] \ {i} /\ kept'[u] = kept[u] \ {i}
      /\ mems' = [mems EXCEPT ![mem[u]].locks[i] = Mem(u).locks[i] + 1]
  BY Zenon DEF region_unlock, At, names, members, Mem, LInv, UserTypes
<1>2. /\ MemTypes /\ mem[u] \in 1 .. Len(mems) /\ MappedAt(u)
      /\ Mem(u).state \in {"OK", "UNLINKED"}
  BY <1>1, Zenon DEF SInv, Mapped, MappedAt, Using
<1>3. Holds(u, i) /\ Mem(u).locks[i] = 0
  BY <1>1, <1>2, Zenon DEF LockExclusive, Holds
<1>4. /\ Len(mems') = Len(mems)
      /\ \A j \in 1 .. Len(mems) : mems'[j].state = mems[j].state
      /\ mems'[mem[u]].locks[i] = 1
      /\ \A j \in 1 .. Len(mems) : \A n \in InternalLocks :
            j # mem[u] \/ n # i => mems'[j].locks[n] = mems[j].locks[n]
  <2>1. Mem(u).locks[i] + 1 = 1 /\ Mem(u).locks[i] + 1 \in Int
    BY <1>1, <1>3
  <2>2. /\ Len(mems') = Len(mems)
        /\ \A j \in 1 .. Len(mems) : mems'[j].state = mems[j].state
        /\ mems'[mem[u]].locks[i] = Mem(u).locks[i] + 1
        /\ \A j \in 1 .. Len(mems) : \A n \in InternalLocks :
              j # mem[u] \/ n # i => mems'[j].locks[n] = mems[j].locks[n]
    <3>1. LockSet(mem[u], i, Mem(u).locks[i] + 1)
      BY <1>1, Zenon DEF LockSet
    <3> QED BY <1>2, <2>1, <3>1, LockWritten, Zenon
  <2> QED BY <2>1, <2>2, Zenon
<1>5. Len(mems) \in Nat
  BY <1>2, LenProperties, Zenon DEF MemTypes
<1>6. \A v \in Users \ {u} : pc'[v] = pc[v] /\ next'[v] = next[v] /\ has'[v] = has[v]
  BY Zenon DEF OthersKept
<1>7. ASSUME NEW v \in Users PROVE MappedAt(v)'
  <2>1. CASE v = u
    <3>1. kept'[u] # {} => kept[u] # {}
      BY <1>1, Zenon
    <3> QED BY <1>1, <1>2, <1>4, <2>1, <3>1, Zenon DEF MappedAt, Mem, Using, Filling
  <2>2. CASE v # u
    <3>1. pc[v] \in Using \cup Filling => mem[v] \in 1 .. Len(mems)
      BY Zenon DEF Mapped, MappedAt
    <3> QED BY <1>1, <1>4, <1>5, <2>2, <3>1, OtherMapped
  <2> QED BY <2>1, <2>2, Zenon
<1>8. ASSUME NEW v \in Users, NEW n \in InternalLocks, Holds(v, n)'
      PROVE  /\ Holds(v, n) /\ mem[v] \in 1 .. Len(mems)
             /\ mem[v] # mem[u] \/ n # i
  <2>1. v = u => Holds(v, n) /\ n # i
    BY <1>1, <1>8, Zenon DEF Holds
  <2>2. v # u => Holds(v, n)
    BY <1>6, <1>8, Zenon DEF Holds
  <2>3. mem[v] \in 1 .. Len(mems)
    BY <2>1, <2>2, HolderUses, Zenon DEF Mapped, MappedAt
  <2> QED BY <1>3, <2>1, <2>2, <2>3, Zenon DEF LockExclusive
<1>9. LockExclusive'
  <2>1. \A k \in 1 .. Len(mems') : \A n \in InternalLocks : mems'[k].locks[n] \in {0, 1}
    BY <1>4 DEF LockExclusive
  <2>2. ASSUME NEW v \in Users, NEW n \in InternalLocks, Holds(v, n)'
        PROVE  (Mem(v).locks[n])' = 0
    BY <1>1, <1>4, <1>8, <2>2 DEF Mem, LockExclusive
  <2>3. ASSUME NEW v \in Users, NEW w \in Users, NEW n \in InternalLocks,
               Holds(v, n)', Holds(w, n)', mem'[v] = mem'[w]
        PROVE  v = w
    BY <1>1, <1>8, <2>3, Zenon DEF LockExclusive
  <2> QED BY <2>1, <2>2, <2>3, Zenon DEF LockExclusive
<1> QED BY <1>7, <1>9, Zenon DEF Mapped

(* __init_shmem and the end of ~sock write a whole memory.  Its locks are   *)
(* free afterwards, and nobody holds one.                                  *)
LEMMA FillKeepsMInv ==
  ASSUME SInv, Mapped, LockExclusive, NEW u \in Users, OthersKept(u),
         NEW r \in Memory, mem[u] \in 1 .. Len(mems),
         mems' = [mems EXCEPT ![mem[u]] = r], UNCHANGED shm_name,
         \A i \in InternalLocks : r.locks[i] = 1,
         \A i \in InternalLocks : ~Holds(u, i)',
         \A v \in Users \ {u} : \A i \in InternalLocks : mem[v] = mem[u] => ~Holds(v, i),
         \A v \in Users \ {u} :
            mem[v] = mem[u] => /\ pc[v] \notin Filling /\ (pc[v] = "call" => kept[v] = {})
                               /\ pc[v] \in Using => r.state \in {"OK", "UNLINKED"},
         MappedAt(u)'
  PROVE  Mapped' /\ LockExclusive'
<1>1. /\ Len(mems') = Len(mems) /\ Len(mems) \in Nat
      /\ mems'[mem[u]] = r
      /\ \A j \in 1 .. Len(mems) : j # mem[u] => mems'[j] = mems[j]
  BY OneWritten, LenProperties DEF SInv, MemTypes
<1>2. \A v \in Users \ {u} : /\ pc'[v] = pc[v] /\ mem'[v] = mem[v] /\ next'[v] = next[v]
                             /\ has'[v] = has[v] /\ kept'[v] = kept[v]
  BY Zenon DEF OthersKept
<1>3. ASSUME NEW v \in Users \ {u} PROVE MappedAt(v)'
  <2>1. MappedAt(v)
    BY Zenon DEF Mapped
  <2>2. CASE mem[v] # mem[u]
    <3>1. pc[v] \in Using \cup Filling => mems'[mem[v]] = mems[mem[v]]
      BY <1>1, <2>1, <2>2, Zenon DEF MappedAt
    <3> QED BY <1>1, <3>1, OtherMapped
  <2>3. CASE mem[v] = mem[u]
    BY <1>1, <1>2, <2>1, <2>3 DEF MappedAt, Mem, Using, Filling
  <2> QED BY <2>2, <2>3, Zenon
<1>4. ASSUME NEW v \in Users, NEW i \in InternalLocks, Holds(v, i)'
      PROVE  Holds(v, i) /\ mem'[v] = mem[v] /\ mems'[mem[v]] = mems[mem[v]]
  <2>1. v # u
    BY <1>4, Zenon
  <2>2. Holds(v, i) /\ mem'[v] = mem[v]
    BY <1>2, <1>4, <2>1, Zenon DEF Holds
  <2>3. mem[v] \in 1 .. Len(mems) /\ mem[v] # mem[u]
    BY <2>1, <2>2, HolderUses, Zenon DEF Mapped, MappedAt
  <2> QED BY <1>1, <2>2, <2>3, Zenon
<1>5. LockExclusive'
  <2>1. ASSUME NEW k \in 1 .. Len(mems'), NEW i \in InternalLocks
        PROVE  mems'[k].locks[i] \in {0, 1}
    <3>1. CASE k = mem[u]
      BY <1>1, <3>1, Zenon
    <3>2. CASE k # mem[u]
      BY <1>1, <3>2, Zenon DEF LockExclusive
    <3> QED BY <3>1, <3>2, Zenon
  <2>2. \A v \in Users : \A i \in InternalLocks : Holds(v, i)' => (Mem(v).locks[i])' = 0
    BY <1>4 DEF LockExclusive, Mem
  <2>3. \A v, w \in Users : \A i \in InternalLocks :
          Holds(v, i)' /\ Holds(w, i)' /\ mem'[v] = mem'[w] => v = w
    BY <1>4 DEF LockExclusive
  <2> QED BY <2>1, <2>2, <2>3, Zenon DEF LockExclusive
<1> QED BY <1>3, <1>5, Zenon DEF Mapped

LEMMA InitShmemKeepsMInv ==
  ASSUME SInv, LInv, Apart, Looked, Mapped, LockExclusive, NEW u \in Users,
         OthersKept(u), init_shmem(u)
  PROVE  Mapped' /\ LockExclusive'
<1> DEFINE r == [state |-> "OK", locks |-> [i \in InternalLocks |-> 1]]
<1>1. /\ pc[u] = "init" /\ pc'[u] = "queue" /\ UNCHANGED <<mem, shm_name>>
      /\ mems' = [mems EXCEPT ![mem[u]] = r]
  BY Zenon DEF init_shmem, Goto, names, members, LInv, UserTypes
<1>2. r \in Memory /\ r.state = "OK" /\ \A i \in InternalLocks : r.locks[i] = 1
  BY DEF Memory
<1> HIDE DEF r
<1>3. /\ mem[u] \in 1 .. Len(mems) /\ mem[u] = shm_name /\ Mem(u).state = "UNITILIZATED"
  BY <1>1, Zenon DEF Mapped, MappedAt, Filling
<1>4. \A v \in Users \ {u} : mem[v] = mem[u] => pc[v] \notin Using
  BY <1>3, Zenon DEF Mapped, MappedAt, Mem
<1>5. \A v \in Users \ {u} : pc[v] \notin Filling
  BY <1>1, OneFills, Zenon DEF Filling
<1>6. \A v \in Users \ {u} : \A i \in InternalLocks : mem[v] = mem[u] => ~Holds(v, i)
  BY <1>4, HolderUses, Zenon
<1>7. \A i \in InternalLocks : ~Holds(u, i)'
  BY <1>1, Zenon DEF Holds
<1>8. MappedAt(u)'
  <2>1. mems'[mem[u]] = r /\ Len(mems') = Len(mems)
    BY <1>1, <1>2, <1>3, OneWritten DEF SInv
  <2> QED BY <1>1, <1>2, <1>3, <2>1, Zenon DEF MappedAt, Mem, Using, Filling
<1>9. \A v \in Users \ {u} :
        mem[v] = mem[u] => /\ pc[v] \notin Filling /\ (pc[v] = "call" => kept[v] = {})
                           /\ pc[v] \in Using => r.state \in {"OK", "UNLINKED"}
  BY <1>4, <1>5, Zenon DEF Using
<1> QED BY <1>1, <1>2, <1>3, <1>6, <1>7, <1>8, <1>9, FillKeepsMInv, Zenon

(* ~sock holds every internal lock of the memory it marks. *)
LEMMA MarkKeepsMInv ==
  ASSUME SInv, LInv, KInv, Apart, Mapped, LockExclusive, NEW u \in Users,
         OthersKept(u), mark_unlinked(u)
  PROVE  Mapped' /\ LockExclusive'
<1> DEFINE r == [state |-> "UNLINKED",
                 locks |-> [i \in InternalLocks |-> mems[mem[u]].locks[i] + 1]]
<1>1. /\ pc[u] = "mark" /\ pc'[u] \in {"none", "unlink_mq"} /\ UNCHANGED shm_name
      /\ mems' = [mems EXCEPT ![mem[u]] = r]
  BY Zenon DEF mark_unlinked, Goto, names, LInv, UserTypes
<1>2. mem[u] \in 1 .. Len(mems)
  BY <1>1, Zenon DEF Mapped, MappedAt, Using
<1>3. \A i \in InternalLocks : Holds(u, i) /\ mems[mem[u]].locks[i] = 0
  BY <1>1, Zenon DEF LockExclusive, Holds, Mem
<1>4. r \in Memory /\ r.state = "UNLINKED" /\ \A i \in InternalLocks : r.locks[i] = 1
  BY <1>3 DEF Memory
<1> HIDE DEF r
<1>5. \A v \in Users \ {u} : \A i \in InternalLocks : mem[v] = mem[u] => ~Holds(v, i)
  BY <1>3, Zenon DEF LockExclusive
<1>6. \A i \in InternalLocks : ~Holds(u, i)'
  BY <1>1, Zenon DEF Holds
<1>7. MappedAt(u)'
  BY <1>1, Zenon DEF MappedAt, Using, Filling
<1>8. ASSUME NEW v \in Users \ {u}, mem[v] = mem[u]
      PROVE  pc[v] \notin Filling /\ (pc[v] = "call" => kept[v] = {})
  <2>1. pc[v] \notin Filling
    BY <1>1, Zenon DEF Apart, Filling, Constructing, Destroying
  <2>2. pc[v] = "call" => \A i \in kept[v] : i \in InternalLocks /\ Holds(v, i)
    BY Zenon DEF KInv, KeptAt, Holds
  <2> QED BY <1>5, <1>8, <2>1, <2>2, Zenon
<1> QED BY <1>1, <1>2, <1>4, <1>5, <1>6, <1>7, <1>8, FillKeepsMInv, Zenon

(* overlap is a history. *)
LEMMA OverlapStays ==
  ASSUME SInv, LInv, NEW u \in Users,
         Construct(u) \/ sock_lock(u) \/ Call(u) \/ Destroy(u), ~overlap'
  PROVE  ~overlap
<1>1. CASE create_lock(u)
  <2>1. overlap' = (overlap \/ \E v \in Users : pc[v] \in Destroying)
    BY <1>1, Zenon DEF create_lock
  <2> QED BY <2>1, Zenon
<1>2. CASE destroy(u)
  <2>1. overlap' = (overlap \/ \E v \in Users : pc[v] \in Constructing)
    BY <1>2, Zenon DEF destroy
  <2> QED BY <2>1, Zenon
<1>3. CASE ~create_lock(u) /\ ~destroy(u)
  <2>1. overlap' = overlap
    BY <1>3, StepIsLocal, StepContinues, Zenon DEF LInv, Continues
  <2> QED BY <2>1, Zenon
<1> QED BY <1>1, <1>2, <1>3, Zenon

(* Constructing, up to the internal locks. *)
LEMMA ConstructKeepsMInv ==
  ASSUME SInv, LInv, Apart, Looked, Mapped, LockExclusive, NEW u \in Users, OthersKept(u),
         \/ create_lock(u) \/ sock_lock(u) \/ shm_open(u) \/ reopen_unlinked(u)
         \/ reopen_init(u) \/ load_shmem(u) \/ create_mq(u)
  PROVE  Mapped' /\ LockExclusive'
<1>1. Len(mems) \in Nat /\ mems \in Seq(Memory) /\ DOMAIN mem = Users
  BY LenProperties, Zenon DEF SInv, MemTypes
<1>2. CASE \/ create_lock(u) \/ sock_lock(u) \/ reopen_unlinked(u)
           \/ reopen_init(u) \/ load_shmem(u) \/ create_mq(u)
  <2>1. UNCHANGED <<mems, shm_name>>
    BY <1>2, Zenon DEF create_lock, sock_lock, reopen_unlinked, reopen_init, load_shmem,
                create_mq, names, objects
  <2>2. \A i \in InternalLocks : ~Holds(u, i)'
    <3>1. \/ pc'[u] \in {"lock", "open", "init", "user"}
          \/ pc'[u] = "locking" /\ next'[u] = 1
      BY <1>2, Zenon DEF create_lock, sock_lock, reopen_unlinked, reopen_init, load_shmem,
                  create_mq, Goto, LInv, UserTypes
    <3>2. ASSUME NEW i \in InternalLocks PROVE ~Holds(u, i)'
      <4>1. ~(i < 1)
        BY <3>2, SockAssumption DEF InternalLocks
      <4>2. CASE pc'[u] \in {"lock", "open", "init", "user"}
        BY <4>2, Zenon DEF Holds
      <4>3. CASE pc'[u] = "locking" /\ next'[u] = 1
        BY <4>1, <4>3, Zenon DEF Holds
      <4> QED BY <3>1, <4>2, <4>3, Zenon
    <3> QED BY <3>2, Zenon
  <2>3. MappedAt(u)'
    <3>1. MappedAt(u)
      BY Zenon DEF Mapped
    <3>2. CASE create_lock(u) \/ reopen_unlinked(u)
      <4>1. pc'[u] = "lock"
        BY <3>2, Zenon DEF create_lock, reopen_unlinked, Goto, LInv, UserTypes
      <4> QED BY <4>1, Zenon DEF MappedAt, Using, Filling
    <3>3. CASE sock_lock(u)
      <4>1. /\ mem' = mem
            /\ \/ pc'[u] = "open"
               \/ pc[u] = "closing" /\ pc'[u] = "locking" /\ next'[u] = 1
        BY <3>3, Zenon DEF sock_lock, Goto, LInv, UserTypes
      <4>2. 1 \in InternalLocks
        BY SockAssumption DEF InternalLocks
      <4> QED BY <2>1, <3>1, <4>1, <4>2, Zenon DEF MappedAt, Mem, Using, Filling
    <3>4. CASE reopen_init(u) \/ load_shmem(u) \/ create_mq(u)
      <4>1. /\ mem' = mem
            /\ \/ pc[u] = "check" /\ pc'[u] = "init" /\ Mem(u).state = "UNITILIZATED"
               \/ pc[u] = "check" /\ pc'[u] = "user" /\ Mem(u).state = "OK"
               \/ pc[u] = "queue" /\ pc'[u] = "user"
        BY <3>4, Zenon DEF reopen_init, load_shmem, create_mq, Goto, members, LInv, UserTypes
      <4> QED BY <2>1, <3>1, <4>1, Zenon DEF MappedAt, Mem, Using, Filling
    <3> QED BY <1>2, <3>2, <3>3, <3>4, Zenon
  <2> QED BY <1>1, <2>1, <2>2, <2>3, QuietKeepsMInv
<1>3. CASE shm_open(u)
  <2> DEFINE r == [state |-> "UNITILIZATED", locks |-> [i \in InternalLocks |-> 0]]
  <2>1. /\ pc[u] = "open" /\ pc'[u] = "check" /\ mem'[u] = shm_name'
        /\ \/ mems' = Append(mems, r) /\ shm_name' = Len(mems) + 1
           \/ shm_name # NoObject /\ mems' = mems /\ shm_name' = shm_name
    BY <1>1, <1>3, Zenon DEF shm_open, Goto, LInv, UserTypes
  <2>2. r \in Memory /\ \A i \in InternalLocks : r.locks[i] = 0
    BY DEF Memory
  <2> HIDE DEF r
  <2>3. /\ Len(mems') \in Nat /\ Len(mems) <= Len(mems')
        /\ \A k \in 1 .. Len(mems) : mems'[k] = mems[k]
        /\ \A k \in 1 .. Len(mems') : \A i \in InternalLocks :
              k \notin 1 .. Len(mems) => mems'[k].locks[i] = 0
        /\ shm_name' \in 1 .. Len(mems')
    <3>1. CASE mems' = mems /\ shm_name' = shm_name /\ shm_name # NoObject
      BY <1>1, <3>1 DEF SInv, MemTypes, NoObject
    <3>2. CASE mems' = Append(mems, r) /\ shm_name' = Len(mems) + 1
      <4>1. /\ Len(mems') = Len(mems) + 1 /\ mems'[Len(mems) + 1] = r
            /\ \A k \in 1 .. Len(mems) : mems'[k] = mems[k]
        BY <1>1, <2>2, <3>2, AppendProperties
      <4> QED BY <1>1, <2>2, <3>2, <4>1
    <3> QED BY <2>1, <3>1, <3>2, Zenon
  <2>4. \A v \in Users \ {u} : pc[v] \notin Filling
    BY <2>1, OneFills, Zenon
  <2>5. \A i \in InternalLocks : ~Holds(u, i)'
    BY <2>1, Zenon DEF Holds
  <2>6. MappedAt(u)'
    BY <2>1, <2>3, Zenon DEF MappedAt, Using, Filling
  <2> QED BY <1>1, <2>3, <2>4, <2>5, <2>6, QuietKeepsMInv, Zenon
<1> QED BY <1>2, <1>3, Zenon

(* The steps of ~sock that take no lock. *)
LEMMA UnlinkStepKeepsMInv ==
  ASSUME SInv, LInv, Apart, Mapped, LockExclusive, NEW u \in Users, OthersKept(u),
         destroy(u) \/ sem_unlink(u) \/ shm_unlink(u) \/ mq_unlink(u)
  PROVE  Mapped' /\ LockExclusive'
<1>1. Len(mems) \in Nat
  BY LenProperties, Zenon DEF SInv, MemTypes
<1>2. UNCHANGED <<mems, mem>>
  BY Zenon DEF destroy, sem_unlink, shm_unlink, mq_unlink, objects, members
<1>3. \/ pc[u] \in {"user", "threw"} /\ pc'[u] = "closing"
      \/ pc[u] = "unlink" /\ pc'[u] = "unlink_shm"
      \/ pc[u] = "unlink_shm" /\ pc'[u] = "mark"
      \/ pc'[u] = "none"
  BY Zenon DEF destroy, sem_unlink, shm_unlink, mq_unlink, Goto, LInv, UserTypes
<1>4. shm_name' = shm_name \/ \A v \in Users \ {u} : pc[v] \notin Filling
  <2>1. shm_name' = shm_name \/ pc[u] = "unlink_shm"
    BY Zenon DEF destroy, sem_unlink, shm_unlink, mq_unlink, names
  <2>2. pc[u] = "unlink_shm" => \A v \in Users : pc[v] \notin Filling
    BY Zenon DEF Apart, Filling, Constructing, Destroying
  <2> QED BY <2>1, <2>2, Zenon
<1>5. \A i \in InternalLocks : Holds(u, i)' => Holds(u, i) /\ mem'[u] = mem[u]
  BY <1>2, <1>3, Zenon DEF Holds
<1>6. MappedAt(u)'
  <2>1. MappedAt(u)
    BY Zenon DEF Mapped
  <2> QED BY <1>2, <1>3, <2>1, Zenon DEF MappedAt, Mem, Using, Filling
<1> QED BY <1>1, <1>2, <1>4, <1>5, <1>6, QuietKeepsMInv

(* The steps of a call that only look: it has the locks it had, and what it *)
(* kept when accquire_shmem lets it pass is on an open memory.             *)
LEMMA LookKeepsMInv ==
  ASSUME SInv, LInv, KInv, Mapped, LockExclusive, NEW u \in Users, OthersKept(u), Looks(u)
  PROVE  Mapped' /\ LockExclusive'
<1>1. Len(mems) \in Nat
  BY LenProperties, Zenon DEF SInv, MemTypes
<1>2. /\ UNCHANGED <<mems, mem, shm_name>>
      /\ pc[u] \in {"user", "call"} /\ pc'[u] \in {"user", "call", "threw", "crashed"}
  BY LooksOnly, Zenon DEF LInv, UserTypes
<1>3. /\ has'[u] = has[u]
      /\ \/ kept'[u] \in {kept[u], {}}
         \/ pc[u] = "call" /\ Mem(u).state # "UNLINKED"
  <2> USE DEF LInv, UserTypes, call, At
  <2>1. ASSUME NEW p \in Paths, call_begin(u, p) PROVE has'[u] = has[u] /\ kept'[u] = kept[u]
    BY <2>1, Zenon DEF call_begin
  <2>2. CASE acquire_shmem(u)
    BY <2>2, Zenon DEF acquire_shmem
  <2>3. CASE acquire_closed(u) \/ next_msg(u) \/ next_msg_null(u) \/ call_return(u)
    BY <2>3, Zenon DEF acquire_closed, next_msg, next_msg_null, call_return
  <2> QED BY <2>1, <2>2, <2>3, Zenon DEF Looks
<1>4. pc[u] = "user" => has[u] = {} /\ kept[u] = {}
  BY Zenon DEF KInv, KeptAt, Outside
<1>5. \A i \in InternalLocks : Holds(u, i)' => Holds(u, i) /\ mem'[u] = mem[u]
  BY <1>2, <1>3, <1>4, Zenon DEF Holds
<1>6. MappedAt(u)'
  <2>1. MappedAt(u)
    BY Zenon DEF Mapped
  <2>2. pc[u] = "call" /\ Mem(u).state # "UNLINKED" => Mem(u).state = "OK"
    BY <2>1, Zenon DEF MappedAt, Using
  <2>3. pc'[u] = "call" /\ kept'[u] # {} => Mem(u).state = "OK"
    BY <1>2, <1>3, <1>4, <2>1, <2>2, Zenon DEF MappedAt
  <2> QED BY <1>2, <2>1, <2>3, Zenon DEF MappedAt, Mem, Using, Filling
<1> QED BY <1>1, <1>2, <1>5, <1>6, QuietKeepsMInv

(* mem_get takes a lock for a call, ~sock one internal lock after another. *)
LEMMA LockStepKeepsMInv ==
  ASSUME SInv, LInv, Mapped, LockExclusive, NEW u \in Users, OthersKept(u),
         (\E i \in InternalLocks : region_lock(u, i)) \/ lock_internal(u)
  PROVE  Mapped' /\ LockExclusive'
<1>1. ASSUME NEW i \in InternalLocks, region_lock(u, i) PROVE Mapped' /\ LockExclusive'
  <2>1. /\ pc[u] = "call" /\ pc'[u] = "call" /\ has'[u] = has[u] \cup {i}
        /\ kept'[u] = kept[u]
        /\ UNCHANGED <<mem, shm_name>> /\ Mem(u).locks[i] > 0
        /\ mems' = [mems EXCEPT ![mem[u]].locks[i] = Mem(u).locks[i] - 1]
    BY <1>1, Zenon DEF region_lock, At, names, members, Mem, LInv, UserTypes
  <2>2. \A n \in InternalLocks : Holds(u, n)' => Holds(u, n) \/ n = i
    BY <2>1, Zenon DEF Holds
  <2> QED BY <2>1, <2>2, TakeKeepsMInv, Zenon
<1>2. CASE lock_internal(u)
  <2>1. /\ pc[u] = "locking" /\ UNCHANGED <<mem, shm_name>> /\ Mem(u).locks[next[u]] > 0
        /\ mems' = [mems EXCEPT ![mem[u]].locks[next[u]] = Mem(u).locks[next[u]] - 1]
        /\ \/ next[u] = LocksNum /\ pc'[u] = "unlink"
           \/ next[u] # LocksNum /\ pc'[u] = "locking" /\ next'[u] = next[u] + 1
    BY <1>2, Zenon DEF lock_internal, Goto, names, Mem, LInv, UserTypes
  <2>2. next[u] \in 1 .. LocksNum /\ LocksNum \in Nat
    BY <2>1, SockAssumption, Zenon DEF Mapped, MappedAt, InternalLocks
  <2>3. \A n \in InternalLocks : Holds(u, n)' => Holds(u, n) \/ n = next[u]
    BY <2>1, <2>2 DEF Holds, InternalLocks
  <2>4. pc'[u] # "unlink" => next'[u] \in InternalLocks
    BY <2>1, <2>2 DEF InternalLocks
  <2>5. next[u] \in InternalLocks
    BY <2>2, Zenon DEF InternalLocks
  <2> QED BY <2>1, <2>3, <2>4, <2>5, TakeKeepsMInv, Zenon
<1> QED BY <1>1, <1>2, Zenon

LEMMA MInvStep ==
  ASSUME SInv, LInv, KInv, AInv, MInv, [Next]_vars PROVE MInv'
<1> SUFFICES ASSUME ~overlap' PROVE Mapped' /\ LockExclusive'
  BY Zenon DEF MInv
<1>1. CASE UNCHANGED vars
  <2>1. ~overlap
    BY <1>1, Zenon DEF vars, history
  <2>2. UNCHANGED <<mems, mem, pc, next, has, kept, shm_name>>
    BY <1>1, Zenon DEF vars, names, objects, members, call
  <2>3. Mapped'
    BY <2>1, <2>2, Zenon DEF MInv, Mapped, MappedAt, Mem
  <2>4. LockExclusive'
    BY <2>1, <2>2 DEF MInv, LockExclusive, Holds, Mem
  <2> QED BY <2>3, <2>4, Zenon
<1>2. CASE Next
  <2>1. PICK u \in Users : Construct(u) \/ sock_lock(u) \/ Call(u) \/ Destroy(u)
    BY <1>2, Zenon DEF Next
  <2>2. OthersKept(u) /\ ~overlap
    BY <2>1, StepIsLocal, OverlapStays, Zenon DEF LInv
  <2>3. Apart /\ Looked /\ Mapped /\ LockExclusive
    BY <2>2, Zenon DEF AInv, MInv
  <2>4. CASE Construct(u) \/ sock_lock(u)
    BY <2>2, <2>3, <2>4, ConstructKeepsMInv, InitShmemKeepsMInv, Zenon DEF Construct
  <2>5. CASE Call(u)
    BY <2>2, <2>3, <2>5, LockStepKeepsMInv, LookKeepsMInv, ReleaseKeepsMInv, Zenon
       DEF Call, Looks
  <2>6. CASE Destroy(u)
    BY <2>2, <2>3, <2>6, LockStepKeepsMInv, UnlinkStepKeepsMInv, MarkKeepsMInv, Zenon DEF Destroy
  <2> QED BY <2>1, <2>4, <2>5, <2>6, Zenon
<1> QED BY <1>1, <1>2, Zenon

LEMMA MInvInit == Init => MInv
  BY EmptySeq DEF Init, MInv, Mapped, MappedAt, LockExclusive, Holds, Using, Filling

(* Without an overlap, an internal lock of a memory has one holder.        *)
THEOREM InternalLocksExclude == Spec => []MInv
  BY MInvInit, MInvStep, SockInvariant, SemaphoreExcludes, CallsReturnLocks,
     ConstructorsShareTheLock, PTL DEF Spec

(* A call that has kept a lock since its last accquire_shmem works on an    *)
(* open memory: ~sock holds every internal lock when it sets UNLINKED, so   *)
(* it waits for the lock that was kept, whatever locks mem_ctl::call lets   *)
(* go of meanwhile.                                                        *)
THEOREM CallsExcludeClose == Spec => []KeptLockExcludesClose
<1>1. MInv /\ KInv => KeptLockExcludesClose
  BY Zenon DEF MInv, KInv, KeptAt, Mapped, MappedAt, KeptLockExcludesClose
<1> QED BY <1>1, InternalLocksExclude, CallsReturnLocks, PTL

-----------------------------------------------------------------------------
(* As long as, besides, no memory is closed a second time, the socks that  *)
(* use an open memory share it and its semaphore, and the label names both *)
(* until a destructor that holds all their locks takes the names away.     *)

Attached(u) == pc[u] \in Using \cup {"queue"} /\ Mem(u).state = "OK"

Unlinking(v) == pc[v] \in {"unlink_shm", "mark"}

Shared == \A u, v \in Users : Attached(u) /\ Attached(v) => mem[u] = mem[v] /\ lock[u] = lock[v]

NamedAt(u) ==
    Attached(u) =>
        /\ sem_name = lock[u] \/ \E v \in Users : Unlinking(v)
        /\ shm_name = mem[u] \/ \E v \in Users : pc[v] = "mark"
        /\ mq[u] # NoObject => mq_name = mq[u]
        /\ \A v \in Users : pc[v] # "unlink_mq"

ClosesOnce == \A v \in Users : Unlinking(v) => Mem(v).state = "OK"

Reach == Shared /\ (\A u \in Users : NamedAt(u)) /\ ClosesOnce

RInv == ~overlap /\ ~second => Reach

(* A user that has not yet unlinked anything and does not begin to. *)
Stays(u) ==
    /\ \A k \in 1 .. Len(mems) : mems'[k].state = mems[k].state
    /\ pc[u] \notin {"unlink_shm", "mark", "unlink_mq"}
    /\ pc'[u] \notin {"unlink_shm", "mark", "unlink_mq"}
    /\ pc'[u] \in Using \cup {"queue"} =>
          /\ pc[u] \in Using \cup {"queue"}
          /\ mem'[u] = mem[u] /\ lock'[u] = lock[u] /\ mq'[u] = mq[u]
    /\ UNCHANGED <<sem_name, shm_name, mq_name>> \/ \A w \in Users : ~Attached(w)

LEMMA StaysKeepsReach ==
  ASSUME Mapped, Reach, NEW u \in Users, OthersKept(u), Stays(u) PROVE Reach'
<1>1. \A v \in Users \ {u} : /\ pc'[v] = pc[v] /\ mem'[v] = mem[v]
                             /\ lock'[v] = lock[v] /\ mq'[v] = mq[v]
  BY Zenon DEF OthersKept
<1>2. ASSUME NEW w \in Users, pc'[w] \in Using \cup {"queue"}
      PROVE  /\ pc[w] \in Using \cup {"queue"} /\ (Mem(w).state)' = Mem(w).state
             /\ mem'[w] = mem[w] /\ lock'[w] = lock[w] /\ mq'[w] = mq[w]
  <2>1. /\ pc[w] \in Using \cup {"queue"}
        /\ mem'[w] = mem[w] /\ lock'[w] = lock[w] /\ mq'[w] = mq[w]
    BY <1>1, <1>2, Zenon DEF Stays
  <2>2. mem[w] \in 1 .. Len(mems)
    BY <2>1, Zenon DEF Mapped, MappedAt, Filling
  <2> QED BY <2>1, <2>2, Zenon DEF Stays, Mem
<1>3. \A w \in Users : Attached(w)' => Attached(w)
  BY <1>2, Zenon DEF Attached
<1>4. \A w \in Users : /\ Unlinking(w)' <=> Unlinking(w)
                       /\ pc'[w] = "mark" <=> pc[w] = "mark"
                       /\ pc'[w] = "unlink_mq" <=> pc[w] = "unlink_mq"
  BY <1>1, Zenon DEF Stays, Unlinking
<1>5. Shared'
  BY <1>2, <1>3 DEF Reach, Shared, Attached
<1>6. ASSUME NEW w \in Users, Attached(w)' PROVE NamedAt(w)'
  <2>1. Attached(w) /\ NamedAt(w) /\ UNCHANGED <<sem_name, shm_name, mq_name>>
    BY <1>3, <1>6, Zenon DEF Reach, Stays
  <2>2. mem'[w] = mem[w] /\ lock'[w] = lock[w] /\ mq'[w] = mq[w]
    BY <1>2, <1>6, Zenon DEF Attached
  <2> QED BY <1>4, <2>1, <2>2, Zenon DEF NamedAt
<1>7. ClosesOnce'
  BY <1>2, <1>4, Zenon DEF Reach, ClosesOnce, Unlinking, Using
<1> QED BY <1>5, <1>6, <1>7, Zenon DEF Reach, NamedAt

(* While a constructor is under way, no destructor is. *)
LEMMA NoDestructor ==
  ASSUME Apart, Reach, NEW u \in Users, pc[u] \in Constructing
  PROVE  /\ \A v \in Users : ~Unlinking(v) /\ pc[v] \notin {"mark", "unlink_mq"}
         /\ \A w \in Users : Attached(w) => sem_name = lock[w] /\ shm_name = mem[w]
<1>1. \A v \in Users : ~Unlinking(v) /\ pc[v] \notin {"mark", "unlink_mq"}
  BY Zenon DEF Apart, Unlinking, Destroying
<1> QED BY <1>1, Zenon DEF Reach, NamedAt

(* The constructor gives a new object a name only when nobody uses one. *)
LEMMA OpenKeepsReach ==
  ASSUME SInv, LInv, Apart, Mapped, Reach, NEW u \in Users, OthersKept(u),
         create_lock(u) \/ shm_open(u), Apart'
  PROVE  Reach'
<1>1. \A w \in Users : Attached(w) => lock[w] # NoObject /\ mem[w] # NoObject
  <2>1. ASSUME NEW w \in Users, Attached(w) PROVE lock[w] # NoObject
    BY <2>1 DEF LInv, Opened, Attached, Using, NoObject
  <2>2. ASSUME NEW w \in Users, Attached(w) PROVE mem[w] # NoObject
    BY <2>2 DEF Mapped, MappedAt, Attached, Filling, NoObject
  <2> QED BY <2>1, <2>2, Zenon
<1>2. CASE create_lock(u)
  <2>1. /\ pc[u] = "none" /\ pc'[u] = "lock" /\ UNCHANGED <<mems, shm_name, mq_name>>
        /\ sem_name' = sem_name \/ sem_name = NoObject
    BY <1>2, Zenon DEF create_lock, Goto, LInv, UserTypes
  <2>2. \A v \in Users : ~Unlinking(v)
    <3>1. \A v \in Users : pc'[v] \notin Destroying
      BY <2>1, Zenon DEF Apart, Constructing
    <3> QED BY <2>1, <3>1, Zenon DEF Unlinking, Destroying, OthersKept
  <2>3. sem_name' = sem_name \/ \A w \in Users : ~Attached(w)
    BY <1>1, <2>1, <2>2, Zenon DEF Reach, NamedAt
  <2>4. Stays(u)
    BY <2>1, <2>3, Zenon DEF Stays, Using
  <2> QED BY <2>4, StaysKeepsReach, Zenon
<1>3. CASE shm_open(u)
  <2>1. /\ pc[u] = "open" /\ pc'[u] = "check" /\ UNCHANGED <<sem_name, mq_name>>
        /\ shm_name' = shm_name \/ shm_name = NoObject
    BY <1>3, Zenon DEF shm_open, Goto, LInv, UserTypes
  <2>2. shm_name' = shm_name \/ \A w \in Users : ~Attached(w)
    BY <1>1, <2>1, NoDestructor, Zenon DEF Constructing
  <2>3. \A k \in 1 .. Len(mems) : mems'[k] = mems[k]
    <3> DEFINE r == [state |-> "UNITILIZATED", locks |-> [i \in InternalLocks |-> 0]]
    <3>1. mems' = mems \/ mems' = Append(mems, r)
      BY <1>3, Zenon DEF shm_open
    <3>2. r \in Memory /\ mems \in Seq(Memory)
      BY DEF Memory, SInv, MemTypes
    <3> HIDE DEF r
    <3> QED BY <3>1, <3>2, AppendProperties
  <2>4. Stays(u)
    BY <2>1, <2>2, <2>3, Zenon DEF Stays, Using
  <2> QED BY <2>4, StaysKeepsReach, Zenon
<1> QED BY <1>2, <1>3, Zenon

(* The first user of a memory, and the next ones, find it by the names.    *)
LEMMA AttachKeepsReach ==
  ASSUME SInv, LInv, AInv, Apart, Looked, Mapped, Reach, NEW u \in Users, OthersKept(u),
         init_shmem(u) \/ load_shmem(u)
  PROVE  Reach'
<1>1. \A v \in Users \ {u} : /\ pc'[v] = pc[v] /\ mem'[v] = mem[v]
                             /\ lock'[v] = lock[v] /\ mq'[v] = mq[v]
  BY Zenon DEF OthersKept
<1>2. /\ pc[u] \in {"check", "init"} /\ pc'[u] \in {"queue", "user"}
      /\ UNCHANGED <<sem_name, shm_name, mq_name, mem, lock, mq>>
  BY Zenon DEF init_shmem, load_shmem, Goto, names, members, LInv, UserTypes
<1>3. /\ \A v \in Users : ~Unlinking(v) /\ pc[v] \notin {"mark", "unlink_mq"}
      /\ \A w \in Users : Attached(w) => sem_name = lock[w] /\ shm_name = mem[w]
  BY <1>2, NoDestructor, Zenon DEF Constructing
<1>4. /\ lock[u] = sem_name /\ mem[u] = shm_name /\ mq[u] = NoObject
      /\ mem[u] \in 1 .. Len(mems)
  BY <1>2, Zenon DEF AInv, NoQueueYet, Looked, Mapped, MappedAt, Filling, Constructing
<1>5. ASSUME NEW w \in Users, w # u, Attached(w)' PROVE Attached(w)
  <2>1. pc[w] \in Using \cup {"queue"} /\ mem[w] \in 1 .. Len(mems)
    BY <1>1, <1>5, Zenon DEF Attached, Mapped, MappedAt, Filling
  <2>2. CASE load_shmem(u)
    BY <1>1, <1>5, <2>2, Zenon DEF load_shmem, Attached, Mem
  <2>3. CASE init_shmem(u)
    <3> DEFINE r == [state |-> "OK", locks |-> [i \in InternalLocks |-> 1]]
    <3>1. mems' = [mems EXCEPT ![mem[u]] = r] /\ r \in Memory /\ pc[u] = "init"
      BY <2>3 DEF init_shmem, Memory
    <3> HIDE DEF r
    <3>2. \A j \in 1 .. Len(mems) : j # mem[u] => mems'[j] = mems[j]
      BY <1>4, <3>1, OneWritten DEF SInv
    <3>3. Mem(u).state = "UNITILIZATED"
      BY <3>1, Zenon DEF Mapped, MappedAt
    <3>4. pc[w] # "queue"
      BY <1>5, <3>1, OneFills, Zenon DEF Filling
    <3>5. mem[w] # mem[u]
      BY <2>1, <3>3, <3>4, Zenon DEF Mapped, MappedAt, Mem
    <3> QED BY <1>1, <1>5, <2>1, <3>2, <3>5, Zenon DEF Attached, Mem
  <2> QED BY <2>2, <2>3, Zenon
<1>6. ASSUME NEW w \in Users, Attached(w)'
      PROVE  /\ lock'[w] = sem_name' /\ mem'[w] = shm_name'
             /\ mq'[w] # NoObject => mq_name' = mq'[w]
  <2>1. CASE w = u
    BY <1>2, <1>4, <2>1, Zenon
  <2>2. CASE w # u
    BY <1>2, <1>3, <1>5, <1>6, <2>2, Zenon DEF Reach, NamedAt
  <2> QED BY <2>1, <2>2, Zenon
<1>7. \A v \in Users : ~Unlinking(v)' /\ pc'[v] # "unlink_mq"
  BY <1>1, <1>2, <1>3, Zenon DEF Unlinking
<1> QED BY <1>6, <1>7, Zenon DEF Reach, Shared, NamedAt, ClosesOnce

(* The queue of the label is the one its first user made. *)
LEMMA CreateMqKeepsReach ==
  ASSUME LInv, Apart, Mapped, Reach, NEW u \in Users, OthersKept(u), create_mq(u)
  PROVE  Reach'
<1>1. \A v \in Users \ {u} : /\ pc'[v] = pc[v] /\ mem'[v] = mem[v]
                             /\ lock'[v] = lock[v] /\ mq'[v] = mq[v]
  BY Zenon DEF OthersKept
<1>2. /\ pc[u] = "queue" /\ pc'[u] = "user" /\ mq'[u] = mq_name'
      /\ UNCHANGED <<sem_name, shm_name, mems, mem, lock>>
      /\ mq_name' = mq_name \/ mq_name = NoObject
  BY Zenon DEF create_mq, Goto, LInv, UserTypes
<1>3. /\ \A v \in Users : ~Unlinking(v) /\ pc[v] \notin {"mark", "unlink_mq"}
      /\ \A w \in Users : Attached(w) => sem_name = lock[w] /\ shm_name = mem[w]
  BY <1>2, NoDestructor, Zenon DEF Constructing
<1>4. \A w \in Users : Attached(w)' => Attached(w)
  BY <1>1, <1>2, Zenon DEF Attached, Mem
<1>5. ASSUME NEW w \in Users, Attached(w)', mq'[w] # NoObject PROVE mq_name' = mq'[w]
  <2>1. CASE w = u
    BY <1>2, <2>1, Zenon
  <2>2. CASE w # u
    <3>1. mq[w] # NoObject /\ mq_name = mq[w] /\ mq'[w] = mq[w]
      BY <1>1, <1>4, <1>5, <2>2, Zenon DEF Reach, NamedAt
    <3> QED BY <1>2, <3>1, Zenon
  <2> QED BY <2>1, <2>2, Zenon
<1>6. \A v \in Users : ~Unlinking(v)' /\ pc'[v] # "unlink_mq"
  BY <1>1, <1>2, <1>3, Zenon DEF Unlinking
<1> QED BY <1>2, <1>3, <1>4, <1>5, <1>6 DEF Reach, Shared, NamedAt, ClosesOnce

(* ~sock takes the names of an open memory away. *)
LEMMA UnlinkKeepsReach ==
  ASSUME LInv, Mapped, Reach, NEW u \in Users, OthersKept(u),
         sem_unlink(u) \/ shm_unlink(u), ~second'
  PROVE  Reach'
<1>1. \A v \in Users \ {u} : pc'[v] = pc[v]
  BY Zenon DEF OthersKept
<1>2. UNCHANGED <<mems, mem, lock, mq, mq_name>>
  BY Zenon DEF sem_unlink, shm_unlink, objects, members, names
<1>3. /\ pc[u] \in {"unlink", "unlink_shm"} /\ Unlinking(u)'
      /\ shm_name' = shm_name \/ pc'[u] = "mark"
  BY Zenon DEF sem_unlink, shm_unlink, Goto, Unlinking, LInv, UserTypes
<1>4. Mem(u).state = "OK"
  <2>1. CASE sem_unlink(u)
    <3>1. second' = (second \/ Mem(u).state = "UNLINKED") /\ pc[u] = "unlink"
      BY <2>1, Zenon DEF sem_unlink
    <3>2. Mem(u).state # "UNLINKED"
      BY <3>1, Zenon
    <3> QED BY <3>1, <3>2, Zenon DEF Mapped, MappedAt, Using
  <2>2. CASE shm_unlink(u)
    BY <2>2, Zenon DEF shm_unlink, Reach, ClosesOnce, Unlinking
  <2> QED BY <2>1, <2>2, Zenon
<1>5. \A w \in Users : Attached(w)' => Attached(w)
  BY <1>1, <1>2, <1>3, Zenon DEF Attached, Mem, Using
<1>6. Shared'
  BY <1>2, <1>5, Zenon DEF Reach, Shared
<1>7. \A v \in Users : pc[v] = "mark" => pc'[v] = "mark"
  BY <1>1, <1>3, Zenon
<1>8. \A v \in Users : pc'[v] = "unlink_mq" => pc[v] = "unlink_mq"
  BY <1>1, <1>3, Zenon DEF Unlinking
<1>9. ASSUME NEW w \in Users PROVE NamedAt(w)'
  <2>1. Attached(w)' => Attached(w) /\ NamedAt(w)
    BY <1>5, Zenon DEF Reach
  <2> QED BY <1>2, <1>3, <1>7, <1>8, <2>1, Zenon DEF NamedAt
<1>10. ClosesOnce'
  BY <1>1, <1>2, <1>4, Zenon DEF Reach, ClosesOnce, Unlinking, Mem
<1> QED BY <1>6, <1>9, <1>10, Zenon DEF Reach

(* The memory it marks closed is the one memory in use. *)
LEMMA MarkKeepsReach ==
  ASSUME SInv, LInv, Mapped, LockExclusive, Reach, NEW u \in Users, OthersKept(u),
         mark_unlinked(u)
  PROVE  Reach'
<1> DEFINE r == [state |-> "UNLINKED",
                 locks |-> [i \in InternalLocks |-> mems[mem[u]].locks[i] + 1]]
<1>1. \A v \in Users \ {u} : pc'[v] = pc[v] /\ mem'[v] = mem[v]
  BY Zenon DEF OthersKept
<1>2. /\ pc[u] = "mark" /\ pc'[u] \in {"none", "unlink_mq"}
      /\ mems' = [mems EXCEPT ![mem[u]] = r]
  BY Zenon DEF mark_unlinked, Goto, LInv, UserTypes
<1>3. mem[u] \in 1 .. Len(mems) /\ Attached(u)
  BY <1>2, Zenon DEF Mapped, MappedAt, Using, Reach, ClosesOnce, Unlinking, Attached
<1>4. r.state = "UNLINKED" /\ r \in Memory
  <2>1. \A i \in InternalLocks : mems[mem[u]].locks[i] + 1 \in Int
    BY <1>3, LockValue DEF SInv
  <2> QED BY <2>1, Zenon DEF Memory
<1> HIDE DEF r
<1>5. mems'[mem[u]] = r /\ \A j \in 1 .. Len(mems) : j # mem[u] => mems'[j] = mems[j]
  BY <1>2, <1>3, <1>4, OneWritten DEF SInv
<1>6. ASSUME NEW w \in Users PROVE ~Attached(w)'
  <2> SUFFICES ASSUME w # u, Attached(w)' PROVE FALSE
    BY <1>2, Zenon DEF Attached, Using
  <2>1. mem[w] \in 1 .. Len(mems) /\ pc[w] \in Using \cup {"queue"} /\ mem'[w] = mem[w]
    BY <1>1, Zenon DEF Attached, Mapped, MappedAt, Filling
  <2>2. mem[w] # mem[u]
    BY <1>4, <1>5, <2>1, Zenon DEF Attached, Mem
  <2>3. Attached(w)
    BY <1>5, <2>1, <2>2, Zenon DEF Attached, Mem
  <2> QED BY <1>3, <2>2, <2>3, Zenon DEF Reach, Shared
<1>7. ASSUME NEW w \in Users PROVE ~Unlinking(w)'
  <2> SUFFICES ASSUME w # u, Unlinking(w) PROVE FALSE
    BY <1>1, <1>2, Zenon DEF Unlinking
  <2>1. Attached(w)
    BY Zenon DEF Reach, ClosesOnce, Attached, Unlinking, Using
  <2>2. mem[w] = mem[u]
    BY <1>3, <2>1, Zenon DEF Reach, Shared
  <2>3. 1 \in InternalLocks /\ Holds(u, 1) /\ Holds(w, 1)
    BY <1>2, SockAssumption DEF Holds, Unlinking, InternalLocks
  <2> QED BY <2>2, <2>3, Zenon DEF LockExclusive
<1> QED BY <1>6, <1>7, Zenon DEF Reach, Shared, NamedAt, ClosesOnce

(* ~sock_mq comes when the memory of the queue is closed. *)
LEMMA MqUnlinkKeepsReach ==
  ASSUME LInv, Reach, NEW u \in Users, OthersKept(u), mq_unlink(u) PROVE Reach'
<1>1. /\ pc[u] = "unlink_mq" /\ pc'[u] = "none" /\ UNCHANGED <<mems, mem>>
  BY Zenon DEF mq_unlink, objects, Goto, LInv, UserTypes
<1>2. \A v \in Users \ {u} : pc'[v] = pc[v]
  BY Zenon DEF OthersKept
<1>3. \A w \in Users : ~Attached(w)
  BY <1>1, Zenon DEF Reach, NamedAt
<1>4. \A w \in Users : ~Attached(w)'
  BY <1>1, <1>2, <1>3, Zenon DEF Attached, Mem, Using
<1>5. ClosesOnce'
  BY <1>1, <1>2, Zenon DEF Reach, ClosesOnce, Unlinking, Mem
<1> QED BY <1>4, <1>5, Zenon DEF Reach, Shared, NamedAt

(* The steps that name nothing and close nothing. *)
LEMMA QuietKeepsReach ==
  ASSUME LInv, Mapped, Reach, NEW u \in Users, OthersKept(u),
         \/ sock_lock(u) \/ reopen_unlinked(u) \/ reopen_init(u) \/ destroy(u) \/ Looks(u)
  PROVE  Reach'
<1>1. CASE sock_lock(u) \/ reopen_unlinked(u) \/ reopen_init(u) \/ destroy(u)
  <2>1. UNCHANGED <<sem_name, shm_name, mq_name, mems, lock, mq>>
    BY <1>1, Zenon DEF sock_lock, reopen_unlinked, reopen_init, destroy, names, objects, members
  <2>2. /\ pc[u] \notin {"unlink_shm", "mark", "unlink_mq"}
        /\ pc'[u] \notin {"unlink_shm", "mark", "unlink_mq"}
    BY <1>1, Zenon DEF sock_lock, reopen_unlinked, reopen_init, destroy, Goto, LInv, UserTypes
  <2>3. pc'[u] \in Using \cup {"queue"} => pc[u] \in Using \cup {"queue"} /\ mem'[u] = mem[u]
    BY <1>1, Zenon DEF sock_lock, reopen_unlinked, reopen_init, destroy, Goto, members, Using,
                LInv, UserTypes
  <2>4. Stays(u)
    BY <2>1, <2>2, <2>3, Zenon DEF Stays
  <2> QED BY <2>4, StaysKeepsReach, Zenon
<1>2. CASE Looks(u)
  <2>1. /\ UNCHANGED <<sem_name, shm_name, mq_name, mems, lock, mem, mq>>
        /\ pc[u] \in {"user", "call"} /\ pc'[u] \in {"user", "call", "threw", "crashed"}
    BY <1>2, LooksOnly, Zenon DEF LInv, UserTypes
  <2>2. Stays(u)
    BY <2>1, Zenon DEF Stays, Using
  <2> QED BY <2>2, StaysKeepsReach, Zenon
<1> QED BY <1>1, <1>2, Zenon

(* The steps on the internal locks. *)
LEMMA LockStepKeepsReach ==
  ASSUME SInv, LInv, Mapped, Reach, NEW u \in Users, OthersKept(u),
         \/ \E i \in InternalLocks : region_lock(u, i) \/ region_unlock(u, i)
         \/ lock_internal(u)
  PROVE  Reach'
<1> DEFINE Same == \A k \in 1 .. Len(mems) : mems'[k].state = mems[k].state
<1> DEFINE Local == /\ UNCHANGED <<sem_name, shm_name, mq_name, mem, lock, mq>>
                    /\ pc[u] \in {"call", "locking"}
                    /\ pc'[u] \in {"call", "locking", "unlink"}
<1>1. ASSUME NEW i \in InternalLocks, region_lock(u, i) \/ region_unlock(u, i)
      PROVE  Same /\ Local
  <2>1. /\ Local
        /\ \/ mems' = [mems EXCEPT ![mem[u]].locks[i] = mems[mem[u]].locks[i] + 1]
           \/ mems' = [mems EXCEPT ![mem[u]].locks[i] = mems[mem[u]].locks[i] - 1]
    BY <1>1, RegionStep, Zenon
  <2>2. mem[u] \in 1 .. Len(mems)
    BY <2>1, Zenon DEF Mapped, MappedAt, Using
  <2>3. mems[mem[u]].locks[i] + 1 \in Int /\ mems[mem[u]].locks[i] - 1 \in Int
    BY <2>2, LockValue DEF SInv
  <2>4. \/ LockSet(mem[u], i, mems[mem[u]].locks[i] + 1)
        \/ LockSet(mem[u], i, mems[mem[u]].locks[i] - 1)
    BY <2>1, Zenon DEF LockSet
  <2>5. Same
    BY <2>2, <2>3, <2>4, LockWritten, Zenon DEF SInv
  <2> QED BY <2>1, <2>5, Zenon
<1>2. ASSUME lock_internal(u) PROVE Same /\ Local
  <2>1. /\ Local /\ pc[u] = "locking"
        /\ mems' = [mems EXCEPT ![mem[u]].locks[next[u]] = mems[mem[u]].locks[next[u]] - 1]
    BY <1>2, Zenon DEF lock_internal, Goto, names, LInv, UserTypes
  <2>2. mem[u] \in 1 .. Len(mems) /\ next[u] \in InternalLocks
    BY <2>1, Zenon DEF Mapped, MappedAt, Using
  <2>3. mems[mem[u]].locks[next[u]] - 1 \in Int
    BY <2>2, LockValue DEF SInv
  <2>4. LockSet(mem[u], next[u], mems[mem[u]].locks[next[u]] - 1)
    BY <2>1, Zenon DEF LockSet
  <2>5. Same
    BY <2>2, <2>3, <2>4, LockWritten, Zenon DEF SInv
  <2> QED BY <2>1, <2>5, Zenon
<1>3. Same /\ Local
  BY <1>1, <1>2, Zenon
<1>4. mem[u] \in 1 .. Len(mems) /\ pc[u] \in Using
  BY <1>3, Zenon DEF Mapped, MappedAt, Using
<1>5. Stays(u)
  <2>1. /\ pc[u] \notin {"unlink_shm", "mark", "unlink_mq"}
        /\ pc'[u] \notin {"unlink_shm", "mark", "unlink_mq"}
    BY <1>3, Zenon
  <2> QED BY <1>3, <1>4, <2>1, Zenon DEF Stays
<1> QED BY <1>5, StaysKeepsReach, Zenon

(* That a memory was closed twice is remembered. *)
LEMMA SecondStays ==
  ASSUME NEW u \in Users, Construct(u) \/ sock_lock(u) \/ Call(u) \/ Destroy(u), ~second'
  PROVE  ~second
<1>1. CASE sem_unlink(u)
  <2>1. second' = (second \/ Mem(u).state = "UNLINKED")
    BY <1>1, Zenon DEF sem_unlink
  <2> QED BY <2>1, Zenon
<1>2. CASE ~sem_unlink(u)
  <2>1. CASE Construct(u) \/ sock_lock(u)
    BY <2>1, Zenon DEF Construct, create_lock, shm_open, reopen_unlinked, reopen_init,
                load_shmem, init_shmem, create_mq, sock_lock, history
  <2>2. CASE Call(u)
    BY <2>2, Zenon DEF Call, call_begin, region_lock, region_unlock, acquire_closed,
                acquire_shmem, next_msg, next_msg_null, call_return, history
  <2>3. CASE Destroy(u)
    BY <1>2, <2>3, Zenon DEF Destroy, destroy, lock_internal, shm_unlink, mark_unlinked,
                      mq_unlink, history
  <2> QED BY <2>1, <2>2, <2>3, Zenon
<1> QED BY <1>1, <1>2, Zenon

LEMMA RInvStep ==
  ASSUME SInv, LInv, AInv, AInv', MInv, RInv, [Next]_vars PROVE RInv'
<1> SUFFICES ASSUME ~overlap', ~second' PROVE Reach'
  BY Zenon DEF RInv
<1>1. CASE UNCHANGED vars
  <2>1. ~overlap /\ ~second
    BY <1>1, Zenon DEF vars, history
  <2>2. UNCHANGED <<sem_name, shm_name, mq_name, mems, pc, lock, mem, mq>>
    BY <1>1, Zenon DEF vars, names, objects, members
  <2>3. \A w \in Users : /\ Attached(w)' <=> Attached(w)
                         /\ Unlinking(w)' <=> Unlinking(w)
    BY <2>2, Zenon DEF Attached, Unlinking, Mem
  <2> QED BY <2>1, <2>2, <2>3, Zenon DEF RInv, Reach, Shared, NamedAt, ClosesOnce, Mem
<1>2. CASE Next
  <2>1. PICK u \in Users : Construct(u) \/ sock_lock(u) \/ Call(u) \/ Destroy(u)
    BY <1>2, Zenon DEF Next
  <2>2. OthersKept(u) /\ ~overlap /\ ~second
    BY <2>1, StepIsLocal, OverlapStays, SecondStays, Zenon DEF LInv
  <2>3. Apart /\ Looked /\ Mapped /\ LockExclusive /\ Reach /\ Apart'
    BY <2>2, Zenon DEF AInv, MInv, RInv
  <2>4. CASE Construct(u) \/ sock_lock(u)
    BY <2>2, <2>3, <2>4, OpenKeepsReach, AttachKeepsReach, CreateMqKeepsReach,
       QuietKeepsReach, Zenon DEF Construct
  <2>5. CASE Call(u)
    BY <2>2, <2>3, <2>5, LockStepKeepsReach, QuietKeepsReach, Zenon DEF Call, Looks
  <2>6. CASE Destroy(u)
    BY <2>2, <2>3, <2>6, LockStepKeepsReach, QuietKeepsReach, UnlinkKeepsReach,
       MarkKeepsReach, MqUnlinkKeepsReach, Zenon DEF Destroy
  <2> QED BY <2>1, <2>4, <2>5, <2>6, Zenon
<1> QED BY <1>1, <1>2, Zenon

LEMMA RInvInit == Init => RInv
  BY DEF Init, RInv, Reach, Shared, NamedAt, ClosesOnce, Attached, Unlinking, Using

(* Without an overlap and a second closing, the socks on an open memory    *)
(* share it, and the label names it until a destructor takes the name.     *)
THEOREM OpenSocketsAreNamed == Spec => []RInv
<1>1. SInv /\ LInv /\ AInv /\ AInv' /\ MInv /\ RInv /\ [Next]_vars => RInv'
  BY RInvStep, Zenon
<1> QED BY <1>1, RInvInit, SockInvariant, SemaphoreExcludes, ConstructorsShareTheLock,
           InternalLocksExclude, PTL DEF Spec

(* A socket in use, with nobody in ~sock, is found by its label: sem_open,  *)
(* shm_open and the queue of the label lead to the objects it uses.         *)
THEOREM UsedSocketIsReachable == Spec => []LiveSocketIsReachable
<1>1. RInv => LiveSocketIsReachable
  BY Zenon DEF RInv, Reach, NamedAt, Attached, Unlinking, LiveSocketIsReachable, Using,
         Destroying
<1> QED BY <1>1, OpenSocketsAreNamed, PTL
=============================================================================
