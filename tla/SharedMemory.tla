---------------------------- MODULE SharedMemory ----------------------------
(* filebench's shared memory region (ipc.c): the pools of preallocated      *)
(* objects, the string, path and custom-variable memory, and the pool of    *)
(* per-thread memory (ISM) that worker threads carve up.                    *)
(*                                                                          *)
(* Every call but the string allocations runs under a lock; those are made  *)
(* by the master's parser thread alone, so that each call is one step.      *)
EXTENDS Integers, FiniteSets

CONSTANTS PoolTypes,  \* "object", or "avd" for the attribute descriptors
          Objects,    \* objects in the array of a type
          ObjectSize, \* size of one, in pointers
          StringMem,  \* bytes of string memory, and of path memory
          HeapMem,    \* bytes of the custom variables' heap
          Lengths,    \* string lengths asked for
          Client,     \* the threads that use ISM memory
          ThreadMem,  \* memsize of each thread
          IsmFaults   \* which calls of ipc_ismcreate() may fail

ASSUME MemoryAssumption ==
  /\ PoolTypes \subseteq {"object", "avd"}
  /\ Objects \in Nat \ {0} /\ ObjectSize \in Nat \ {0}
  /\ StringMem \in Nat /\ HeapMem \in Nat /\ ThreadMem \in Nat
  /\ Lengths \subseteq Nat
  /\ IsFiniteSet(Client)

VARIABLES pool,   \* bitmap and lastbitmapindex of one object type
          given,  \* the slots handed out and not yet freed
          text,   \* the bump allocators: next free byte, regions handed out
          ism,    \* shm_id, shm_ism_lock, shm_ptr, shm_allocated
          mem,    \* per thread: the offset of its memory, or why it has none
          ret     \* what the last call returned

vars == <<pool, given, text, ism, mem, ret>>

None == -1
Gone == -2
Arena == {"string", "path", "heap"}

(* The size by which preallocated_entries() and ipc_free() divide: sizeof   *)
(* of the object, but avd_t is a pointer to one (vars.h:76).                *)
CountedSize(type) == IF type = "avd" THEN 1 ELSE ObjectSize

PoolEntries(type) == (Objects * ObjectSize) \div CountedSize(type)
Slots(type) == 0 .. PoolEntries(type) - 1
Slot == Slots(pool.type)

(* &array[i], as an offset from the array.                                  *)
Address(i) == i * ObjectSize

(* ipc_init(): everything zero, shm_ism_lock taken until there is a region. *)
Init ==
  /\ \E type \in PoolTypes : pool = [type |-> type, bitmap |-> [i \in Slots(type) |-> 0], last |-> 0]
  /\ given = {}
  /\ text = [a \in Arena |-> [ptr |-> 0, out |-> {}]]
  /\ ism = [id |-> None, locked |-> TRUE, ptr |-> 0, allocated |-> 0]
  /\ mem = [t \in Client |-> None]
  /\ ret = "none"

---------------------------------------------------------------------------
(* The pools of objects.                                                    *)

(* The slots in the order the scan of ipc_malloc() looks at them; the one   *)
(* it started from comes last and ends the scan.                            *)
Scan(k) == (pool.last + k) % PoolEntries(pool.type)

FirstFree ==
  LET free == {k \in 1 .. PoolEntries(pool.type) : pool.bitmap[Scan(k)] = 0}
  IN IF free = {} THEN pool.last ELSE Scan(CHOOSE k \in free : \A j \in free : k <= j)

MutTaken(i) == [pool EXCEPT !.last = i]

Taken(i) == [pool EXCEPT !.bitmap[i] = 1, !.last = i]

Malloc ==
  /\ IF FirstFree = pool.last
     THEN /\ ret' = "null"
          /\ UNCHANGED <<pool, given>>
     ELSE /\ ret' = "object"
          /\ pool' = Taken(FirstFree)
          /\ given' = given \cup {FirstFree}
  /\ UNCHANGED <<text, ism, mem>>

(* ipc_free() of an object its caller holds, by its address. Attribute      *)
(* descriptors are never freed.                                             *)
Item(addr) == addr \div CountedSize(pool.type)

Free(i) ==
  /\ i \in given /\ pool.type # "avd"
  /\ pool' = [pool EXCEPT !.bitmap[Item(Address(i))] = 0]
  /\ given' = given \ {i}
  /\ ret' = "void"
  /\ UNCHANGED <<text, ism, mem>>

---------------------------------------------------------------------------
(* The bump allocators. A string's region ends with the byte left zero.     *)

Region(from, n) == from .. (from + n - 1)

(* ipc_stralloc() and ipc_pathalloc() move the pointer before they compare  *)
(* it with the limit, and leave it there.                                   *)
TextAlloc(a, n, limit) ==
  [text EXCEPT ![a] =
     [ptr |-> @.ptr + n,
      out |-> IF @.ptr + n > limit THEN @.out ELSE @.out \cup {Region(@.ptr, n)}]]

Fits(a, n, limit) == text[a].ptr + n <= limit

StrAlloc(len) ==
  /\ text["string"].ptr <= StringMem
  /\ text' = TextAlloc("string", len + 1, StringMem)
  /\ ret' = IF Fits("string", len + 1, StringMem) THEN "memory" ELSE "nomemory"
  /\ UNCHANGED <<pool, given, ism, mem>>

PathAlloc(len) ==
  /\ text["path"].ptr <= StringMem
  /\ text' = TextAlloc("path", len + 1, StringMem)
  /\ ret' = IF Fits("path", len + 1, StringMem) THEN "memory" ELSE "nomemory"
  /\ UNCHANGED <<pool, given, ism, mem>>

(* ipc_cvar_heapalloc() compares first.                                     *)
HeapAlloc(size) ==
  /\ IF Fits("heap", size, HeapMem)
     THEN /\ text' = TextAlloc("heap", size, HeapMem)
          /\ ret' = "memory"
     ELSE /\ ret' = "nomemory"
          /\ UNCHANGED text
  /\ UNCHANGED <<pool, given, ism, mem>>

---------------------------------------------------------------------------
(* The memory of the worker threads. shm_required is the sum of theirs.     *)

IsmCreate(fault) ==
  /\ IF ism.id # None
     THEN ret' = "created" /\ UNCHANGED ism
     ELSE CASE fault = "shmget" -> ret' = "failed" /\ UNCHANGED ism
            [] fault = "shmat" -> ret' = "failed" /\ ism' = [ism EXCEPT !.id = 1]
            [] OTHER -> ret' = "created" /\ ism' = [ism EXCEPT !.id = 1, !.ptr = 0, !.locked = FALSE]
  /\ UNCHANGED <<pool, given, text, mem>>

(* ipc_ismmalloc(): waits for the lock, attaches, bumps the pointer; no     *)
(* check against the region's size.                                         *)
IsmMalloc(t) ==
  /\ mem[t] = None
  /\ ~ ism.locked
  /\ mem' = [mem EXCEPT ![t] = ism.ptr]
  /\ ism' = [ism EXCEPT !.ptr = @ + ThreadMem, !.allocated = @ + ThreadMem]
  /\ ret' = "memory"
  /\ UNCHANGED <<pool, given, text>>

(* ipc_ismdelete(), once the threads are gone.                              *)
IsmDelete ==
  /\ ism.id # None
  /\ ~ ism.locked
  /\ ism' = [ism EXCEPT !.ptr = 0, !.id = None, !.allocated = 0]
  /\ mem' = [t \in Client |-> Gone]
  /\ ret' = "void"
  /\ UNCHANGED <<pool, given, text>>

---------------------------------------------------------------------------
Next ==
  \/ Malloc
  \/ \E i \in Slot : Free(i)
  \/ \E n \in Lengths : StrAlloc(n) \/ PathAlloc(n) \/ HeapAlloc(n)
  \/ \E f \in IsmFaults : IsmCreate(f)
  \/ \E t \in Client : IsmMalloc(t)
  \/ IsmDelete

Spec == Init /\ [][Next]_vars

---------------------------------------------------------------------------
TypeOK ==
  /\ pool.type \in PoolTypes /\ pool.bitmap \in [Slot -> {0, 1}]
  /\ pool.last \in Slot
  /\ given \subseteq Slot
  /\ \A a \in Arena : text[a].ptr \in Nat
  /\ ism.id \in {None, 1}
  /\ mem \in [Client -> Nat \cup {None, Gone}]

(* The bitmap of ipc_malloc() and ipc_free() marks exactly the objects that *)
(* somebody holds, whatever the order of calls.                             *)
ObjectsOwnedOnce == given = {i \in Slot : pool.bitmap[i] = 1}

(* An object handed out lies within the array of its type. Of descriptors,  *)
(* of which ipc.c:462-465 believes to have twice as many, this holds for    *)
(* the first Objects - 1; the next ones lie behind the array.               *)
ObjectsInside ==
  (pool.type = "avd" => Cardinality(given) < Objects) =>
    \A i \in given : Address(i) + ObjectSize <= Objects * ObjectSize

(* No two strings, paths or custom variables share a byte, and none lies    *)
(* outside its memory: that is what lets ipc_stralloc() copy without a      *)
(* terminator.                                                              *)
TextDisjoint ==
  \A a \in Arena :
    /\ \A r, s \in text[a].out : r # s => r \cap s = {}
    /\ UNION text[a].out \subseteq 0 .. ((IF a = "heap" THEN HeapMem ELSE StringMem) - 1)

(* A thread's memory is its own and inside the region created for them all, *)
(* although ipc_ismmalloc() checks no bound: each thread asks once, after   *)
(* ipc_ismcreate() has released the lock.                                   *)
ThreadMemoryOwn ==
  \A t \in Client : mem[t] >= 0 =>
    /\ mem[t] + ThreadMem <= Cardinality(Client) * ThreadMem
    /\ \A u \in Client \ {t} : mem[u] >= 0 =>
         Region(mem[t], ThreadMem) \cap Region(mem[u], ThreadMem) = {}

(* A thread has memory only while there is a region.                        *)
MemoryExists == \A t \in Client : mem[t] >= 0 => ism.id # None

(* ipc_malloc() hands out an object nobody holds, and returns NULL with at  *)
(* most the object free that it handed out last (ipc.c:520 stops the scan   *)
(* before looking at it).                                                   *)
MallocAnswer ==
  Malloc =>
    /\ ret' = "object" => \E i \in Slot \ given : given' = given \cup {i}
    /\ ret' = "null" => (Slot \ given) \subseteq {pool.last}

MallocAnswers == [][MallocAnswer]_vars

(* What ipc.c hands out is the caller's own: the objects, texts and thread  *)
(* memory above at every moment, and the answer of every ipc_malloc() but   *)
(* for a NULL with one object free; inside its memory, but for descriptors  *)
(* beyond the end of their array.                                           *)
SharedMemoryExact ==
  /\ [](ObjectsOwnedOnce /\ ObjectsInside /\ TextDisjoint /\ ThreadMemoryOwn /\ MemoryExists)
  /\ MallocAnswers

(* "The routine returns a pointer to the object, or NULL if all objects     *)
(* have been allocated" (ipc.c:494-496): of the objects of the pool.        *)
PoolAsDocumented ==
  [][Malloc => IF ret' = "null" THEN Cardinality(given) = Objects
                                ELSE \A i \in given' : i < Objects]_vars
===========================================================================
