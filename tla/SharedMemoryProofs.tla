------------------------- MODULE SharedMemoryProofs -------------------------
(***************************************************************************)
(* filebench's shared memory allocators (ipc.c) give nobody what somebody  *)
(* else has, for any number of objects, any sizes, lengths and threads.    *)
(***************************************************************************)
EXTENDS SharedMemory, TLAPS, FiniteSetTheorems, WellFoundedInduction

(* What ipc.c is compiled and called with: a pool is not empty, sizes are  *)
(* natural numbers, the threads are finitely many.                         *)
Setting ==
  /\ PoolTypes \subseteq {"object", "avd"}
  /\ Objects \in Nat \ {0} /\ ObjectSize \in Nat \ {0}
  /\ StringMem \in Nat /\ HeapMem \in Nat /\ ThreadMem \in Nat
  /\ Lengths \subseteq Nat
  /\ IsFiniteSet(Client)

-----------------------------------------------------------------------------
(* The pools of objects.                                                   *)
PoolInv ==
  /\ pool \in [type : {"object", "avd"}, bitmap : [Slot -> {0, 1}], last : Slot]
  /\ ObjectsOwnedOnce

(* preallocated_entries(): the objects of the array, but for descriptors,  *)
(* where it is their number times the size of one.                         *)
Size == PoolEntries(pool.type)

LEMMA Multiple ==
  ASSUME NEW m \in Nat, NEW k \in Nat \ {0}
  PROVE  m * k \in Nat /\ (m * k) \div k = m /\ (m * k) \div 1 = m * k /\ m <= m * k
  OBVIOUS

LEMMA SizeIs ==
  ASSUME Setting, PoolInv
  PROVE  /\ Size \in Nat \ {0} /\ Objects <= Size /\ Slot = 0..(Size - 1)
         /\ pool.type # "avd" => Size = Objects
<1>1. Objects \in Nat \ {0} /\ ObjectSize \in Nat \ {0}
  BY Zenon DEF Setting
<1>2. Size = IF pool.type = "avd" THEN (Objects * ObjectSize) \div 1
                                  ELSE (Objects * ObjectSize) \div ObjectSize
  BY Zenon DEF Size, PoolEntries, CountedSize
<1>3. Objects * ObjectSize \in Nat /\ (Objects * ObjectSize) \div ObjectSize = Objects
      /\ (Objects * ObjectSize) \div 1 = Objects * ObjectSize /\ Objects <= Objects * ObjectSize
  BY Zenon, <1>1, Multiple
<1>4. Slot = 0..(Size - 1)
  BY Zenon DEF Slot, Slots, Size
<1> QED
  BY <1>1, <1>2, <1>3, <1>4

(* A scan visits slots, and all of them.                                   *)
LEMMA ScanSlot ==
  ASSUME Setting, PoolInv, NEW k \in Nat
  PROVE  Scan(k) \in Slot
<1>1. pool.last \in 0..(Size - 1) /\ Size \in Nat \ {0} /\ Slot = 0..(Size - 1)
  BY Zenon, SizeIs DEF PoolInv
<1>2. (pool.last + k) % Size \in 0..(Size - 1)
  BY <1>1
<1> QED
  BY Zenon, <1>1, <1>2 DEF Scan, Size

LEMMA ScanAll ==
  ASSUME Setting, PoolInv, NEW i \in Slot
  PROVE  \E k \in 1..Size : Scan(k) = i
<1> DEFINE k == IF i > pool.last THEN i - pool.last ELSE i - pool.last + Size
<1>1. pool.last \in 0..(Size - 1) /\ i \in 0..(Size - 1) /\ Size \in Nat \ {0}
  BY Zenon, SizeIs DEF PoolInv
<1>2. k \in 1..Size
  BY <1>1
<1>3. (pool.last + k) % Size = i
  <2>1. CASE i > pool.last
    <3>1. pool.last + k = i
      BY <1>1, <2>1
    <3>2. i % Size = i
      BY <1>1
    <3> QED
      BY Zenon, <3>1, <3>2
  <2>2. CASE ~(i > pool.last)
    <3>1. pool.last + k = i + Size
      BY <1>1, <2>2
    <3>2. (i + Size) % Size = i
      BY <1>1
    <3> QED
      BY Zenon, <3>1, <3>2
  <2> QED
    BY Zenon, <2>1, <2>2
<1> QED
  BY Zenon, <1>2, <1>3 DEF Scan, Size

LEMMA ScanLast ==
  ASSUME Setting, PoolInv, NEW k \in 1..Size
  PROVE  Scan(k) = pool.last <=> k = Size
<1>1. pool.last \in 0..(Size - 1) /\ Size \in Nat \ {0}
  BY Zenon, SizeIs DEF PoolInv
<1>2. CASE k = Size
  <2>1. (pool.last + Size) % Size = pool.last
    BY <1>1
  <2> QED
    BY Zenon, <1>2, <2>1 DEF Scan, Size
<1>3. CASE k # Size /\ pool.last + k < Size
  <2>1. (pool.last + k) % Size = pool.last + k
    BY <1>1, <1>3
  <2> QED
    BY <1>1, <1>3, <2>1 DEF Scan, Size
<1>4. CASE k # Size /\ ~(pool.last + k < Size)
  <2>1. pool.last + k - Size \in 0..(Size - 1)
    BY <1>1, <1>4
  <2>2. (pool.last + k) % Size = pool.last + k - Size
    BY <1>1, <1>4, <2>1
  <2> QED
    BY <1>1, <1>4, <2>2 DEF Scan, Size
<1> QED
  BY Zenon, <1>2, <1>3, <1>4

(* A nonempty set of scan positions has a first one.                       *)
LEMMA FirstPosition ==
  ASSUME NEW T \in SUBSET Nat, T # {}
  PROVE  \E k \in T : \A j \in T : k <= j
<1> DEFINE R == {ss \in Nat \X Nat : ss[1] < ss[2]}
<1>1. IsWellFoundedOn(R, Nat)
  BY Zenon, NatLessThanWellFounded, Zenon DEF OpToRel
<1>2. \A j, k \in Nat : j < k => <<j, k>> \in R
  BY Zenon
<1> HIDE DEF R
<1>3. PICK k \in T : \A j \in T : ~(<<j, k>> \in R)
  BY Zenon, <1>1, WFMin
<1>4. ASSUME NEW j \in T PROVE k <= j
  <2>1. j \in Nat /\ k \in Nat
    BY Zenon
  <2>2. ~(j < k)
    BY Zenon, <1>2, <1>3, <2>1
  <2> QED
    BY <2>1, <2>2
<1> QED
  BY Zenon, <1>4

(* The scan finds a free slot, or ends where it began; it does so only     *)
(* when no other slot is free.                                             *)
LEMMA FirstFreeSlot ==
  ASSUME Setting, PoolInv
  PROVE  /\ FirstFree \in Slot
         /\ FirstFree # pool.last => pool.bitmap[FirstFree] = 0
         /\ FirstFree = pool.last =>
              \A i \in Slot : i # pool.last => pool.bitmap[i] = 1
<1> DEFINE free == {k \in 1 .. Size : pool.bitmap[Scan(k)] = 0}
           first == CHOOSE k \in free : \A j \in free : k <= j
<1>0. pool.last \in Slot /\ pool.bitmap \in [Slot -> {0, 1}]
  BY Zenon DEF PoolInv
<1>1. CASE free = {}
  <2>1. FirstFree = pool.last
    BY Zenon, <1>1 DEF FirstFree, Size
  <2>2. \A i \in Slot : pool.bitmap[i] = 1
    BY Zenon, <1>0, <1>1, ScanAll
  <2> QED
    BY Zenon, <1>0, <2>1, <2>2
<1>2. CASE free # {}
  <2>1. \E k \in free : \A j \in free : k <= j
    <3>1. free \in SUBSET Nat
      BY SizeIs
    <3> HIDE DEF free
    <3> QED
      BY Zenon, <1>2, <3>1, FirstPosition
  <2>2. first \in free /\ \A j \in free : first <= j
    BY Zenon, <2>1
  <2>3. FirstFree = Scan(first)
    BY Zenon, <1>2 DEF FirstFree, Size
  <2> HIDE DEF first
  <2>4. Scan(first) \in Slot /\ pool.bitmap[Scan(first)] = 0
    BY <2>2, ScanSlot
  <2>5. ASSUME FirstFree = pool.last, NEW i \in Slot, i # pool.last
        PROVE  pool.bitmap[i] = 1
    <3>1. PICK k \in 1..Size : Scan(k) = i
      BY Zenon, ScanAll
    <3>2. first = Size
      BY Zenon, <1>0, <2>2, <2>3, <2>5, ScanLast
    <3>3. k # Size
      BY Zenon, <1>0, <2>5, <3>1, ScanLast
    <3>4. k \notin free
      BY <2>2, <3>2, <3>3
    <3> QED
      BY Zenon, <1>0, <3>1, <3>4
  <2> QED
    BY Zenon, <2>3, <2>4, <2>5
<1> QED
  BY Zenon, <1>1, <1>2

(* A free slot next to the one handed out last is found first.             *)
LEMMA FreeNext ==
  ASSUME Setting, PoolInv, given = 1..pool.last, pool.last + 1 < Size
  PROVE  FirstFree = pool.last + 1
<1> DEFINE free == {k \in 1 .. Size : pool.bitmap[Scan(k)] = 0}
<1>0. Size \in Nat \ {0} /\ Slot = 0..(Size - 1) /\ pool.last \in 0..(Size - 1)
  BY Zenon, SizeIs DEF PoolInv
<1>1. Scan(1) = pool.last + 1
  <2>1. (pool.last + 1) % Size = pool.last + 1
    BY <1>0
  <2> QED
    BY Zenon, <2>1 DEF Scan, Size
<1>2. pool.bitmap[pool.last + 1] = 0
  <2>1. pool.last + 1 \in Slot /\ pool.last + 1 \notin given
    BY <1>0
  <2> QED
    BY Zenon, <2>1 DEF PoolInv, ObjectsOwnedOnce
<1>3. 1 \in free
  BY <1>0, <1>1, <1>2
<1>4. \A k \in free : (\A j \in free : k <= j) <=> k = 1
  BY <1>0, <1>3
<1>5. (CHOOSE k \in free : \A j \in free : k <= j) = 1
  <2> HIDE DEF free
  <2> QED
    BY Zenon, <1>3, <1>4
<1>6. FirstFree = IF free = {} THEN pool.last ELSE Scan(CHOOSE k \in free : \A j \in free : k <= j)
  BY Zenon DEF FirstFree, Size
<1> HIDE DEF free
<1> QED
  BY Zenon, <1>1, <1>3, <1>5, <1>6

(* ipc_free() computes the slot of an object from its address.             *)
LEMMA ItemOfAddress ==
  ASSUME Setting, PoolInv, pool.type # "avd", NEW i \in Slot
  PROVE  Item(Address(i)) = i
<1>1. ObjectSize \in Nat \ {0} /\ i \in Nat
  BY SizeIs DEF Setting
<1>2. (i * ObjectSize) \div ObjectSize = i
  BY Zenon, <1>1, Multiple
<1> QED
  BY Zenon, <1>2 DEF Item, Address, CountedSize

LEMMA PoolNext == Setting /\ PoolInv /\ [Next]_vars => PoolInv'
<1> SUFFICES ASSUME Setting, PoolInv, [Next]_vars
             PROVE  PoolInv'
  BY Zenon
<1>0. ASSUME NEW i \in Slot, NEW b \in {0, 1}, NEW l \in Slot,
             pool' = [pool EXCEPT !.bitmap[i] = b, !.last = l],
             given' = IF b = 1 THEN given \cup {i} ELSE given \ {i}
      PROVE  PoolInv'
  <2>1. pool'.type = pool.type /\ pool'.last = l /\ pool'.bitmap = [pool.bitmap EXCEPT ![i] = b]
        /\ pool' \in [type : {"object", "avd"}, bitmap : [Slot -> {0, 1}], last : Slot]
    BY Zenon, <1>0 DEF PoolInv
  <2>2. Slot' = Slot
    BY Zenon, <2>1 DEF Slot
  <2>3. given' = {j \in Slot : pool'.bitmap[j] = 1}
    BY <1>0, <2>1 DEF PoolInv, ObjectsOwnedOnce
  <2> QED
    BY Zenon, <2>1, <2>2, <2>3 DEF PoolInv, ObjectsOwnedOnce
<1>1. CASE Malloc
  <2>1. CASE FirstFree = pool.last
    BY Zenon, <1>1, <2>1 DEF Malloc, PoolInv, ObjectsOwnedOnce, Slot
  <2>2. CASE FirstFree # pool.last
    BY Zenon, <1>0, <1>1, <2>2, FirstFreeSlot DEF Malloc, Taken
  <2> QED
    BY Zenon, <2>1, <2>2
<1>2. ASSUME NEW i \in Slot, Free(i)
      PROVE  PoolInv'
  <2>1. pool' = [pool EXCEPT !.bitmap[i] = 0] /\ given' = given \ {i}
    BY Zenon, <1>2, ItemOfAddress DEF Free
  <2>2. pool.last \in Slot /\ pool' = [pool EXCEPT !.bitmap[i] = 0, !.last = pool.last]
    BY Zenon, <2>1 DEF PoolInv
  <2>3. given' = IF 0 = 1 THEN given \cup {i} ELSE given \ {i}
    BY <2>1
  <2> QED
    BY Zenon, <1>0, <2>2, <2>3
<1>3. CASE UNCHANGED <<pool, given>>
  BY Zenon, <1>3 DEF PoolInv, ObjectsOwnedOnce, Slot
<1> QED
  BY Zenon, <1>1, <1>2, <1>3 DEF Next, StrAlloc, PathAlloc, HeapAlloc, IsmCreate, IsmMalloc, IsmDelete, vars

LEMMA PoolInit == Setting /\ Init => PoolInv
<1> SUFFICES ASSUME Setting, Init
             PROVE  PoolInv
  BY Zenon
<1>1. PICK type \in PoolTypes : pool = [type |-> type, bitmap |-> [i \in Slots(type) |-> 0], last |-> 0]
  BY Zenon DEF Init
<1>2. Slot = Slots(type) /\ type \in {"object", "avd"}
  BY Zenon, <1>1 DEF Slot, Setting
<1>3. 0 \in Slot
  <2>1. Objects * ObjectSize >= 1 /\ (Objects * ObjectSize) \div 1 >= 1 /\ (Objects * ObjectSize) \div ObjectSize >= 1
    BY Multiple DEF Setting
  <2> QED
    BY <1>2, <2>1, Multiple DEF Slots, PoolEntries, CountedSize, Setting
<1>4. given = {i \in Slot : pool.bitmap[i] = 1}
  BY <1>1, <1>2 DEF Init
<1> QED
  BY Zenon, <1>1, <1>2, <1>3, <1>4 DEF PoolInv, ObjectsOwnedOnce

(* The bitmap of ipc_malloc() and ipc_free() marks exactly the objects     *)
(* that are held, for a pool of any size.                                  *)
THEOREM BitmapExact == ASSUME Setting PROVE Spec => []ObjectsOwnedOnce
<1>1. PoolInv => ObjectsOwnedOnce
  BY Zenon DEF PoolInv
<1> QED
  BY <1>1, PoolInit, PoolNext, PTL DEF Spec

(* Descriptors, which nobody frees, are handed out one after the other,    *)
(* from the second slot on, the first one last.                            *)
DescriptorInv == pool.type = "avd" => given = 1..pool.last \/ given = Slot

LEMMA DescriptorNext == Setting /\ PoolInv /\ DescriptorInv /\ [Next]_vars => DescriptorInv'
<1> SUFFICES ASSUME Setting, PoolInv, DescriptorInv, [Next]_vars, pool'.type = "avd"
             PROVE  (given = 1..pool.last \/ given = Slot)'
  BY Zenon DEF DescriptorInv
<1>0. Size \in Nat \ {0} /\ Slot = 0..(Size - 1) /\ pool.last \in Slot
  BY Zenon, SizeIs DEF PoolInv
<1>1. CASE UNCHANGED <<pool, given>>
  BY Zenon, <1>1 DEF DescriptorInv, Slot
<1>2. CASE Malloc /\ FirstFree # pool.last
  <2>1. /\ pool'.last = FirstFree /\ pool'.type = pool.type /\ given' = given \cup {FirstFree}
        /\ FirstFree \in Slot /\ pool.bitmap[FirstFree] = 0
    BY Zenon, <1>2, FirstFreeSlot DEF Malloc, Taken, PoolInv
  <2>2. Slot' = Slot
    BY Zenon, <2>1 DEF Slot
  <2>3. FirstFree \notin given
    BY <2>1 DEF PoolInv, ObjectsOwnedOnce
  <2>4. given = 1..pool.last
    BY Zenon, <2>1, <2>3 DEF DescriptorInv
  <2>5. CASE pool.last + 1 < Size
    <3>1. FirstFree = pool.last + 1
      BY Zenon, <1>0, <1>2, <2>4, <2>5, FreeNext
    <3> QED
      BY <1>0, <2>1, <2>4, <3>1
  <2>6. CASE ~(pool.last + 1 < Size)
    <3>1. FirstFree = 0 /\ given' = Slot
      BY <1>0, <2>1, <2>3, <2>4, <2>6
    <3> QED
      BY Zenon, <2>2, <3>1
  <2> QED
    BY Zenon, <2>5, <2>6
<1>3. CASE Malloc /\ FirstFree = pool.last
  BY Zenon, <1>1, <1>3 DEF Malloc
<1>4. ASSUME NEW i \in Slot, Free(i) PROVE FALSE
  BY Zenon, <1>4 DEF Free, PoolInv
<1> QED
  BY Zenon, <1>1, <1>2, <1>3, <1>4 DEF Next, StrAlloc, PathAlloc, HeapAlloc, IsmCreate, IsmMalloc, IsmDelete, vars

LEMMA One == 1 \in Int /\ Nat \subseteq Int
  OBVIOUS

(* Objects are handed out within their array, descriptors as long as there *)
(* are fewer than it holds.                                                *)
THEOREM PoolInside == ASSUME Setting PROVE Spec => []ObjectsInside
<1>1. Setting /\ Init => DescriptorInv
  <2> SUFFICES ASSUME Setting, Init PROVE given = 1..pool.last
    BY Zenon DEF DescriptorInv
  <2>0. PICK type \in PoolTypes : pool = [type |-> type, bitmap |-> [i \in Slots(type) |-> 0], last |-> 0]
    BY Zenon DEF Init
  <2>1. pool.last = 0 /\ given = {}
    BY Zenon, <2>0 DEF Init
  <2>2. 1..0 = {}
    OBVIOUS
  <2> QED
    BY Zenon, <2>1, <2>2
<1>2. ASSUME Setting, PoolInv, DescriptorInv, pool.type = "avd" => Cardinality(given) < Objects, NEW i \in given
      PROVE  Address(i) + ObjectSize <= Objects * ObjectSize
  <2>0. i \in Slot /\ pool.last \in Slot /\ given \subseteq Slot
    BY Zenon, <1>2 DEF PoolInv, ObjectsOwnedOnce
  <2>1. i \in Nat /\ pool.last \in Nat /\ Objects \in Nat \ {0} /\ ObjectSize \in Nat \ {0} /\ Size \in Nat \ {0} /\ Objects <= Size
        /\ Slot = 0..(Size - 1)
    BY <1>2, <2>0, SizeIs DEF Setting
  <2>2. i < Objects
    <3>1. CASE pool.type # "avd"
      BY <1>2, <2>0, <2>1, <3>1, SizeIs
    <3>2. CASE pool.type = "avd" /\ given = 1..pool.last
      <4>1. Cardinality(1..pool.last) = pool.last
        <5>1. Cardinality(1..pool.last) = IF 1 > pool.last THEN 0 ELSE pool.last - 1 + 1
          BY Zenon, <2>1, FS_Interval, One
        <5> QED
          BY <2>1, <5>1
      <4>2. pool.last < Objects /\ i \in 1..pool.last
        BY Zenon, <1>2, <3>2, <4>1
      <4> QED
        BY <2>1, <4>2
    <3>3. CASE pool.type = "avd" /\ given = Slot
      <4>1. Cardinality(0..(Size - 1)) = Size
        BY <2>1, FS_Interval
      <4>2. Size < Objects
        BY Zenon, <1>2, <2>1, <3>3, <4>1
      <4> QED
        BY <2>1, <4>2
    <3> QED
      BY Zenon, <1>2, <3>1, <3>2, <3>3 DEF DescriptorInv
  <2>3. (i + 1) * ObjectSize <= Objects * ObjectSize
    <3>1. \A m, n, k \in Nat : m <= n => m * k <= n * k
      OBVIOUS
    <3>2. i + 1 \in Nat /\ i + 1 <= Objects /\ Objects \in Nat /\ ObjectSize \in Nat
      BY <2>1, <2>2
    <3> QED
      BY Zenon, <3>1, <3>2
  <2>4. (i + 1) * ObjectSize = i * ObjectSize + ObjectSize
    BY <2>1
  <2> QED
    BY Zenon, <2>3, <2>4 DEF Address
<1>3. Setting /\ PoolInv /\ DescriptorInv => ObjectsInside
  BY Zenon, <1>2 DEF ObjectsInside
<1> QED
  BY <1>1, <1>3, PoolInit, PoolNext, DescriptorNext, PTL DEF Spec

(* ipc_malloc() hands out an object nobody holds, and fails only when no   *)
(* object but the one it handed out last is free.                          *)
THEOREM MallocFindsFree == ASSUME Setting PROVE Spec => MallocAnswers
<1>2. ASSUME Setting, PoolInv, Malloc
      PROVE  MallocAnswer
  <2>1. CASE FirstFree = pool.last
    <3>1. \A i \in Slot : i # pool.last => i \in given
      BY Zenon, <1>2, <2>1, FirstFreeSlot DEF PoolInv, ObjectsOwnedOnce
    <3> QED
      BY Zenon, <1>2, <2>1, <3>1 DEF Malloc, MallocAnswer
  <2>2. CASE FirstFree # pool.last
    <3>1. FirstFree \in Slot \ given
      BY <1>2, <2>2, FirstFreeSlot DEF PoolInv, ObjectsOwnedOnce
    <3> QED
      BY Zenon, <1>2, <2>2, <3>1 DEF Malloc, MallocAnswer
  <2> QED
    BY Zenon, <2>1, <2>2
<1>3. Setting /\ PoolInv => [MallocAnswer]_vars
  BY Zenon, <1>2 DEF MallocAnswer
<1> QED
  BY <1>3, PoolInit, PoolNext, PTL DEF Spec, MallocAnswers

-----------------------------------------------------------------------------
(* The bump allocators.                                                    *)
Limit(a) == IF a = "heap" THEN HeapMem ELSE StringMem

(* The regions handed out lie below the pointer and the limit, apart.      *)
TextInv ==
  /\ text \in [Arena -> [ptr : Nat, out : SUBSET SUBSET Nat]]
  /\ \A a \in Arena : \A r \in text[a].out :
       \A b \in r : b < text[a].ptr /\ b < Limit(a)
  /\ \A a \in Arena : \A r, s \in text[a].out : r # s => r \cap s = {}

LEMMA TextAllocInv ==
  ASSUME Setting, TextInv, NEW a \in Arena, NEW n \in Nat,
         text' = TextAlloc(a, n, Limit(a))
  PROVE  TextInv'
<1> DEFINE new == Region(text[a].ptr, n)
           fits == text[a].ptr + n <= Limit(a)
<1>1. text[a].ptr \in Nat /\ text[a].out \in SUBSET SUBSET Nat /\ Limit(a) \in Nat
  BY Zenon DEF TextInv, Setting, Limit
<1>2. new \in SUBSET Nat /\ \A b \in new : b >= text[a].ptr /\ b < text[a].ptr + n
  BY <1>1 DEF Region
<1>3. /\ text' \in [Arena -> [ptr : Nat, out : SUBSET SUBSET Nat]]
      /\ text'[a].ptr = text[a].ptr + n
      /\ text'[a].out = IF fits THEN text[a].out \cup {new} ELSE text[a].out
      /\ \A b \in Arena : b # a => text'[b] = text[b]
  <2>1. text' = [text EXCEPT ![a] = [ptr |-> text[a].ptr + n,
                                    out |-> IF text[a].ptr + n > Limit(a)
                                              THEN text[a].out ELSE text[a].out \cup {new}]]
    BY Zenon DEF TextAlloc
  <2>a. text[a].ptr + n > Limit(a) <=> ~fits
    BY <1>1
  <2>2. \A b \in Arena : b # a => text'[b] = text[b]
    BY Zenon, <2>1 DEF TextInv
  <2> HIDE DEF new, fits
  <2>3. text'[a] = [ptr |-> text[a].ptr + n,
                    out |-> IF fits THEN text[a].out \cup {new} ELSE text[a].out]
    BY Zenon, <2>1, <2>a DEF TextInv
  <2>4. DOMAIN text' = Arena /\ text' = [b \in Arena |-> text'[b]]
    BY Zenon, <2>1 DEF TextInv
  <2>5. text'[a] \in [ptr : Nat, out : SUBSET SUBSET Nat]
    <3>1. text[a].ptr + n \in Nat
      BY <1>1
    <3>2. (IF fits THEN text[a].out \cup {new} ELSE text[a].out) \in SUBSET SUBSET Nat
      BY Zenon, <1>1, <1>2
    <3> QED
      BY <2>3, <3>1, <3>2
  <2>6. \A b \in Arena : text'[b] \in [ptr : Nat, out : SUBSET SUBSET Nat]
    BY Zenon, <2>2, <2>5 DEF TextInv
  <2> QED
    BY <2>2, <2>3, <2>4, <2>6
<1> HIDE DEF new
<1>4. ASSUME NEW r \in text'[a].out, NEW b \in r
      PROVE  b < text'[a].ptr /\ b < Limit(a)
  <2>1. CASE r \in text[a].out
    <3>1. b \in Nat /\ b < text[a].ptr /\ b < Limit(a)
      BY Zenon, <1>1, <1>4, <2>1 DEF TextInv
    <3> QED
      BY <1>1, <1>3, <3>1
  <2>2. CASE r = new /\ fits
    BY <1>1, <1>2, <1>3, <1>4, <2>2
  <2> QED
    BY Zenon, <1>3, <1>4, <2>1, <2>2
<1>5. ASSUME NEW r \in text'[a].out, NEW s \in text'[a].out, r # s
      PROVE  r \cap s = {}
  <2>1. ASSUME NEW t \in text[a].out
        PROVE  t \cap new = {}
    BY <1>1, <1>2, <2>1 DEF TextInv
  <2> QED
    BY <1>3, <1>5, <2>1 DEF TextInv
<1> QED
  BY <1>3, <1>4, <1>5 DEF TextInv, Limit

LEMMA TextNext == Setting /\ TextInv /\ [Next]_vars => TextInv'
<1> SUFFICES ASSUME Setting, TextInv, [Next]_vars
             PROVE  TextInv'
  BY Zenon
<1>1. ASSUME NEW n \in Lengths, StrAlloc(n)
      PROVE  TextInv'
  BY <1>1, TextAllocInv DEF StrAlloc, Setting, Limit, Arena
<1>2. ASSUME NEW n \in Lengths, PathAlloc(n)
      PROVE  TextInv'
  BY <1>2, TextAllocInv DEF PathAlloc, Setting, Limit, Arena
<1>3. CASE UNCHANGED text
  BY Zenon, <1>3 DEF TextInv
<1>4. ASSUME NEW n \in Lengths, HeapAlloc(n)
      PROVE  TextInv'
  BY Zenon, <1>3, <1>4, TextAllocInv DEF HeapAlloc, Setting, Limit, Arena
<1> QED
  BY Zenon, <1>1, <1>2, <1>3, <1>4 DEF Next, Malloc, Free, IsmCreate, IsmMalloc, IsmDelete, vars

(* ipc_stralloc(), ipc_pathalloc() and ipc_cvar_heapalloc(): no two        *)
(* strings, paths or variables share a byte and none leaves its memory,    *)
(* for all sizes and orders of calls.                                      *)
THEOREM RegionsDisjoint == ASSUME Setting PROVE Spec => []TextDisjoint
<1>1. Setting /\ Init => TextInv
  BY DEF Setting, Init, TextInv
<1>2. Setting /\ TextInv => TextDisjoint
  <2> SUFFICES ASSUME Setting, TextInv, NEW a \in Arena
               PROVE  UNION text[a].out \subseteq 0 .. (Limit(a) - 1)
    BY Zenon DEF TextDisjoint, TextInv, Limit
  <2>1. ASSUME NEW r \in text[a].out, NEW b \in r
        PROVE  b \in 0 .. (Limit(a) - 1)
    <3>1. b \in Nat /\ b < Limit(a) /\ Limit(a) \in Nat
      BY Zenon, <2>1 DEF TextInv, Setting, Limit
    <3> QED
      BY <3>1
  <2> QED
    BY Zenon, <2>1
<1> QED
  BY <1>1, <1>2, TextNext, PTL DEF Spec

-----------------------------------------------------------------------------
(* The memory of the worker threads.                                       *)
Owners == {t \in Client : mem[t] >= 0}

(* The pointer is past the memory of those who have some, one after the    *)
(* other; without a region the lock is still taken or no thread will ask.  *)
MemInv ==
  /\ mem \in [Client -> Nat \cup {None, Gone}]
  /\ ism.ptr = Cardinality(Owners) * ThreadMem
  /\ \A t \in Owners : mem[t] + ThreadMem <= ism.ptr
  /\ \A t, u \in Owners :
       t # u => mem[t] + ThreadMem <= mem[u] \/ mem[u] + ThreadMem <= mem[t]
  /\ ism.id = None => Owners = {} /\ (ism.locked \/ \A t \in Client : mem[t] = Gone)

IsmTyped == ism \in [id : {None, 1}, locked : BOOLEAN, ptr : Nat, allocated : Nat]

LEMMA OwnersFinite ==
  ASSUME Setting
  PROVE  /\ IsFiniteSet(Owners) /\ Cardinality(Owners) \in Nat
         /\ Cardinality(Client) \in Nat /\ Cardinality(Owners) <= Cardinality(Client)
<1>1. Owners \in SUBSET Client
  BY Zenon DEF Owners
<1> QED
  BY Zenon, <1>1, FS_Subset, FS_CardinalityType DEF Setting

LEMMA IsmMallocInv ==
  ASSUME Setting, IsmTyped, MemInv, NEW t \in Client, IsmMalloc(t)
  PROVE  MemInv'
<1>1. /\ mem[t] = None /\ ~ism.locked /\ ism.ptr \in Nat /\ ThreadMem \in Nat
      /\ mem'[t] = ism.ptr /\ \A u \in Client : u # t => mem'[u] = mem[u]
      /\ ism'.ptr = ism.ptr + ThreadMem /\ ism'.id = ism.id
      /\ mem' \in [Client -> Nat \cup {None, Gone}]
  BY Zenon DEF IsmMalloc, IsmTyped, MemInv, Setting
<1>2. t \notin Owners /\ Owners' = Owners \cup {t}
  BY <1>1 DEF Owners, None, MemInv
<1>3. Cardinality(Owners') = Cardinality(Owners) + 1
  BY Zenon, <1>2, OwnersFinite, FS_AddElement
<1>4. ism'.ptr = Cardinality(Owners') * ThreadMem
  <2>1. (Cardinality(Owners) + 1) * ThreadMem = Cardinality(Owners) * ThreadMem + ThreadMem
    BY <1>1, OwnersFinite
  <2> QED
    BY Zenon, <1>1, <1>3, <2>1 DEF MemInv
<1>5. \A u \in Owners : mem[u] \in Nat /\ mem'[u] = mem[u] /\ mem[u] + ThreadMem <= ism.ptr
  BY <1>1, <1>2 DEF MemInv, Owners, None, Gone
<1>6. \A u \in Owners' : mem'[u] + ThreadMem <= ism'.ptr
  BY <1>1, <1>2, <1>5
<1>7. \A u, v \in Owners' :
        u # v => mem'[u] + ThreadMem <= mem'[v] \/ mem'[v] + ThreadMem <= mem'[u]
  BY Zenon, <1>1, <1>2, <1>5 DEF MemInv
<1>8. ism'.id # None
  BY <1>1 DEF MemInv, None, Gone
<1> QED
  BY Zenon, <1>1, <1>4, <1>6, <1>7, <1>8 DEF MemInv

LEMMA MemNext == Setting /\ IsmTyped /\ MemInv /\ [Next]_vars => IsmTyped' /\ MemInv'
<1> SUFFICES ASSUME Setting, IsmTyped, MemInv, [Next]_vars
             PROVE  IsmTyped' /\ MemInv'
  BY Zenon
<1>1. ASSUME NEW t \in Client, IsmMalloc(t)
      PROVE  IsmTyped' /\ MemInv'
  <2>1. IsmTyped'
    <3>1. ism.ptr + ThreadMem \in Nat /\ ism.allocated + ThreadMem \in Nat
      BY DEF IsmTyped, Setting
    <3>2. ism' = [ism EXCEPT !.ptr = ism.ptr + ThreadMem, !.allocated = ism.allocated + ThreadMem]
      BY Zenon, <1>1 DEF IsmMalloc
    <3> QED
      BY Zenon, <3>1, <3>2 DEF IsmTyped
  <2> QED
    BY Zenon, <1>1, <2>1, IsmMallocInv
<1>2. ASSUME NEW f \in IsmFaults, IsmCreate(f)
      PROVE  IsmTyped' /\ MemInv'
  <2>1. UNCHANGED mem /\ Owners' = Owners
    BY Zenon, <1>2 DEF IsmCreate, Owners
  <2>2. CASE UNCHANGED ism
    BY Zenon, <2>1, <2>2 DEF IsmTyped, MemInv
  <2>3. CASE ism.id = None /\ ism' = [ism EXCEPT !.id = 1]
    BY Zenon, <2>1, <2>3 DEF IsmTyped, MemInv, None
  <2>4. CASE ism.id = None /\ ism' = [ism EXCEPT !.id = 1, !.ptr = 0, !.locked = FALSE]
    <3>1. Owners = {} /\ ism.ptr = 0
      BY <2>4, FS_EmptySet DEF MemInv, Setting
    <3> QED
      <4>1. IsmTyped'
        BY Zenon, <2>4 DEF IsmTyped
      <4>2. ism'.ptr = 0 /\ ism'.id = 1
        BY Zenon, <2>4 DEF IsmTyped
      <4>3. MemInv'
        BY <2>1, <3>1, <4>2 DEF MemInv, None
      <4> QED
        BY Zenon, <4>1, <4>3
  <2> QED
    BY Zenon, <1>2, <2>2, <2>3, <2>4 DEF IsmCreate
<1>3. CASE IsmDelete
  <2>1. Owners' = {} /\ \A t \in Client : mem'[t] = Gone
    BY <1>3 DEF IsmDelete, Owners, Gone
  <2>2. Cardinality(Owners') * ThreadMem = 0
    BY <2>1, FS_EmptySet DEF Setting
  <2> QED
    BY Zenon, <1>3, <2>1, <2>2 DEF IsmDelete, IsmTyped, MemInv
<1>4. CASE UNCHANGED <<ism, mem>>
  BY Zenon, <1>4 DEF IsmTyped, MemInv, Owners
<1> QED
  BY Zenon, <1>1, <1>2, <1>3, <1>4 DEF Next, Malloc, Free, StrAlloc, PathAlloc, HeapAlloc, vars

LEMMA MemInit == Setting /\ Init => IsmTyped /\ MemInv
<1> SUFFICES ASSUME Setting, Init
             PROVE  IsmTyped /\ MemInv
  BY Zenon
<1>1. Owners = {}
  BY DEF Init, Owners, None
<1>2. Cardinality(Owners) * ThreadMem = 0
  BY <1>1, FS_EmptySet DEF Setting
<1> QED
  BY Zenon, <1>1, <1>2 DEF Init, IsmTyped, MemInv, None

(* ipc_ismmalloc(): each thread's memory is its own and inside the region  *)
(* of shm_required bytes, although it compares with no bound, for any      *)
(* number of threads and any failures of shmget() and shmat().             *)
THEOREM ThreadMemorySafe == ASSUME Setting PROVE Spec => []ThreadMemoryOwn
<1>1. ASSUME Setting, IsmTyped, MemInv
      PROVE  ThreadMemoryOwn
  <2>1. ism.ptr <= Cardinality(Client) * ThreadMem
    <3>1. \A m, n, k \in Nat : m <= n => m * k <= n * k
      OBVIOUS
    <3> QED
      BY Zenon, <1>1, <3>1, OwnersFinite DEF MemInv, Setting
  <2>2. \A t \in Client : mem[t] >= 0 => t \in Owners /\ mem[t] \in Nat
    BY <1>1 DEF Owners, MemInv, None, Gone
  <2>3. Cardinality(Client) * ThreadMem \in Nat /\ ism.ptr \in Nat /\ ThreadMem \in Nat
    BY <1>1, OwnersFinite DEF Setting, IsmTyped
  <2>4. ASSUME NEW t \in Client, mem[t] >= 0
        PROVE  mem[t] + ThreadMem <= Cardinality(Client) * ThreadMem
    BY <1>1, <2>1, <2>2, <2>3, <2>4 DEF MemInv
  <2>5. ASSUME NEW t \in Client, mem[t] >= 0, NEW u \in Client \ {t}, mem[u] >= 0
        PROVE  Region(mem[t], ThreadMem) \cap Region(mem[u], ThreadMem) = {}
    BY <1>1, <2>2, <2>3, <2>5 DEF MemInv, Region
  <2> QED
    BY Zenon, <2>4, <2>5 DEF ThreadMemoryOwn
<1> QED
  BY MemInit, MemNext, <1>1, PTL DEF Spec

(* A thread has memory only while there is a region: ipc_ismmalloc() waits *)
(* for the lock that only a successful ipc_ismcreate() releases.           *)
THEOREM RegionThere == ASSUME Setting PROVE Spec => []MemoryExists
<1>1. MemInv => MemoryExists
  BY Zenon DEF MemInv, MemoryExists, Owners
<1> QED
  BY MemInit, MemNext, <1>1, PTL DEF Spec

(* filebench's shared memory, for pools, strings and threads of any number *)
(* and size: whatever ipc.c hands out is the caller's own and in bounds    *)
(* (attribute descriptors up to the last but one of their array), and      *)
(* ipc_malloc() answers as its scan does, NULL with one object free        *)
(* included.                                                               *)
THEOREM MemoryHandedOutOnce == Spec => SharedMemoryExact
<1>1. Setting
  BY Zenon, MemoryAssumption DEF Setting
<1>2. Spec => [](ObjectsOwnedOnce /\ ObjectsInside /\ TextDisjoint /\ ThreadMemoryOwn /\ MemoryExists)
  BY <1>1, BitmapExact, PoolInside, RegionsDisjoint, ThreadMemorySafe, RegionThere, PTL
<1> QED
  BY <1>1, <1>2, MallocFindsFree, PTL DEF SharedMemoryExact
=============================================================================
