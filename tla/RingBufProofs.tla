---------------------------- MODULE RingBufProofs ---------------------------
(***************************************************************************)
(* Proofs about RingBuf, for every set of sizes, every number of pushes    *)
(* and every interleaving.  Two inductive invariants: Control says which   *)
(* thread is where (types, mutexes, and that the main thread does not read *)
(* while it resizes); Buffer says what the variables of the ring buffer    *)
(* hold at each of those places.                                           *)
(***************************************************************************)
EXTENDS RingBuf, TLAPS

\* Wrap-around, without the remainder: an index below the size, an index
\* that went around once, and the range of any index.
LEMMA ModSmall == ASSUME NEW n \in Nat \ {0}, NEW a \in 0..n-1 PROVE a % n = a
OBVIOUS

LEMMA ModOnce == ASSUME NEW n \in Nat \ {0}, NEW a \in n..2*n-1 PROVE a % n = a - n
OBVIOUS

LEMMA ModRange == ASSUME NEW n \in Nat \ {0}, NEW a \in Int PROVE a % n \in 0..n-1
OBVIOUS

\* An array without elements is an array.
LEMMA FreedIsArray == Freed \in ArrayOf(0)
BY DEF Freed, ArrayOf

\* Reading an array yields a value, at any index.
LEMMA DerefIsValue ==
    ASSUME NEW n, NEW a \in ArrayOf(n), NEW i
    PROVE  Deref(a, i) \in Value
BY DEF ArrayOf, Deref, Value

-----------------------------------------------------------------------------
(* Control                                                                 *)

\* The main thread, busy with a resize, has no snapshot under way.
MainInTurn == Main \in Readers /\ resize # "idle" => rd[Main].pc = "idle"

Control == /\ TypeOK
           /\ MutexDiscipline
           /\ MainInTurn
           /\ Pushing => pushed > 0

LEMMA ControlInit == Init => Control
<1> SUFFICES ASSUME Init PROVE Control
  OBVIOUS
<1> USE ThreadsAssumption, BoundsAssumption DEF Init
<1>1. TypeOK
  <2>1. data \in ArrayOf(size) /\ timestamps \in ArrayOf(size)
    BY DEF ArrayOf, Value
  <2>2. rd \in [Readers -> Reader]
    BY DEF IdleReader, Reader, ReadPc
  <2> QED
    BY <2>1, <2>2, FreedIsArray DEF TypeOK, Thread, PushPc, ResizePc
<1>2. MutexDiscipline
  BY DEF MutexDiscipline
<1>3. MainInTurn /\ (Pushing => pushed > 0)
  BY DEF MainInTurn, Pushing
<1> QED
  BY <1>1, <1>2, <1>3 DEF Control

LEMMA ControlPush == Control /\ PushStep => Control'
<1> SUFFICES ASSUME Control, PushStep PROVE Control'
  OBVIOUS
<1> USE ThreadsAssumption, BoundsAssumption DEF Control
<1>1. PICK n \in Sizes \union {0} : data \in ArrayOf(n) /\ timestamps \in ArrayOf(n)
  BY DEF TypeOK
<1> DEFINE Kept == /\ data' \in ArrayOf(n) /\ timestamps' \in ArrayOf(n)
                   /\ size' = size /\ head' \in Nat /\ tail' \in Nat /\ count' \in Nat
                   /\ pushed' \in Nat /\ (Pushing' => pushed' > 0)
                   /\ UNCHANGED <<resize_mutex, rz, rd, disturbed>>
<1>2. Kept
  <2>1. /\ size \in Nat \ {0}
        /\ head \in Nat /\ tail \in Nat /\ count \in Nat /\ pushed \in Nat
    BY DEF TypeOK
  <2>8. (head + 1) % size \in Nat /\ (tail + 1) % size \in Nat
    <3>1. (head + 1) % size \in 0..size-1 /\ (tail + 1) % size \in 0..size-1
      BY <2>1, ModRange
    <3> QED
      BY <2>1, <3>1
  <2>2. CASE PushLock
    BY <1>1, <2>1, <2>2 DEF PushLock, bufVars, Pushing
  <2>3. CASE PushData
    <3>1. data' \in ArrayOf(n)
      <4>1. pushed + 1 \in Value
        BY <2>1 DEF Value
      <4> QED
        BY <1>1, <2>3, <4>1 DEF PushData, ArrayOf
    <3> QED
      BY <1>1, <2>1, <2>3, <3>1 DEF PushData, lockVars, Pushing
  <2>4. CASE PushTime
    <3>1. timestamps' \in ArrayOf(n)
      <4>1. pushed \in Value
        BY <2>1 DEF Value
      <4> QED
        BY <1>1, <2>4, <4>1 DEF PushTime, ArrayOf
    <3> QED
      BY <1>1, <2>1, <2>4, <3>1 DEF PushTime, lockVars, Pushing
  <2>5. CASE PushHead
    BY <1>1, <2>1, <2>5, <2>8 DEF PushHead, lockVars, Pushing
  <2>6. CASE PushCount
    BY <1>1, <2>1, <2>6, <2>8 DEF PushCount, lockVars, Pushing
  <2>7. CASE PushUnlock
    BY <1>1, <2>1, <2>7 DEF PushUnlock, bufVars, Pushing
  <2> QED
    BY <2>2, <2>3, <2>4, <2>5, <2>6, <2>7 DEF PushStep
<1>3. TypeOK'
  <2>1. write_mutex' \in Thread /\ push' \in PushPc
    BY DEF PushStep, PushLock, PushData, PushTime, PushHead, PushCount,
       PushUnlock, lockVars, TypeOK, Thread, PushPc
  <2> QED
    BY <1>2, <2>1 DEF TypeOK, rz, newVars
<1>4. MutexDiscipline'
  BY DEF MutexDiscipline, PushStep, PushLock, PushData, PushTime, PushHead, PushCount,
     PushUnlock, lockVars, rz, newVars
<1>5. MainInTurn'
  BY <1>2 DEF MainInTurn, rz
<1> QED
  BY <1>2, <1>3, <1>4, <1>5

\* What a resize installs is an array, whatever it was copied from.
LEMMA ResizedIsArray ==
    ASSUME NEW n, NEW a \in ArrayOf(n), NEW new \in Nat, NEW copy \in Nat
    PROVE  Resized(a, new, copy) \in ArrayOf(new)
BY DerefIsValue DEF Resized, ArrayOf, Value

LEMMA ControlResize == Control /\ ResizeStep => Control'
<1> SUFFICES ASSUME Control, ResizeStep PROVE Control'
  OBVIOUS
<1> USE ThreadsAssumption, BoundsAssumption DEF Control
<1>1. PICK n \in Sizes \union {0} : data \in ArrayOf(n) /\ timestamps \in ArrayOf(n)
  BY DEF TypeOK
<1>2. PICK m \in Sizes \union {0} : new_data \in ArrayOf(m) /\ new_timestamps \in ArrayOf(m)
  BY DEF TypeOK
<1>3. /\ size \in Sizes /\ size \in Nat \ {0} /\ Sizes \subseteq Nat
      /\ head \in Nat /\ tail \in Nat /\ count \in Nat /\ copy_count \in Nat
      /\ new_size \in Sizes \union {0} /\ (new_size = 0 <=> resize = "idle")
      /\ write_mutex \in Thread /\ resize_mutex \in {NoThread, Main}
      /\ disturbed \subseteq Readers /\ 0 \in Value
  BY DEF TypeOK, Value
\* The parts of TypeOK that a resize may change, and the rest.
<1> DEFINE Arrays == \E k \in Sizes \union {0} : data \in ArrayOf(k) /\ timestamps \in ArrayOf(k)
           News   == \E k \in Sizes \union {0} : /\ new_data \in ArrayOf(k)
                                                 /\ new_timestamps \in ArrayOf(k)
           Nums   == /\ size \in Sizes /\ head \in Nat /\ tail \in Nat /\ count \in Nat
                     /\ resize \in ResizePc /\ copy_count \in Nat
                     /\ new_size \in Sizes \union {0} /\ (new_size = 0 <=> resize = "idle")
                     /\ write_mutex \in Thread /\ resize_mutex \in {NoThread, Main}
                     /\ disturbed \subseteq Readers
<1>4. Arrays'
  <2>1. CASE resize = "free"
    <3>1. data' = Freed /\ timestamps' = Freed
      BY <2>1 DEF ResizeStep, ResizeBegin, ResizeLock, ResizeGiveUp, ResizeCopy, ResizeFree,
         ResizeArrays, ResizeSize, ResizeHead, ResizeTail, ResizeCount, ResizeClear,
         ResizeUnlock, ResizeReturn
    <3> QED
      BY <3>1, FreedIsArray
  <2>2. CASE resize = "arrays"
    <3>1. data' = new_data /\ timestamps' = new_timestamps
      BY <2>2 DEF ResizeStep, ResizeBegin, ResizeLock, ResizeGiveUp, ResizeCopy, ResizeFree,
         ResizeArrays, ResizeSize, ResizeHead, ResizeTail, ResizeCount, ResizeClear,
         ResizeUnlock, ResizeReturn
    <3> QED
      BY <1>2, <3>1
  <2>3. CASE resize = "clear"
    <3>1. ResizeClear
      BY <2>3 DEF ResizeStep, ResizeBegin, ResizeLock, ResizeGiveUp, ResizeCopy, ResizeFree,
         ResizeArrays, ResizeSize, ResizeHead, ResizeTail, ResizeCount, ResizeClear,
         ResizeUnlock, ResizeReturn
    <3>2. data' \in ArrayOf(n) /\ timestamps' \in ArrayOf(n)
      BY <1>1, <1>3, <3>1 DEF ResizeClear, ArrayOf
    <3> QED
      BY <3>2
  <2>4. CASE resize \notin {"free", "arrays", "clear"}
    <3>1. data' = data /\ timestamps' = timestamps
      BY <2>4 DEF ResizeStep, ResizeBegin, ResizeLock, ResizeGiveUp, ResizeCopy, ResizeFree,
         ResizeArrays, ResizeSize, ResizeHead, ResizeTail, ResizeCount, ResizeClear,
         ResizeUnlock, ResizeReturn, bufVars
    <3> QED
      BY <1>1, <3>1
  <2> QED
    BY <2>1, <2>2, <2>3, <2>4
<1>5. News'
  <2>1. CASE ResizeCopy
    <3>1. copy_count' \in Nat /\ new_size \in Nat
      BY <1>3, <2>1 DEF ResizeCopy
    <3>2. /\ Resized(data, new_size, copy_count') \in ArrayOf(new_size)
          /\ Resized(timestamps, new_size, copy_count') \in ArrayOf(new_size)
      BY <1>1, <3>1, ResizedIsArray
    <3> QED
      BY <1>3, <2>1, <3>2 DEF ResizeCopy
  <2>2. CASE ResizeReturn
    BY <2>2, FreedIsArray DEF ResizeReturn
  <2>3. CASE UNCHANGED <<new_data, new_timestamps>>
    BY <1>2, <2>3
  <2> QED
    BY <2>1, <2>2, <2>3 DEF ResizeStep, ResizeBegin, ResizeLock, ResizeGiveUp, ResizeFree,
       ResizeArrays, ResizeSize, ResizeHead, ResizeTail, ResizeCount, ResizeClear,
       ResizeUnlock, newVars
<1>6. Nums'
  <2>1. ASSUME NEW new \in Sizes, ResizeBegin(new) PROVE Nums'
    BY <1>3, <2>1 DEF ResizeBegin, bufVars, ResizePc
  <2>2. CASE ResizeLock \/ ResizeGiveUp \/ ResizeUnlock \/ ResizeReturn
    BY <1>3, <2>2 DEF ResizeLock, ResizeGiveUp, ResizeUnlock, ResizeReturn, bufVars, lockVars,
       newVars, ResizePc, Thread
  <2>3. CASE ResizeCopy
    BY <1>3, <2>3 DEF ResizeCopy, bufVars, lockVars, ResizePc
  <2>4. CASE ResizeFree \/ ResizeArrays \/ ResizeSize
    BY <1>3, <2>4 DEF ResizeFree, ResizeArrays, ResizeSize, lockVars, newVars, ResizePc
  <2>5. CASE ResizeHead
    <3>1. new_size \in Nat \ {0}
      BY <1>3, <2>5 DEF ResizeHead
    <3>2. copy_count % new_size \in 0..new_size-1
      <4>1. copy_count \in Int
        BY <1>3
      <4> QED
        BY <3>1, <4>1, ModRange
    <3> QED
      BY <1>3, <2>5, <3>1, <3>2 DEF ResizeHead, lockVars, newVars, ResizePc
  <2>6. CASE ResizeTail \/ ResizeCount \/ ResizeClear
    BY <1>3, <2>6 DEF ResizeTail, ResizeCount, ResizeClear, lockVars, newVars, ResizePc
  <2> QED
    BY <2>1, <2>2, <2>3, <2>4, <2>5, <2>6 DEF ResizeStep
<1>7. UNCHANGED <<push, rd, pushed>>
  BY DEF ResizeStep, ResizeBegin, ResizeLock, ResizeGiveUp, ResizeCopy,
     ResizeFree, ResizeArrays, ResizeSize, ResizeHead, ResizeTail, ResizeCount,
     ResizeClear, ResizeUnlock, ResizeReturn
<1>11. TypeOK'
  <2>1. push \in PushPc /\ pushed \in Nat /\ rd \in [Readers -> Reader]
    BY DEF TypeOK
  <2> QED
    BY <1>4, <1>5, <1>6, <1>7, <2>1 DEF TypeOK
<1>8. MutexDiscipline'
  <2> HIDE DEF Control
  <2>1. MutexDiscipline
    BY DEF Control
  <2> QED
    BY <2>1 DEF MutexDiscipline, ResizeStep, ResizeBegin, ResizeLock, ResizeGiveUp, ResizeCopy,
       ResizeFree, ResizeArrays, ResizeSize, ResizeHead, ResizeTail, ResizeCount,
       ResizeClear, ResizeUnlock, ResizeReturn, lockVars
<1>9. MainInTurn'
  BY <1>7 DEF MainInTurn, ResizeStep, ResizeBegin, ResizeLock, ResizeGiveUp, ResizeCopy,
       ResizeFree, ResizeArrays, ResizeSize, ResizeHead, ResizeTail, ResizeCount,
       ResizeClear, ResizeUnlock, ResizeReturn
<1>10. (Pushing => pushed > 0)'
  BY <1>7 DEF Pushing
<1> QED
  BY <1>8, <1>9, <1>10, <1>11

LEMMA ControlRead == ASSUME NEW r \in Readers, Control, ReadStep(r) PROVE Control'
<1> USE ThreadsAssumption, BoundsAssumption DEF Control
<1>1. PICK n \in Sizes \union {0} : data \in ArrayOf(n) /\ timestamps \in ArrayOf(n)
  BY DEF TypeOK
<1>2. /\ UNCHANGED <<bufVars, lockVars, push, rz, pushed>>
      /\ \A q \in Readers : q # r => rd'[q] = rd[q]
      /\ r = Main /\ rd[r].pc = "idle" => resize = "idle"
  BY DEF TypeOK, ReadStep, ReadCount, ReadHead, ReadTail, ReadValue, ReadTime, VerifyCount,
     VerifyHead, VerifyTail, Verify, ReadReturn, Retry, Locals
<1>3. rd' \in [Readers -> Reader] /\ disturbed' \subseteq Readers
  <2>1. /\ rd \in [Readers -> Reader] /\ rd[r] \in Reader
        /\ disturbed \subseteq Readers
        /\ head \in Nat /\ tail \in Nat /\ count \in Nat /\ pushed \in Nat
        /\ rd[r].values \in Seq(Value) /\ rd[r].times \in Seq(Value)
    BY DEF TypeOK, Reader
  <2>2. Completed \in Nat
    BY <2>1 DEF Completed, Pushing
  <2>3. \A i : /\ Append(rd[r].values, Deref(data, i)) \in Seq(Value)
               /\ Append(rd[r].times, Deref(timestamps, i)) \in Seq(Value)
    BY <1>1, <2>1, DerefIsValue
  <2>4. IdleReader \in Reader
    BY DEF IdleReader, Reader, ReadPc
  <2>5. \A l : Locals(r, l) /\ l \in Reader => rd' \in [Readers -> Reader]
    BY <2>1 DEF Locals
  <2>6. CASE ReadCount(r)
    <3>1. [rd[r] EXCEPT !.pc = IF count = 0 THEN "ok" ELSE "head",
                        !.count = count, !.since = Completed] \in Reader
      BY <2>1, <2>2 DEF Reader, ReadPc
    <3> QED
      BY <2>1, <2>5, <2>6, <3>1 DEF ReadCount
  <2>7. CASE ReadHead(r) \/ ReadTail(r)
    <3>1. /\ [rd[r] EXCEPT !.pc = "tail", !.head = head] \in Reader
          /\ [rd[r] EXCEPT !.pc = "value", !.tail = tail] \in Reader
      BY <2>1 DEF Reader, ReadPc
    <3> QED
      BY <2>1, <2>5, <2>7, <3>1 DEF ReadHead, ReadTail
  <2>8. CASE ReadValue(r)
    <3>1. \A s \in Seq(Value) : [rd[r] EXCEPT !.pc = "time", !.values = s] \in Reader
      BY <2>1 DEF Reader, ReadPc
    <3> QED
      BY <2>1, <2>3, <2>5, <2>8, <3>1 DEF ReadValue
  <2>9. CASE ReadTime(r)
    <3>1. \A s \in Seq(Value), p \in ReadPc : [rd[r] EXCEPT !.pc = p, !.times = s] \in Reader
      BY <2>1 DEF Reader
    <3>2. \A b : (IF b THEN "value" ELSE "vcount") \in ReadPc
      BY DEF ReadPc
    <3> QED
      BY <2>1, <2>3, <2>5, <2>9, <3>1, <3>2 DEF ReadTime
  <2>10. CASE VerifyCount(r) \/ VerifyHead(r) \/ VerifyTail(r)
    <3>1. \A p \in ReadPc : [rd[r] EXCEPT !.pc = p] \in Reader
      BY <2>1 DEF Reader
    <3>2. \A p \in ReadPc : [IdleReader EXCEPT !.pc = p, !.attempts = rd[r].attempts + 1] \in Reader
      <4>1. rd[r].attempts + 1 \in Nat
        BY <2>1 DEF Reader
      <4> QED
        BY <2>4, <4>1 DEF Reader
    <3>3. {"vhead", "vtail", "ok", "count", "failed"} \subseteq ReadPc
      BY DEF ReadPc
    <3> QED
      BY <2>1, <2>5, <2>10, <3>1, <3>2, <3>3 DEF VerifyCount, VerifyHead, VerifyTail, Verify, Retry
  <2>11. CASE ReadReturn(r)
    BY <2>1, <2>4, <2>5, <2>11 DEF ReadReturn
  <2> QED
    BY <2>6, <2>7, <2>8, <2>9, <2>10, <2>11 DEF ReadStep
<1>4. TypeOK'
  BY <1>2, <1>3 DEF TypeOK, bufVars, lockVars, rz, newVars
<1>5. MutexDiscipline'
  BY <1>2 DEF MutexDiscipline, lockVars, rz
<1>6. MainInTurn'
  BY <1>2 DEF MainInTurn, rz
<1>7. (Pushing => pushed > 0)'
  BY <1>2 DEF Pushing
<1> QED
  BY <1>4, <1>5, <1>6, <1>7

LEMMA ControlNext == Control /\ [Next]_vars => Control'
<1> SUFFICES ASSUME Control, [Next]_vars PROVE Control'
  OBVIOUS
<1>1. CASE PushStep
  BY <1>1, ControlPush
<1>2. CASE ResizeStep
  BY <1>2, ControlResize
<1>3. CASE \E r \in Readers : ReadStep(r)
  BY <1>3, ControlRead
<1>4. CASE UNCHANGED vars
  BY <1>4 DEF Control, TypeOK, MutexDiscipline, MainInTurn, Pushing,
     vars, bufVars, lockVars, rz, newVars
<1> QED
  BY <1>1, <1>2, <1>3, <1>4 DEF Next

LEMMA ControlHolds == Spec => []Control
<1> QED
  BY ControlInit, ControlNext, PTL DEF Spec

\* Every variable keeps its type, for all sizes and any number of pushes.
THEOREM TypeCorrect == Spec => []TypeOK
<1>1. Control => TypeOK
  BY DEF Control
<1> QED
  BY <1>1, ControlHolds, PTL

\* Each mutex is owned exactly by the thread between its lock and its unlock,
\* on all the paths through ringbuf_push and ringbuf_resize.
THEOREM MutexesAreDisciplined == Spec => []MutexDiscipline
<1>1. Control => MutexDiscipline
  BY DEF Control
<1> QED
  BY <1>1, ControlHolds, PTL

-----------------------------------------------------------------------------
(* Buffer                                                                  *)

\* How many slots back from h the slot i of an array of n is: its sample is
\* the Age-th newest.
Age(i, h, n) == IF i < h THEN h - i ELSE h + n - i

\* The c newest samples are in the array a, counted back from slot h; skip is
\* the slot of a sample that is still to be stored.
Holds(a, h, n, c, last, skip) ==
    \A i \in 0..n-1 : i # skip /\ Age(i, h, n) <= c => a[i] = last + 1 - Age(i, h, n)

NoSlot == -1

\* Between resizes: the arrays are whole, the indices agree and the newest
\* samples are where head says.
Whole == /\ data \in ArrayOf(size) /\ timestamps \in ArrayOf(size)
         /\ head \in 0..size-1 /\ tail \in 0..size-1 /\ count \in 0..size
         /\ push # "count" => tail + count \in {head, head + size}
         /\ push = "count" => tail + count + 1 \in {head, head + size, head + 2 * size}
         /\ Holds(data, LogHead, size, LogCount, pushed, NoSlot)
         /\ Holds(timestamps, LogHead, size, LogCount, pushed,
                  IF push = "time" THEN head ELSE NoSlot)

\* The new arrays start with the newest samples, oldest first.
Copied == /\ copy_count \in 0..new_size
          /\ new_data \in ArrayOf(new_size) /\ new_timestamps \in ArrayOf(new_size)
          /\ \A i \in 0..copy_count-1 : /\ new_data[i] = pushed + 1 + i - copy_count
                                        /\ new_timestamps[i] = pushed + 1 + i - copy_count

\* What the stores of a reallocation have installed so far.
Installed == /\ Reallocating /\ resize # "arrays" =>
                    data = new_data /\ timestamps = new_timestamps
             /\ resize \in {"head", "tail", "count", "clear"} => size = new_size
             /\ resize \in {"tail", "count", "clear"} => head = copy_count % new_size
             /\ resize \in {"count", "clear"} => tail = 0
             /\ resize = "clear" => count = copy_count

Buffer == /\ ~Reallocating => Whole
          /\ resize = "free" \/ Reallocating => Copied
          /\ Installed

LEMMA BufferInit == Init => Buffer
<1> SUFFICES ASSUME Init PROVE Buffer
  OBVIOUS
<1> USE BoundsAssumption DEF Init
<1>1. data \in ArrayOf(size) /\ timestamps \in ArrayOf(size)
  BY DEF ArrayOf, Value
<1>2. size \in Nat \ {0} /\ ~Reallocating /\ LogHead = 0 /\ LogCount = 0
  BY DEF Reallocating, LogHead, LogCount, Pushing
<1>3. \A i \in 0..size-1 : ~(Age(i, 0, size) <= 0)
  BY <1>2 DEF Age
<1>4. Whole
  BY <1>1, <1>2, <1>3 DEF Whole, Holds
<1> QED
  BY <1>2, <1>4 DEF Buffer, Installed

\* Pushing a sample makes every other sample one older.
LEMMA AgeNext ==
    ASSUME NEW n \in Nat \ {0}, NEW h \in 0..n-1, NEW i \in 0..n-1
    PROVE  /\ (h + 1) % n \in 0..n-1
           /\ Age(i, (h + 1) % n, n) = IF i = h THEN 1 ELSE Age(i, h, n) + 1
           /\ Age(i, h, n) \in 1..n
<1>1. CASE h + 1 < n
  <2>1. (h + 1) % n = h + 1
    BY <1>1, ModSmall
  <2> QED
    BY <1>1, <2>1 DEF Age
<1>2. CASE h + 1 = n
  <2>1. (h + 1) % n = 0
    BY <1>2, ModOnce
  <2> QED
    BY <1>2, <2>1 DEF Age
<1> QED
  BY <1>1, <1>2

\* The collector moves only while no reallocation is under way.
LEMMA PushExcludesResize ==
    Control /\ PushStep => /\ resize \in {"idle", "lock", "return"} /\ ~Reallocating
                           /\ size \in Nat \ {0} /\ pushed \in Nat /\ size' = size
                           /\ UNCHANGED <<resize, new_size, copy_count, new_data, new_timestamps>>
<1> SUFFICES ASSUME Control, PushStep
             PROVE  /\ resize \in {"idle", "lock", "return"}
                    /\ size \in Nat \ {0} /\ pushed \in Nat /\ size' = size
                    /\ UNCHANGED <<resize, new_size, copy_count, new_data, new_timestamps>>
  BY DEF Reallocating
<1>1. size \in Nat \ {0} /\ pushed \in Nat
  BY BoundsAssumption DEF Control, TypeOK
<1>2. write_mutex # Main
  BY ThreadsAssumption DEF Control, MutexDiscipline, PushStep, PushLock, PushData, PushTime,
     PushHead, PushCount, PushUnlock
<1>3. resize \in {"idle", "lock", "return"}
  BY <1>2 DEF Control, MutexDiscipline
<1>4. size' = size /\ UNCHANGED <<resize, new_size, copy_count, new_data, new_timestamps>>
  BY DEF PushStep, PushLock, PushData, PushTime, PushHead, PushCount, PushUnlock,
     bufVars, rz, newVars
<1> QED
  BY <1>1, <1>3, <1>4

LEMMA WholePush == Control /\ Buffer /\ PushStep => Whole'
<1> SUFFICES ASSUME Control, Buffer, PushStep PROVE Whole'
  OBVIOUS
<1>1. /\ ~Reallocating /\ ~Reallocating' /\ Whole
      /\ size \in Nat \ {0} /\ pushed \in Nat /\ size' = size
  BY PushExcludesResize DEF Buffer, Reallocating
<1> DEFINE next == (head + 1) % size
           n == size
<1>2. /\ data \in ArrayOf(size) /\ timestamps \in ArrayOf(size)
      /\ head \in 0..size-1 /\ tail \in 0..size-1 /\ count \in 0..size
      /\ next \in 0..size-1 /\ (tail + 1) % size \in 0..size-1
  BY <1>1, AgeNext DEF Whole
<1>3. CASE PushLock
  BY <1>1, <1>3 DEF PushLock, bufVars, Whole, LogHead, LogCount, Pushing
<1>4. CASE PushData
  <2>1. /\ Holds(data, head, n, count, pushed, NoSlot)
        /\ Holds(timestamps, head, n, count, pushed, NoSlot)
        /\ tail + count \in {head, head + size}
    BY <1>1, <1>4 DEF PushData, Whole, LogHead, LogCount, Pushing
  <2>2. /\ LogHead' = next
        /\ LogCount' = IF count < n THEN count + 1 ELSE count
        /\ pushed' = pushed + 1 /\ push' = "time"
        /\ UNCHANGED <<timestamps, head, tail, count>>
    BY <1>1, <1>4 DEF PushData, LogHead, LogCount, Pushing
  <2>3. data' = [data EXCEPT ![head] = pushed + 1]
    BY <1>4 DEF PushData
  <2>4. data' \in ArrayOf(n) /\ data'[head] = pushed'
        /\ \A i \in 0..n-1 : i # head => data'[i] = data[i]
    <3>1. pushed + 1 \in Value
      BY <1>1 DEF Value
    <3> QED
      BY <1>2, <2>2, <2>3, <3>1 DEF ArrayOf
  <2>5. ASSUME NEW i \in 0..n-1, Age(i, next, n) <= LogCount'
        PROVE  /\ data'[i] = pushed' + 1 - Age(i, next, n)
               /\ i # head => timestamps[i] = pushed' + 1 - Age(i, next, n)
    <3>1. Age(i, next, n) = IF i = head THEN 1 ELSE Age(i, head, n) + 1
      BY <1>1, <1>2, AgeNext
    <3>2. Age(i, head, n) \in 1..n
      BY <1>1, <1>2, AgeNext
    <3>3. CASE i = head
      BY <1>1, <2>2, <2>4, <3>1, <3>3
    <3>4. CASE i # head
      <4>1. Age(i, head, n) <= count
        BY <1>1, <1>2, <2>2, <2>5, <3>1, <3>2, <3>4
      <4>2. data[i] = pushed + 1 - Age(i, head, n) /\ timestamps[i] = pushed + 1 - Age(i, head, n)
        BY <2>1, <4>1 DEF Holds, NoSlot
      <4> QED
        BY <1>1, <2>2, <2>4, <3>1, <3>2, <3>4, <4>2
    <3> QED
      BY <3>3, <3>4
  <2>6. /\ Holds(data', next, n, LogCount', pushed', NoSlot)
        /\ Holds(timestamps', next, n, LogCount', pushed', head)
    BY <2>2, <2>5 DEF Holds
  <2> QED
    BY <1>1, <1>2, <2>1, <2>2, <2>4, <2>6 DEF Whole
<1>5. CASE PushTime
  <2>1. /\ LogHead = next /\ LogHead' = next /\ LogCount' = LogCount /\ LogCount \in 0..n
        /\ UNCHANGED <<data, head, tail, count, pushed>> /\ push = "time" /\ push' = "head"
        /\ timestamps' = [timestamps EXCEPT ![head] = pushed]
        /\ tail + count \in {head, head + size}
    BY <1>1, <1>2, <1>5 DEF PushTime, LogHead, LogCount, Pushing, Whole
  <2>2. timestamps' \in ArrayOf(n) /\ timestamps'[head] = pushed
        /\ \A i \in 0..n-1 : i # head => timestamps'[i] = timestamps[i]
    <3>1. pushed \in Value
      BY <1>1 DEF Value
    <3> QED
      BY <1>2, <2>1, <3>1 DEF ArrayOf
  <2>3. Age(head, next, n) = 1
    BY <1>1, <1>2, AgeNext
  <2>4. Holds(timestamps', next, n, LogCount', pushed', NoSlot)
    BY <1>1, <2>1, <2>2, <2>3 DEF Whole, Holds
  <2> QED
    BY <1>1, <1>2, <2>1, <2>2, <2>4 DEF Whole
<1>6. CASE PushHead
  <2>1. /\ LogHead = next /\ LogHead' = next /\ LogCount' = LogCount
        /\ UNCHANGED <<data, timestamps, tail, count, pushed>> /\ head' = next
        /\ push = "head" /\ push' = "count"
    BY <1>1, <1>6 DEF PushHead, LogHead, LogCount, Pushing
  <2>2. head + 1 = next \/ (head + 1 = size /\ next = 0)
    BY <1>1, <1>2, ModSmall, ModOnce
  <2>3. tail + count + 1 \in {next, next + size, next + 2 * size}
    BY <1>1, <1>2, <2>1, <2>2 DEF Whole
  <2> QED
    BY <1>1, <1>2, <2>1, <2>3 DEF Whole
<1>7. CASE PushCount
  <2>1. /\ LogHead' = head /\ LogHead = head /\ LogCount' = count' /\ LogCount = count'
        /\ UNCHANGED <<data, timestamps, head, pushed>>
        /\ push = "count" /\ push' = "unlock"
    BY <1>1, <1>2, <1>7 DEF PushCount, LogHead, LogCount, Pushing
  <2>2. tail + 1 = (tail + 1) % size \/ (tail + 1 = size /\ (tail + 1) % size = 0)
    BY <1>1, <1>2, ModSmall, ModOnce
  <2>3. /\ tail' \in 0..size-1 /\ count' \in 0..size
        /\ tail' + count' \in {head, head + size}
    BY <1>1, <1>2, <1>7, <2>1, <2>2 DEF PushCount, Whole
  <2> QED
    BY <1>1, <1>2, <2>1, <2>3 DEF Whole
<1>8. CASE PushUnlock
  BY <1>1, <1>8 DEF PushUnlock, bufVars, Whole, LogHead, LogCount, Pushing
<1> QED
  BY <1>3, <1>4, <1>5, <1>6, <1>7, <1>8 DEF PushStep

LEMMA BufferPush == Control /\ Buffer /\ PushStep => Buffer'
<1> SUFFICES ASSUME Control, Buffer, PushStep PROVE Buffer'
  OBVIOUS
<1>1. resize \in {"idle", "lock", "return"} /\ resize' = resize
  BY PushExcludesResize
<1> QED
  BY <1>1, WholePush DEF Buffer, Installed, Reallocating

\* The main thread, with write_mutex in hand, finds the collector idle.
LEMMA ResizeExcludesPush ==
    Control /\ resize \notin {"idle", "lock", "return"} => push = "idle"
BY ThreadsAssumption DEF Control, MutexDiscipline

\* The copy loop finds the newest samples, whether it counts back from head
\* (the buffer shrinks) or forward from tail.
LEMMA CopiedFromWhole ==
    ASSUME Control, Whole, push = "idle", ~Reallocating,
           NEW new \in Nat \ {0}, NEW copy \in Nat,
           copy = IF count < new THEN count ELSE new,
           NEW i \in 0..copy-1
    PROVE  /\ Deref(data, SrcIndex(new, copy, i)) = pushed + 1 + i - copy
           /\ Deref(timestamps, SrcIndex(new, copy, i)) = pushed + 1 + i - copy
<1> DEFINE src == SrcIndex(new, copy, i)
<1>1. /\ size \in Nat \ {0} /\ pushed \in Nat
      /\ head \in 0..size-1 /\ tail \in 0..size-1 /\ count \in 0..size
      /\ data \in ArrayOf(size) /\ timestamps \in ArrayOf(size)
      /\ tail + count \in {head, head + size}
  BY BoundsAssumption DEF Control, TypeOK, Whole
<1>2. /\ Holds(data, head, size, count, pushed, NoSlot)
      /\ Holds(timestamps, head, size, count, pushed, NoSlot)
  BY DEF Whole, LogHead, LogCount, Pushing
<1>3. src \in 0..size-1 /\ Age(src, head, size) = copy - i
  <2>1. CASE new < count
    <3>1. head - copy + i + size \in 0..2*size-1
      BY <1>1, <2>1
    <3>2. src = (head - copy + i + size) % size
      BY <2>1 DEF SrcIndex
    <3>3. CASE head - copy + i + size < size
      <4>1. src = head - copy + i + size
        BY <1>1, <3>1, <3>2, <3>3, ModSmall
      <4> QED
        BY <1>1, <2>1, <3>1, <3>3, <4>1 DEF Age
    <3>4. CASE head - copy + i + size >= size
      <4>1. src = head - copy + i
        <5>1. head - copy + i + size \in size..2*size-1
          BY <1>1, <3>1, <3>4
        <5>2. (head - copy + i + size) % size = (head - copy + i + size) - size
          BY <1>1, <5>1, ModOnce
        <5> QED
          BY <1>1, <3>2, <5>2
      <4> QED
        BY <1>1, <2>1, <3>1, <3>4, <4>1 DEF Age
    <3> QED
      BY <1>1, <3>1, <3>3, <3>4
  <2>2. CASE ~(new < count)
    <3>1. copy = count /\ src = (tail + i) % size /\ tail + i \in 0..2*size-1
      BY <1>1, <2>2 DEF SrcIndex
    <3>2. CASE tail + i < size
      <4>1. src = tail + i
        BY <1>1, <3>1, <3>2, ModSmall
      <4> QED
        BY <1>1, <3>1, <3>2, <4>1 DEF Age
    <3>3. CASE tail + i >= size
      <4>1. src = tail + i - size
        <5>1. tail + i \in size..2*size-1
          BY <1>1, <3>1, <3>3
        <5>2. (tail + i) % size = (tail + i) - size
          BY <1>1, <5>1, ModOnce
        <5> QED
          BY <1>1, <3>1, <5>2
      <4> QED
        BY <1>1, <3>1, <3>3, <4>1 DEF Age
    <3> QED
      BY <1>1, <3>1, <3>2, <3>3
  <2> QED
    BY <2>1, <2>2
<1>4. Deref(data, src) = data[src] /\ Deref(timestamps, src) = timestamps[src]
  BY <1>1, <1>3 DEF Deref, ArrayOf
<1>5. src # NoSlot /\ Age(src, head, size) <= count
  BY <1>1, <1>3 DEF NoSlot
<1>6. /\ data[src] = pushed + 1 - Age(src, head, size)
      /\ timestamps[src] = pushed + 1 - Age(src, head, size)
  BY <1>2, <1>3, <1>5 DEF Holds
<1> HIDE DEF src
<1>7. pushed + 1 - (copy - i) = pushed + 1 + i - copy
  BY <1>1
<1> QED
  BY <1>3, <1>4, <1>6, <1>7 DEF src

LEMMA BufferResize == Control /\ Buffer /\ ResizeStep => Buffer'
<1> SUFFICES ASSUME Control, Buffer, ResizeStep PROVE Buffer'
  OBVIOUS
<1>1. /\ size \in Nat \ {0} /\ pushed \in Nat /\ new_size \in Sizes \union {0}
      /\ Sizes \subseteq Nat \ {0} /\ (new_size = 0 <=> resize = "idle")
      /\ 0 \in Value
  BY BoundsAssumption DEF Control, TypeOK, Value
<1>2. resize \notin {"idle", "lock", "return"} => push = "idle"
  BY ResizeExcludesPush
<1>3. ASSUME UNCHANGED <<bufVars, push, pushed>>, ~Reallocating, ~Reallocating', resize' # "free"
      PROVE  Buffer'
  BY <1>3 DEF Buffer, Whole, Installed, LogHead, LogCount, Pushing, Reallocating, bufVars
<1>4. ASSUME NEW new \in Sizes, ResizeBegin(new) PROVE Buffer'
  BY <1>3, <1>4 DEF ResizeBegin, Reallocating
<1>5. CASE ResizeLock \/ ResizeGiveUp \/ ResizeUnlock \/ ResizeReturn
  BY <1>3, <1>5 DEF ResizeLock, ResizeGiveUp, ResizeUnlock, ResizeReturn, Reallocating
<1>6. CASE ResizeCopy
  <2>1. /\ Whole /\ push = "idle" /\ ~Reallocating /\ ~Reallocating' /\ resize' = "free"
        /\ new_size \in Nat \ {0} /\ UNCHANGED <<bufVars, push, pushed, new_size>>
        /\ copy_count' = IF count < new_size THEN count ELSE new_size
    BY <1>1, <1>2, <1>6 DEF ResizeCopy, Buffer, Reallocating
  <2>2. copy_count' \in 0..new_size /\ copy_count' \in Nat
    BY <1>1, <2>1 DEF Whole
  <2>3. new_data' = Resized(data, new_size, copy_count')
        /\ new_timestamps' = Resized(timestamps, new_size, copy_count')
    BY <1>6 DEF ResizeCopy
  <2>4. new_data' \in ArrayOf(new_size) /\ new_timestamps' \in ArrayOf(new_size)
    BY <2>1, <2>2, <2>3, ResizedIsArray DEF Whole
  <2>5. ASSUME NEW i \in 0..copy_count'-1
        PROVE  /\ new_data'[i] = pushed + 1 + i - copy_count'
               /\ new_timestamps'[i] = pushed + 1 + i - copy_count'
    <3>1. /\ Deref(data, SrcIndex(new_size, copy_count', i)) = pushed + 1 + i - copy_count'
          /\ Deref(timestamps, SrcIndex(new_size, copy_count', i)) = pushed + 1 + i - copy_count'
      BY <2>1, <2>2, CopiedFromWhole
    <3>2. i \in 0..new_size-1 /\ i < copy_count'
      BY <2>1, <2>2
    <3> QED
      BY <2>3, <3>1, <3>2 DEF Resized
  <2>6. Copied'
    BY <2>1, <2>2, <2>4, <2>5 DEF Copied
  <2>7. Whole'
    BY <2>1 DEF Whole, LogHead, LogCount, Pushing, Reallocating, bufVars
  <2> QED
    BY <2>1, <2>6, <2>7 DEF Buffer, Installed, Reallocating
<1>7. CASE ResizeFree \/ ResizeArrays \/ ResizeSize \/ ResizeHead \/ ResizeTail \/ ResizeCount
  <2>1. /\ UNCHANGED <<newVars, pushed>> /\ Reallocating' /\ Copied
    BY <1>7 DEF ResizeFree, ResizeArrays, ResizeSize, ResizeHead, ResizeTail, ResizeCount,
       Reallocating, Buffer
  <2>2. Copied'
    BY <2>1 DEF Copied, newVars
  <2>3. Installed'
    BY <1>7, <2>1 DEF ResizeFree, ResizeArrays, ResizeSize, ResizeHead, ResizeTail, ResizeCount,
       Reallocating, Buffer, Installed, newVars
  <2> QED
    BY <2>1, <2>2, <2>3 DEF Buffer
<1>8. CASE ResizeClear
  <2> DEFINE copy == copy_count
             n    == new_size
  <2>1. /\ Reallocating /\ ~Reallocating' /\ resize' = "unlock" /\ Copied /\ Installed
        /\ push = "idle" /\ UNCHANGED <<newVars, size, head, tail, count, push, pushed>>
        /\ data = new_data /\ timestamps = new_timestamps
        /\ size = n /\ n \in Nat \ {0} /\ head = copy % n /\ tail = 0 /\ count = copy
        /\ copy \in 0..n
    BY <1>1, <1>2, <1>8 DEF ResizeClear, Reallocating, Buffer, Installed, Copied
  <2>2. data' \in ArrayOf(n) /\ timestamps' \in ArrayOf(n)
    BY <1>1, <1>8, <2>1 DEF ResizeClear, Copied, ArrayOf
  <2>3. \A i \in 0..copy-1 : /\ data'[i] = pushed + 1 + i - copy
                             /\ timestamps'[i] = pushed + 1 + i - copy
    <3>1. ASSUME NEW i \in 0..copy-1 PROVE data'[i] = data[i] /\ timestamps'[i] = timestamps[i]
      <4>1. i \in DOMAIN data /\ i \in DOMAIN timestamps /\ i < copy
        BY <2>1 DEF Copied, ArrayOf
      <4> QED
        BY <1>8, <4>1 DEF ResizeClear
    <3> QED
      BY <2>1, <3>1 DEF Copied
  <2>4. (copy < n /\ head = copy) \/ (copy = n /\ head = 0)
    BY <2>1, ModSmall, ModOnce
  <2>5. LogHead' = head /\ LogCount' = copy
    BY <2>1 DEF LogHead, LogCount, Pushing
  <2>6. ASSUME NEW i \in 0..n-1, Age(i, head, n) <= copy
        PROVE  /\ data'[i] = pushed + 1 - Age(i, head, n)
               /\ timestamps'[i] = pushed + 1 - Age(i, head, n)
    <3>1. i \in 0..copy-1 /\ Age(i, head, n) = copy - i
      BY <2>1, <2>4, <2>6 DEF Age
    <3> QED
      BY <1>1, <2>1, <2>3, <3>1
  <2>7. Whole'
    <3>1. head \in 0..n-1 /\ tail + count \in {head, head + n}
      BY <2>1, <2>4
    <3>2. /\ Holds(data', head, n, copy, pushed, NoSlot)
          /\ Holds(timestamps', head, n, copy, pushed, NoSlot)
      BY <2>6 DEF Holds
    <3> QED
      BY <2>1, <2>2, <2>5, <3>1, <3>2 DEF Whole, newVars
  <2> QED
    BY <2>1, <2>7 DEF Buffer, Installed, Reallocating
<1> QED
  BY <1>4, <1>5, <1>6, <1>7, <1>8 DEF ResizeStep

LEMMA BufferRead == ASSUME NEW r \in Readers, Buffer, ReadStep(r) PROVE Buffer'
BY DEF ReadStep, bufVars, rz, newVars, Buffer, Whole, Copied, Installed, Reallocating,
   LogHead, LogCount, Pushing, Holds

LEMMA BufferHolds == Spec => [](Control /\ Buffer)
<1>1. Control /\ Buffer /\ [Next]_vars => Buffer'
  <2> SUFFICES ASSUME Control, Buffer, [Next]_vars PROVE Buffer'
    OBVIOUS
  <2>1. CASE PushStep
    BY <2>1, BufferPush
  <2>2. CASE ResizeStep
    BY <2>2, BufferResize
  <2>3. CASE \E r \in Readers : ReadStep(r)
    BY <2>3, BufferRead
  <2>4. CASE UNCHANGED vars
    BY <2>4 DEF vars, bufVars, rz, newVars, Buffer, Whole, Copied, Installed, Reallocating,
       LogHead, LogCount, Pushing, Holds
  <2> QED
    BY <2>1, <2>2, <2>3, <2>4 DEF Next
<1> QED
  BY <1>1, BufferInit, ControlHolds, PTL DEF Spec

-----------------------------------------------------------------------------
(* The theorems about the buffer                                           *)

\* head, tail and count always describe the same window, outside the stores
\* that move them.
THEOREM IndicesAlwaysAgree == Spec => []IndicesAgree
<1>1. Control /\ Buffer => IndicesAgree
  <2> SUFFICES ASSUME Control, Buffer PROVE IndicesAgree
    OBVIOUS
  <2>1. size \in Nat \ {0}
    BY BoundsAssumption DEF Control, TypeOK
  <2> QED
    BY <2>1 DEF Buffer, Whole, IndicesAgree
<1> QED
  BY <1>1, BufferHolds, PTL

\* The k-th slot back from head, computed with the remainder as the code does,
\* is the slot whose sample is the k-th newest.
LEMMA SlotAge ==
    ASSUME NEW n \in Nat \ {0}, NEW h \in 0..n-1, NEW k \in 1..n
    PROVE  (h - k + n) % n \in 0..n-1 /\ Age((h - k + n) % n, h, n) = k
<1>1. CASE h - k < 0
  <2>1. h - k + n \in 0..n-1
    BY <1>1
  <2>2. (h - k + n) % n = h - k + n
    BY <2>1, ModSmall
  <2> QED
    BY <1>1, <2>1, <2>2 DEF Age
<1>2. CASE h - k >= 0
  <2>1. h - k + n \in n..2*n-1
    BY <1>2
  <2>2. (h - k + n) % n = h - k + n - n
    BY <2>1, ModOnce
  <2> QED
    BY <1>2, <2>2 DEF Age
<1> QED
  BY <1>1, <1>2

\* Through any interleaving of pushes and resizes, the buffer holds the newest
\* samples, in order and with their timestamps.
THEOREM WindowAlwaysNewest == Spec => []WindowIsNewest
<1>1. Control /\ Buffer => WindowIsNewest
  <2> SUFFICES ASSUME Control, Buffer PROVE WindowIsNewest
    OBVIOUS
  <2>1. /\ size \in Nat \ {0} /\ pushed \in Nat
        /\ Sizes \subseteq Nat \ {0} /\ (new_size = 0 <=> resize = "idle")
        /\ new_size \in Sizes \union {0}
    BY BoundsAssumption DEF Control, TypeOK
  <2>2. CASE ~Reallocating
    <3>1. /\ Whole /\ LogSize = size /\ LogData = data /\ LogCount \in 0..size
          /\ LogHead \in 0..size-1
      <4>1. Whole /\ LogSize = size /\ LogData = data
        BY <2>2 DEF Buffer, LogSize, LogData
      <4>2. LogCount \in 0..size
        BY <2>1, <2>2, <4>1 DEF Whole, LogCount
      <4>3. (head + 1) % size \in 0..size-1
        BY <2>1, <4>1, AgeNext DEF Whole
      <4> QED
        BY <2>2, <4>1, <4>2, <4>3 DEF Whole, LogHead
    <3>2. ASSUME NEW k \in 1..LogCount
          PROVE  /\ Deref(data, Slot(k)) = pushed + 1 - k
                 /\ ~(push = "time" /\ k = 1) => Deref(timestamps, Slot(k)) = pushed + 1 - k
      <4> DEFINE s == Slot(k)
      <4>1. k \in 1..size
        BY <2>1, <3>1
      <4>2. s \in 0..size-1 /\ Age(s, LogHead, size) = k
        BY <2>1, <3>1, <4>1, SlotAge DEF Slot
      <4>3. push = "time" => Age(head, LogHead, size) = 1 /\ head \in 0..size-1
        BY <2>1, <2>2, <3>1, AgeNext DEF Whole, LogHead
      <4>4. s # NoSlot /\ k <= LogCount
        BY <2>1, <3>1, <4>2 DEF NoSlot
      <4>5. data[s] = pushed + 1 - k
        BY <3>1, <4>2, <4>4 DEF Whole, Holds
      <4>6. ~(push = "time" /\ k = 1) => timestamps[s] = pushed + 1 - k
        BY <3>1, <4>2, <4>3, <4>4 DEF Whole, Holds
      <4>7. Deref(data, s) = data[s] /\ Deref(timestamps, s) = timestamps[s]
        BY <3>1, <4>2 DEF Whole, ArrayOf, Deref
      <4> QED
        BY <4>5, <4>6, <4>7
    <3> QED
      BY <2>1, <3>1, <3>2 DEF WindowIsNewest
  <2>3. CASE Reallocating
    <3>1. new_size \in Nat \ {0}
      BY <2>1, <2>3 DEF Reallocating
    <3>2. /\ Copied /\ LogSize = new_size /\ LogData = new_data /\ LogCount = copy_count
          /\ LogHead = copy_count % new_size
      BY <2>3 DEF Buffer, LogSize, LogData, LogCount, LogHead
    <3>3. \/ copy_count < new_size /\ LogHead = copy_count
          \/ copy_count = new_size /\ LogHead = 0
      BY <3>1, <3>2, ModSmall, ModOnce DEF Copied
    <3>4. ASSUME NEW k \in 1..LogCount
          PROVE  Deref(LogData, Slot(k)) = pushed + 1 - k
      <4> DEFINE s == Slot(k)
      <4>1. k \in 1..new_size /\ copy_count \in 0..new_size
        BY <3>1, <3>2 DEF Copied
      <4>2. s \in 0..new_size-1 /\ Age(s, LogHead, new_size) = k
        <5>1. LogHead \in 0..new_size-1
          BY <3>1, <3>3, <4>1
        <5> QED
          BY <3>1, <3>2, <4>1, <5>1, SlotAge DEF Slot
      <4>3. s = copy_count - k
        BY <3>1, <3>2, <3>3, <4>1, <4>2 DEF Age
      <4>4. s \in 0..copy_count-1
        BY <3>2, <4>1, <4>3
      <4>5. new_data[s] = pushed + 1 + s - copy_count
        BY <3>2, <4>4 DEF Copied
      <4>6. Deref(LogData, s) = new_data[s]
        BY <3>2, <4>2 DEF Copied, ArrayOf, Deref
      <4> HIDE DEF s
      <4> QED
        BY <2>1, <4>1, <4>3, <4>5, <4>6 DEF s
    <3> QED
      BY <2>3, <3>1, <3>2, <3>4 DEF WindowIsNewest, Copied
  <2> QED
    BY <2>2, <2>3
<1> QED
  BY <1>1, BufferHolds, PTL

\* The main thread's own snapshots never touch a freed array, nor index past
\* the end of one.
THEOREM MainAlwaysReadsLiveArrays == Spec => []MainReadsLiveArrays
<1>1. Control /\ Buffer => MainReadsLiveArrays
  <2> SUFFICES ASSUME Control, Buffer, Main \in Readers, rd[Main].pc \in {"value", "time"}
               PROVE  /\ (rd[Main].tail + Len(rd[Main].values)) % size \in DOMAIN data
                      /\ (rd[Main].tail + Len(rd[Main].times)) % size \in DOMAIN timestamps
    BY DEF MainReadsLiveArrays
  <2>1. size \in Nat \ {0} /\ rd[Main] \in Reader
    BY BoundsAssumption DEF Control, TypeOK
  <2>2. ~Reallocating
    BY DEF Control, MainInTurn, Reallocating
  <2>3. DOMAIN data = 0..size-1 /\ DOMAIN timestamps = 0..size-1
    BY <2>2 DEF Buffer, Whole, ArrayOf
  <2>4. /\ rd[Main].tail + Len(rd[Main].values) \in Int
        /\ rd[Main].tail + Len(rd[Main].times) \in Int
    BY <2>1 DEF Reader
  <2> QED
    BY <2>1, <2>3, <2>4, ModRange
<1> QED
  BY <1>1, BufferHolds, PTL

-----------------------------------------------------------------------------
(* The code implements the abstract window                                 *)

\* The newest c of the samples 1..p, oldest first.
Stream(p, c) == [j \in 1..c |-> p - c + j]

LEMMA StreamIsSeq ==
    ASSUME NEW p \in Nat, NEW c \in Nat
    PROVE  /\ Stream(p, c) \in Seq(Int) /\ Len(Stream(p, c)) = c
           /\ \A j \in 1..c : Stream(p, c)[j] = p - c + j
<1>1. \A j \in 1..c : p - c + j \in Int
  OBVIOUS
<1>2. Stream(p, c) \in [1..c -> Int]
  BY <1>1 DEF Stream
<1>3. Stream(p, c) \in Seq(Int)
  BY <1>2
<1> QED
  BY <1>2, <1>3 DEF Stream

\* A push of the next sample into a window of n slots that holds c samples.
LEMMA StreamPush ==
    ASSUME NEW p \in Nat, NEW n \in Nat \ {0}, NEW c \in 0..n
    PROVE  Window!Newest(Append(Stream(p, c), p + 1), n)
               = Stream(p + 1, IF c < n THEN c + 1 ELSE c)
<1> DEFINE s == Append(Stream(p, c), p + 1)
<1>1. /\ s \in Seq(Int) /\ Len(s) = c + 1
      /\ \A j \in 1..c+1 : s[j] = p - c + j
  <2> DEFINE t == Stream(p, c)
  <2>1. t \in Seq(Int) /\ Len(t) = c /\ \A j \in 1..c : t[j] = p - c + j
    BY StreamIsSeq
  <2> HIDE DEF t
  <2>2. /\ Append(t, p + 1) \in Seq(Int) /\ Len(Append(t, p + 1)) = c + 1
        /\ \A j \in 1..c : Append(t, p + 1)[j] = t[j]
        /\ Append(t, p + 1)[c + 1] = p + 1
    BY <2>1
  <2> QED
    BY <2>1, <2>2 DEF t
<1>2. s = Stream(p + 1, c + 1)
  <2>1. s = [j \in 1..c+1 |-> s[j]]
    BY <1>1
  <2>2. \A j \in 1..c+1 : s[j] = p + 1 - (c + 1) + j
    BY <1>1
  <2> HIDE DEF s
  <2> QED
    BY <2>1, <2>2 DEF Stream
<1> HIDE DEF s
<1>3. CASE c < n
  <2>1. Window!Newest(s, n) = s
    BY <1>1, <1>3 DEF Window!Newest
  <2>2. (IF c < n THEN c + 1 ELSE c) = c + 1
    BY <1>3
  <2> QED
    BY <1>2, <2>1, <2>2 DEF s
<1>4. CASE c = n
  <2>1. Window!Newest(s, n) = SubSeq(s, 2, c + 1)
    BY <1>1, <1>4 DEF Window!Newest
  <2>2. SubSeq(s, 2, c + 1) = [j \in 1..c |-> s[j + 1]]
    BY <1>1, <1>4
  <2>3. \A j \in 1..c : s[j + 1] = p + 1 - c + j
    BY <1>1
  <2>4. SubSeq(s, 2, c + 1) = Stream(p + 1, c)
    BY <2>2, <2>3 DEF Stream
  <2> QED
    <3>1. (IF c < n THEN c + 1 ELSE c) = c
      BY <1>4
    <3> QED
      BY <2>1, <2>4, <3>1 DEF s
<1> QED
  BY <1>3, <1>4

\* A resize to n slots of a window that holds c samples.
LEMMA StreamResize ==
    ASSUME NEW p \in Nat, NEW c \in Nat, NEW n \in Nat \ {0}
    PROVE  Window!Newest(Stream(p, c), n) = Stream(p, IF c <= n THEN c ELSE n)
<1>1. CASE c <= n
  BY <1>1, StreamIsSeq DEF Window!Newest
<1>2. CASE c > n
  <2> DEFINE s == Stream(p, c)
  <2>1. s \in Seq(Int) /\ Len(s) = c /\ \A j \in 1..c : s[j] = p - c + j
    BY StreamIsSeq
  <2> HIDE DEF s
  <2>2. Window!Newest(s, n) = SubSeq(s, c - n + 1, c)
    BY <1>2, <2>1 DEF Window!Newest
  <2>3. SubSeq(s, c - n + 1, c) = [j \in 1..n |-> s[c - n + j]]
    BY <1>2, <2>1
  <2>4. \A j \in 1..n : s[c - n + j] = p - n + j
    BY <1>2, <2>1
  <2>5. SubSeq(s, c - n + 1, c) = Stream(p, n)
    BY <2>3, <2>4 DEF Stream
  <2> QED
    BY <1>2, <2>2, <2>5 DEF s
<1> QED
  BY <1>1, <1>2

\* What a thread has found out under write_mutex still holds when it acts on it.
Ready == /\ push = "data" => pushed < MaxPush
         /\ resize = "free" => copy_count = IF count < new_size THEN count ELSE new_size

LEMMA ReadyHolds == Spec => []Ready
<1>1. Init => Ready
  BY DEF Init, Ready
<1>2. Control /\ Ready /\ [Next]_vars => Ready'
  <2> SUFFICES ASSUME Control, Ready, [Next]_vars PROVE Ready'
    OBVIOUS
  <2>1. CASE PushStep
    <3>1. resize # "free" /\ resize' = resize
      BY <2>1, PushExcludesResize
    <3>2. (push = "data" => pushed < MaxPush)'
      BY <2>1 DEF PushStep, PushLock, PushData, PushTime, PushHead, PushCount, PushUnlock
    <3> QED
      BY <3>1, <3>2 DEF Ready
  <2>2. CASE ResizeStep
    BY <2>2 DEF Ready, ResizeStep, ResizeBegin, ResizeLock, ResizeGiveUp, ResizeCopy,
       ResizeFree, ResizeArrays, ResizeSize, ResizeHead, ResizeTail, ResizeCount,
       ResizeClear, ResizeUnlock, ResizeReturn, bufVars
  <2>3. CASE \E r \in Readers : ReadStep(r)
    BY <2>3 DEF Ready, ReadStep, bufVars, rz, newVars
  <2>4. CASE UNCHANGED vars
    BY <2>4 DEF Ready, vars, bufVars, rz, newVars
  <2> QED
    BY <2>1, <2>2, <2>3, <2>4 DEF Next
<1> QED
  BY <1>1, <1>2, ControlHolds, PTL DEF Spec

\* The logical window is determined by its numbers: how many samples were
\* pushed and how many it holds.
LogIsStream == /\ pushed \in Nat /\ LogSize \in Sizes /\ LogSize \in Nat \ {0}
               /\ LogCount \in 0..LogSize
               /\ LogWindow = Stream(pushed, LogCount)

LEMMA LogIsStreamHolds == Spec => []LogIsStream
<1>1. Control /\ WindowIsNewest => LogIsStream
  <2> SUFFICES ASSUME Control, WindowIsNewest PROVE LogIsStream
    OBVIOUS
  <2>1. pushed \in Nat /\ LogSize \in Sizes /\ LogCount \in Nat
    BY DEF Control, TypeOK, LogSize, LogCount, Reallocating
  <2>2. ASSUME NEW j \in 1..LogCount
        PROVE  Deref(LogData, Slot(LogCount + 1 - j)) = pushed - LogCount + j
    <3>1. LogCount + 1 - j \in 1..LogCount
      BY <2>1
    <3>2. Deref(LogData, Slot(LogCount + 1 - j)) = pushed + 1 - (LogCount + 1 - j)
      BY <3>1 DEF WindowIsNewest
    <3> QED
      BY <2>1, <3>2
  <2>3. LogWindow = Stream(pushed, LogCount)
    BY <2>2 DEF LogWindow, Stream
  <2> QED
    BY <2>1, <2>3, BoundsAssumption DEF LogIsStream, WindowIsNewest
<1> QED
  BY <1>1, BufferHolds, WindowAlwaysNewest, PTL

\* A step of the abstract window, in terms of its numbers alone.
LogPush   == /\ pushed < MaxPush /\ pushed' = pushed + 1
             /\ LogSize' = LogSize
             /\ LogCount' = IF LogCount < LogSize THEN LogCount + 1 ELSE LogCount
LogResize == /\ pushed' = pushed
             /\ LogCount' = IF LogCount <= LogSize' THEN LogCount ELSE LogSize'
LogStays  == pushed' = pushed /\ LogSize' = LogSize /\ LogCount' = LogCount

\* The store to the value array is the push; the other steps of the collector
\* are invisible.
LEMMA PushStepLog ==
    ASSUME Control, Buffer, Ready, PushStep
    PROVE  LogPush \/ LogStays
<1>1. /\ ~Reallocating /\ size \in Nat \ {0} /\ size' = size /\ pushed \in Nat
      /\ resize' = resize
  BY PushExcludesResize
<1>2. ~Reallocating'
  BY <1>1 DEF Reallocating
<1>3. count \in 0..size
  BY <1>1 DEF Buffer, Whole
<1>4. CASE PushData
  BY <1>1, <1>2, <1>3, <1>4 DEF PushData, Ready, LogPush, LogSize, LogCount, Pushing
<1>5. CASE PushCount
  BY <1>1, <1>2, <1>3, <1>5 DEF PushCount, LogStays, LogSize, LogCount, Pushing
<1>6. CASE PushLock \/ PushTime \/ PushHead \/ PushUnlock
  BY <1>1, <1>2, <1>6 DEF PushLock, PushTime, PushHead, PushUnlock, bufVars,
     LogStays, LogSize, LogCount, Pushing
<1> QED
  BY <1>4, <1>5, <1>6 DEF PushStep

\* The resize takes effect when the old arrays are freed, not when the last
\* of its stores is made.
LEMMA ResizeStepLog ==
    ASSUME Control, Buffer, Ready, ResizeStep
    PROVE  LogResize \/ LogStays
<1>1. pushed' = pushed /\ push' = push
  BY DEF ResizeStep, ResizeBegin, ResizeLock, ResizeGiveUp, ResizeCopy,
     ResizeFree, ResizeArrays, ResizeSize, ResizeHead, ResizeTail, ResizeCount,
     ResizeClear, ResizeUnlock, ResizeReturn
<1>2. CASE ResizeFree
  <2>1. ~Pushing
    BY <1>2, ThreadsAssumption DEF ResizeFree, Control, MutexDiscipline, Pushing
  <2>2. LogCount = count /\ LogCount' = copy_count /\ LogSize' = new_size
    BY <1>2, <2>1 DEF ResizeFree, LogCount, LogSize, Reallocating, newVars
  <2>3. copy_count = IF count < new_size THEN count ELSE new_size
    BY <1>2 DEF Ready, ResizeFree
  <2>4. count \in Nat /\ new_size \in Nat
    BY BoundsAssumption DEF Control, TypeOK
  <2> QED
    BY <1>1, <2>2, <2>3, <2>4 DEF LogResize
<1>3. CASE ResizeArrays \/ ResizeSize \/ ResizeHead \/ ResizeTail \/ ResizeCount
  BY <1>1, <1>3 DEF ResizeArrays, ResizeSize, ResizeHead, ResizeTail, ResizeCount,
     LogStays, LogSize, LogCount, Reallocating, newVars
<1>4. CASE ResizeClear
  <2>1. size = new_size /\ count = copy_count
    BY <1>4 DEF ResizeClear, Buffer, Installed
  <2>2. ~Pushing
    BY <1>4, ThreadsAssumption DEF ResizeClear, Control, MutexDiscipline, Pushing
  <2> QED
    BY <1>1, <1>4, <2>1, <2>2 DEF ResizeClear, LogStays, LogSize, LogCount, Reallocating,
       Pushing
<1>5. CASE \/ \E new \in Sizes : ResizeBegin(new)
           \/ ResizeLock \/ ResizeGiveUp \/ ResizeCopy \/ ResizeUnlock \/ ResizeReturn
  BY <1>1, <1>5 DEF ResizeBegin, ResizeLock, ResizeGiveUp, ResizeCopy, ResizeUnlock,
     ResizeReturn, bufVars, LogStays, LogSize, LogCount, Reallocating, Pushing
<1> QED
  BY <1>2, <1>3, <1>4, <1>5 DEF ResizeStep

LEMMA NextLog ==
    ASSUME Control, Buffer, Ready, [Next]_vars
    PROVE  LogPush \/ LogResize \/ LogStays
<1>1. CASE PushStep
  BY <1>1, PushStepLog
<1>2. CASE ResizeStep
  BY <1>2, ResizeStepLog
<1>3. CASE (\E r \in Readers : ReadStep(r)) \/ UNCHANGED vars
  BY <1>3 DEF ReadStep, vars, bufVars, rz, newVars, LogStays, LogSize, LogCount,
     Reallocating, Pushing
<1> QED
  BY <1>1, <1>2, <1>3 DEF Next

\* Every step of the collector, the main thread and the readers is a push or
\* a resize of the abstract sliding window, or invisible to it: the store to
\* the value array is the push, the free of the old arrays is the resize.
THEOREM RingBufImplementsWindow == Spec => ImplementsWindow
<1>1. Init => Window!Init
  <2> SUFFICES ASSUME Init PROVE Window!Init
    OBVIOUS
  <2>1. LogCount = 0 /\ LogSize = size
    BY BoundsAssumption DEF Init, LogCount, LogSize, Reallocating, Pushing
  <2>2. LogWindow = <<>>
    BY <2>1 DEF LogWindow
  <2> QED
    BY <2>1, <2>2 DEF Init, Window!Init
<1>2. Control /\ Buffer /\ Ready /\ LogIsStream /\ LogIsStream' /\ [Next]_vars
          => [Window!Next]_Window!windowVars
  <2> SUFFICES ASSUME Control, Buffer, Ready, LogIsStream, LogIsStream', [Next]_vars
               PROVE  [Window!Next]_Window!windowVars
    OBVIOUS
  <2>1. /\ pushed \in Nat /\ LogSize \in Nat \ {0} /\ LogCount \in 0..LogSize
        /\ LogWindow = Stream(pushed, LogCount)
    BY DEF LogIsStream
  <2>2. /\ LogSize' \in Sizes /\ LogSize' \in Nat \ {0}
        /\ LogWindow' = Stream(pushed', LogCount')
    BY DEF LogIsStream
  <2>3. CASE LogPush
    <3>1. LogWindow' = Window!Newest(Append(LogWindow, pushed'), LogSize)
      BY <2>1, <2>2, <2>3, StreamPush DEF LogPush
    <3> QED
      BY <2>3, <3>1 DEF LogPush, Window!Next, Window!Push
  <2>4. CASE LogResize
    <3>1. LogWindow' = Window!Newest(LogWindow, LogSize')
      BY <2>1, <2>2, <2>4, StreamResize DEF LogResize
    <3> QED
      BY <2>2, <2>4, <3>1 DEF LogResize, Window!Next, Window!Resize
  <2>5. CASE LogStays
    BY <2>1, <2>2, <2>5 DEF LogStays, Window!windowVars
  <2> QED
    BY <2>3, <2>4, <2>5, NextLog
<1> QED
  BY <1>1, <1>2, BufferHolds, ReadyHolds, LogIsStreamHolds, PTL
     DEF Spec, ImplementsWindow, Window!Spec

-----------------------------------------------------------------------------
(* What the slots hold, counted forward from tail as a reader counts       *)

\* A slot j after t and d before h is d slots back from h.
LEMMA SlotBefore ==
    ASSUME NEW n \in Nat \ {0}, NEW t \in 0..n-1, NEW h \in 0..n-1, NEW j \in 0..n-1,
           NEW d \in 1..n, t + j + d \in {h, h + n, h + 2 * n}
    PROVE  (t + j) % n \in 0..n-1 /\ Age((t + j) % n, h, n) = d
<1>1. CASE t + j < n
  <2>1. (t + j) % n = t + j
    BY <1>1, ModSmall
  <2> QED
    BY <1>1, <2>1 DEF Age
<1>2. CASE t + j >= n
  <2>1. t + j \in n..2*n-1
    BY <1>2
  <2>2. (t + j) % n = t + j - n
    BY <2>1, ModOnce
  <2> QED
    BY <1>2, <2>2 DEF Age
<1> QED
  BY <1>1, <1>2

\* While a full buffer gets a sample, the slot of its oldest has the old
\* timestamp a little longer than the old value.
OldTime == push = "time" /\ count = size => timestamps[head] = pushed - size

LEMMA OldTimeNext == Control /\ Buffer /\ OldTime /\ [Next]_vars => OldTime'
<1> SUFFICES ASSUME Control, Buffer, OldTime, [Next]_vars PROVE OldTime'
  OBVIOUS
<1>1. CASE PushData
  <2>1. Whole /\ ~Reallocating /\ size \in Nat \ {0} /\ pushed \in Nat
    BY <1>1, PushExcludesResize DEF Buffer, PushStep
  <2>2. /\ pushed' = pushed + 1 /\ push = "data" /\ head \in 0..size-1
        /\ UNCHANGED <<timestamps, size, head, count>>
    BY <1>1, <2>1 DEF PushData, Whole
  <2>3. Age(head, head, size) = size
    BY <2>1, <2>2 DEF Age
  <2>4. count = size => timestamps[head] = pushed + 1 - size
    BY <2>1, <2>2, <2>3 DEF Whole, Holds, LogHead, LogCount, Pushing, NoSlot
  <2> QED
    BY <2>1, <2>2, <2>4 DEF OldTime
<1>2. CASE PushLock \/ PushTime \/ PushHead \/ PushCount \/ PushUnlock
  BY <1>2 DEF OldTime, PushLock, PushTime, PushHead, PushCount, PushUnlock
<1>3. CASE ResizeStep
  <2>1. push' = push
    BY <1>3 DEF ResizeStep, ResizeBegin, ResizeLock, ResizeGiveUp, ResizeCopy, ResizeFree,
       ResizeArrays, ResizeSize, ResizeHead, ResizeTail, ResizeCount, ResizeClear,
       ResizeUnlock, ResizeReturn
  <2>2. CASE push = "time"
    <3>1. resize \in {"idle", "lock", "return"}
      BY <2>2, ResizeExcludesPush
    <3>2. UNCHANGED <<bufVars, pushed>>
      BY <1>3, <3>1 DEF ResizeStep, ResizeBegin, ResizeLock, ResizeGiveUp, ResizeCopy, ResizeFree,
         ResizeArrays, ResizeSize, ResizeHead, ResizeTail, ResizeCount, ResizeClear,
         ResizeUnlock, ResizeReturn
    <3> QED
      BY <2>1, <3>2 DEF OldTime, bufVars
  <2> QED
    BY <2>1, <2>2 DEF OldTime
<1>4. CASE (\E r \in Readers : ReadStep(r)) \/ UNCHANGED vars
  BY <1>4 DEF OldTime, ReadStep, vars, bufVars
<1> QED
  BY <1>1, <1>2, <1>3, <1>4 DEF Next, PushStep

\* In a buffer that is not full, the slots from tail on hold the count newest
\* of the samples whose push is complete, oldest first.  In a full one the
\* first of them may already hold the sample that is being pushed.
LEMMA FromTail ==
    ASSUME Control, Buffer, OldTime, ~Reallocating, NEW j \in 0..count-1
    PROVE  LET s == (tail + j) % size
           IN  /\ \/ Deref(data, s) = Completed - count + 1 + j
                  \/ count = size /\ j = 0 /\ Deref(data, s) = Completed + 1
               /\ \/ Deref(timestamps, s) = Completed - count + 1 + j
                  \/ count = size /\ j = 0 /\ Deref(timestamps, s) = Completed + 1
<1> DEFINE s == (tail + j) % size
<1>1. /\ size \in Nat \ {0} /\ pushed \in Nat /\ push \in PushPc
      /\ head \in 0..size-1 /\ tail \in 0..size-1 /\ count \in 0..size /\ j \in 0..size-1
      /\ data \in ArrayOf(size) /\ timestamps \in ArrayOf(size)
      /\ Holds(data, LogHead, size, LogCount, pushed, NoSlot)
      /\ Holds(timestamps, LogHead, size, LogCount, pushed,
               IF push = "time" THEN head ELSE NoSlot)
  BY BoundsAssumption DEF Control, TypeOK, Buffer, Whole
<1>2. s \in 0..size-1
  <2>1. tail + j \in Int
    BY <1>1
  <2> QED
    BY <1>1, <2>1, ModRange
<1>3. Deref(data, s) = data[s] /\ Deref(timestamps, s) = timestamps[s] /\ s # NoSlot
  BY <1>1, <1>2 DEF Deref, ArrayOf, NoSlot
<1>4. CASE push \notin {"time", "head", "count"}
  <2>1. LogHead = head /\ LogCount = count /\ Completed = pushed
    BY <1>4 DEF LogHead, LogCount, Pushing, Completed
  <2>2. tail + count \in {head, head + size}
    BY <1>4 DEF Buffer, Whole
  <2>3. count - j \in 1..size /\ tail + j + (count - j) = tail + count
    BY <1>1
  <2>4. Age(s, head, size) = count - j
    <3>1. PICK d \in 1..size : d = count - j
      BY <2>3
    <3>2. tail + j + d \in {head, head + size, head + 2 * size}
      BY <1>1, <2>2, <2>3, <3>1
    <3>3. Age(s, head, size) = d
      BY <1>1, <3>2, SlotBefore
    <3> QED
      BY <3>1, <3>3
  <2>5. data[s] = pushed + 1 - (count - j) /\ timestamps[s] = pushed + 1 - (count - j)
    BY <1>1, <1>2, <1>3, <1>4, <2>1, <2>3, <2>4 DEF Holds
  <2> HIDE DEF s
  <2> QED
    BY <1>1, <1>3, <2>1, <2>5 DEF s
<1>5. CASE push \in {"time", "head"}
  <2> DEFINE next == (head + 1) % size
  <2>1. LogHead = next /\ Completed = pushed - 1
        /\ LogCount = IF count < size THEN count + 1 ELSE count
    BY <1>5 DEF LogHead, LogCount, Pushing, Completed
  <2>2. tail + count \in {head, head + size}
    BY <1>5 DEF Buffer, Whole
  <2>3. count - j \in 1..size /\ tail + j + (count - j) = tail + count
    BY <1>1
  <2>4. Age(s, head, size) = count - j
    <3>1. PICK d \in 1..size : d = count - j
      BY <2>3
    <3>2. tail + j + d \in {head, head + size, head + 2 * size}
      BY <1>1, <2>2, <2>3, <3>1
    <3>3. Age(s, head, size) = d
      BY <1>1, <3>2, SlotBefore
    <3> QED
      BY <3>1, <3>3
  <2>5. Age(s, next, size) = IF s = head THEN 1 ELSE count - j + 1
    BY <1>1, <1>2, <2>4, AgeNext, SMTT(60)
  <2>6. s = head <=> count - j = size
    BY <1>1, <1>2, <2>4 DEF Age
  <2>7. CASE s # head
    <3>1. count - j + 1 <= LogCount
      BY <1>1, <2>1, <2>3, <2>6, <2>7
    <3>2. data[s] = pushed + 1 - (count - j + 1) /\ timestamps[s] = pushed + 1 - (count - j + 1)
      BY <1>1, <1>2, <1>3, <2>1, <2>5, <2>7, <3>1 DEF Holds
    <3> HIDE DEF s
    <3> QED
      BY <1>1, <1>3, <2>1, <3>2 DEF s
  <2>8. CASE s = head
    <3>1. count = size /\ j = 0 /\ LogCount >= 1
      BY <1>1, <2>1, <2>6, <2>8
    <3>2. data[s] = pushed + 1 - 1
      BY <1>1, <1>2, <1>3, <2>1, <2>5, <2>8, <3>1 DEF Holds
    <3>3. push = "head" => timestamps[s] = pushed + 1 - 1
      BY <1>1, <1>2, <1>3, <2>1, <2>5, <2>8, <3>1 DEF Holds
    <3>4. push = "time" => timestamps[s] = pushed - size
      BY <2>8, <3>1 DEF OldTime
    <3> HIDE DEF s
    <3> QED
      BY <1>1, <1>3, <1>5, <2>1, <3>1, <3>2, <3>3, <3>4 DEF s
  <2> QED
    BY <2>7, <2>8
<1>6. CASE push = "count"
  <2>1. LogHead = head /\ Completed = pushed - 1
        /\ LogCount = IF count < size THEN count + 1 ELSE count
    BY <1>6 DEF LogHead, LogCount, Pushing, Completed
  <2>2. tail + count + 1 \in {head, head + size, head + 2 * size}
    BY <1>6 DEF Buffer, Whole
  <2>3. CASE count - j < size
    <3>1. count - j + 1 \in 1..size /\ tail + j + (count - j + 1) = tail + count + 1
          /\ count - j + 1 <= LogCount
      BY <1>1, <2>1, <2>3
    <3>2. Age(s, head, size) = count - j + 1
      <4>1. PICK d \in 1..size : d = count - j + 1
        BY <3>1
      <4>2. tail + j + d \in {head, head + size, head + 2 * size}
        BY <1>1, <2>2, <3>1, <4>1
      <4>3. Age(s, head, size) = d
        BY <1>1, <4>2, SlotBefore
      <4> QED
        BY <4>1, <4>3
    <3>3. data[s] = pushed + 1 - (count - j + 1) /\ timestamps[s] = pushed + 1 - (count - j + 1)
      BY <1>1, <1>2, <1>3, <1>6, <2>1, <3>1, <3>2 DEF Holds
    <3> HIDE DEF s
    <3> QED
      BY <1>1, <1>3, <2>1, <3>3 DEF s
  <2>4. CASE count - j >= size
    <3>1. count = size /\ j = 0 /\ LogCount >= 1
      BY <1>1, <2>1, <2>4
    <3>2. tail + j + 1 \in {head, head + size, head + 2 * size} /\ 1 \in 1..size
      BY <1>1, <2>2, <3>1
    <3>3. Age(s, head, size) = 1
      BY <1>1, <3>2, SlotBefore
    <3>4. data[s] = pushed + 1 - 1 /\ timestamps[s] = pushed + 1 - 1
      BY <1>1, <1>2, <1>3, <1>6, <2>1, <3>1, <3>3 DEF Holds
    <3> HIDE DEF s
    <3> QED
      BY <1>1, <1>3, <2>1, <3>1, <3>4 DEF s
  <2> QED
    BY <1>1, <2>3, <2>4
<1> QED
  BY <1>4, <1>5, <1>6

-----------------------------------------------------------------------------
(* What an attempt at a snapshot has copied                                *)

\* Samples in order, from base + 1 on.
Exact(s, base) == \A i \in 1..Len(s) : s[i] = base + i

\* Samples of a buffer of n slots after b complete pushes, oldest first; the
\* first slot may have been overwritten by the next push.
Torn(s, n, b) == \A i \in 1..Len(s) : s[i] = b - n + i \/ (i = 1 /\ s[i] = b + 1)

\* Where an attempt is: before the count is verified, while slots are copied,
\* and from the first slot on.
Counted == {"head", "tail", "value", "time", "vcount"}
Copying == {"value", "time", "vcount"}
Taken   == {"value", "time", "vcount", "vhead", "vtail", "ok"}

\* How many slots a reader with the locals l copies.
Cap(l) == IF l.count < ReadCap THEN l.count ELSE ReadCap

\* Between attempts, and up to the first slot, nothing has been copied.
Blank(l) == l.pc \notin Taken => l.values = <<>> /\ l.times = <<>>

\* While the count stays what it was and the buffer is not full, no push has
\* been completed.
Begun(l) ==
    /\ l.since <= Completed /\ l.count <= count
    /\ (l.pc \in Counted /\ l.count = count /\ count < size) => l.since = Completed
    /\ l.count = 0 => l.pc = "ok" /\ l.values = <<>>

Lengths(l) ==
    l.pc \in Taken /\ l.count > 0 =>
        /\ Len(l.times) = IF l.pc = "time" THEN Len(l.values) - 1 ELSE Len(l.values)
        /\ Len(l.values) <= Cap(l)
        /\ l.pc = "value" => Len(l.values) < Cap(l)
        /\ l.pc = "time" => Len(l.values) >= 1
        /\ l.pc \notin {"value", "time"} => Len(l.values) = Cap(l)

\* Unless its count has changed, a buffer that is not full is copied exactly.
Partial(l) ==
    ( /\ l.pc \in Taken /\ l.count > 0 /\ l.count < size
      /\ l.pc \in Copying => l.count = count ) =>
        /\ Exact(l.values, l.since - l.count) /\ Exact(l.times, l.since - l.count)
        /\ l.pc \in Copying => l.tail = tail

\* Unless tail has moved on from where it was, b complete pushes after the
\* beginning, a full buffer is copied but for its oldest slot.
Full(l) ==
    ( /\ l.pc \in Taken /\ l.count = size
      /\ l.pc = "ok" => pushed - l.since < size ) =>
        \E b \in Nat :
            /\ l.since <= b /\ b <= Completed
            /\ l.pc # "ok" => l.tail \in 0..size-1 /\ tail = (l.tail + (Completed - b)) % size
            /\ (l.pc # "ok" => b = Completed) => /\ Torn(l.values, size, b)
                                                 /\ Torn(l.times, size, b)

Attempt(r) ==
    r \notin disturbed /\ rd[r].pc \in Counted \union Taken =>
        /\ ~Reallocating
        /\ Begun(rd[r]) /\ Lengths(rd[r]) /\ Partial(rd[r]) /\ Full(rd[r])

Snapshots == OldTime /\ \A r \in Readers : Blank(rd[r]) /\ Attempt(r)

\* One more sample that continues the row.
LEMMA ExactAppend ==
    ASSUME NEW s \in Seq(Value), NEW base \in Int, Exact(s, base), NEW v \in Value,
           v = base + Len(s) + 1
    PROVE  Exact(Append(s, v), base)
BY DEF Exact

LEMMA TornAppend ==
    ASSUME NEW s \in Seq(Value), NEW n \in Nat, NEW b \in Int, Torn(s, n, b), NEW v \in Value,
           \/ v = b - n + (Len(s) + 1)
           \/ Len(s) = 0 /\ v = b + 1
    PROVE  Torn(Append(s, v), n, b)
BY DEF Torn

LEMMA ModNext ==
    ASSUME NEW n \in Nat \ {0}, NEW t \in 0..n-1, NEW k \in Nat
    PROVE  (((t + k) % n) + 1) % n = (t + (k + 1)) % n
<1>1. PICK q \in Int : q = (t + k) \div n
  OBVIOUS
<1>2. (t + k) % n = t + k - n * q /\ (t + k) % n \in 0..n-1
  BY <1>1
<1>3. CASE t + k - n * q + 1 < n
  <2>1. (t + (k + 1)) \div n = q
    BY <1>2, <1>3
  <2> QED
    BY <1>2, <1>3, <2>1
<1>4. CASE t + k - n * q + 1 = n
  <2>1. n * q + n = n * (q + 1)
    OBVIOUS
  <2>2. (t + (k + 1)) \div n = q + 1
    BY <1>2, <1>4, <2>1
  <2> QED
    BY <1>2, <1>4, <2>1, <2>2
<1> QED
  BY <1>2, <1>3, <1>4

\* A push counts as complete with its store to count or tail.
LEMMA PushCompletes ==
    ASSUME Control, Buffer, PushStep
    PROVE  /\ size' = size /\ pushed' \in Nat /\ pushed <= pushed' /\ Completed \in Int
           /\ UNCHANGED <<rd, disturbed>> /\ ~Reallocating /\ ~Reallocating'
           /\ \/ Completed' = Completed /\ UNCHANGED <<count, tail>>
              \/ /\ Completed' = Completed + 1 /\ count < size
                 /\ count' = count + 1
              \/ /\ Completed' = Completed + 1 /\ count = size
                 /\ count' = count /\ tail' = (tail + 1) % size
<1>1. /\ size' = size /\ pushed \in Nat /\ ~Reallocating /\ resize' = resize
      /\ count \in 0..size /\ size \in Nat
  BY PushExcludesResize DEF Buffer, Whole
<1>2. ~Reallocating' /\ UNCHANGED <<rd, disturbed>>
  BY <1>1 DEF Reallocating, PushStep, PushLock, PushData, PushTime, PushHead, PushCount,
     PushUnlock
<1>3. CASE PushData
  BY <1>1, <1>2, <1>3 DEF PushData, Completed
<1>4. CASE PushCount
  BY <1>1, <1>2, <1>4 DEF PushCount, Completed
<1>5. CASE PushLock \/ PushTime \/ PushHead \/ PushUnlock
  BY <1>1, <1>2, <1>5 DEF PushLock, PushTime, PushHead, PushUnlock, bufVars, Completed
<1> QED
  BY <1>3, <1>4, <1>5 DEF PushStep

\* What the attempt of r has found out stands while the collector pushes.
LEMMA AttemptPush ==
    ASSUME Control, Buffer, PushStep, NEW r \in Readers, Attempt(r)
    PROVE  Attempt(r)'
<1> SUFFICES ASSUME r \notin disturbed', rd'[r].pc \in Counted \union Taken
             PROVE  ~Reallocating' /\ Begun(rd[r])' /\ Lengths(rd[r])'
                    /\ Partial(rd[r])' /\ Full(rd[r])'
  BY DEF Attempt
<1> PICK l \in Reader : l = rd[r]
  BY DEF Control, TypeOK
<1>1. /\ l = rd'[r] /\ size' = size /\ ~Reallocating'
      /\ pushed \in Nat /\ pushed' \in Nat /\ pushed <= pushed'
      /\ Begun(l) /\ Lengths(l) /\ Partial(l) /\ Full(l)
      /\ Completed \in Int /\ size \in Nat \ {0} /\ count \in 0..size
      /\ l.since \in Nat /\ l.count \in Nat /\ l.tail \in Nat
  <2>1. UNCHANGED <<rd, disturbed>>
    BY PushCompletes
  <2>2. ~Reallocating /\ Begun(l) /\ Lengths(l) /\ Partial(l) /\ Full(l)
    BY <2>1 DEF Attempt
  <2>3. Whole /\ pushed \in Nat /\ size \in Nat \ {0}
    BY <2>2, PushExcludesResize DEF Buffer
  <2> QED
    BY <2>1, <2>2, <2>3, PushCompletes DEF Whole, Reader
<1>2. Lengths(l)'
  BY <1>1 DEF Lengths, Cap
<1>3. CASE Completed' = Completed /\ UNCHANGED <<count, tail>>
  <2>1. Begun(l)' /\ Partial(l)'
    BY <1>1, <1>3 DEF Begun, Partial, Exact
  <2>2. Full(l)'
    <3>1. SUFFICES ASSUME l.pc \in Taken, l.count = size, l.pc = "ok" => pushed - l.since < size
                   PROVE  Full(l)'
      BY <1>1, <1>3 DEF Full
    <3>2. PICK b \in Nat :
            /\ l.since <= b /\ b <= Completed
            /\ l.pc # "ok" => l.tail \in 0..size-1 /\ tail = (l.tail + (Completed - b)) % size
            /\ (l.pc # "ok" => b = Completed) => /\ Torn(l.values, size, b)
                                                 /\ Torn(l.times, size, b)
      BY <1>1, <3>1 DEF Full
    <3> QED
      BY <1>1, <1>3, <3>2 DEF Full, Torn
  <2> QED
    BY <1>1, <1>2, <2>1, <2>2
<1>4. CASE Completed' = Completed + 1 /\ count < size /\ count' = count + 1
  <2>1. l.count <= count /\ l.count < size /\ l.count # count'
    BY <1>1, <1>4 DEF Begun
  <2>2. Begun(l)' /\ Partial(l)'
    BY <1>1, <1>4, <2>1 DEF Begun, Partial, Exact, Copying, Counted, Taken
  <2>3. Full(l)'
    BY <1>1, <2>1 DEF Full
  <2> QED
    BY <1>1, <1>2, <2>2, <2>3
<1>5. CASE Completed' = Completed + 1 /\ count = size /\ count' = count /\ tail' = (tail + 1) % size
  <2>1. Begun(l)' /\ Partial(l)'
    BY <1>1, <1>5 DEF Begun, Partial, Exact
  <2>2. Full(l)'
    <3>1. SUFFICES ASSUME l.pc \in Taken, l.count = size, l.pc = "ok" => pushed - l.since < size
                   PROVE  Full(l)'
      BY <1>1, <1>5 DEF Full
    <3>2. PICK b \in Nat :
            /\ l.since <= b /\ b <= Completed
            /\ l.pc # "ok" => l.tail \in 0..size-1 /\ tail = (l.tail + (Completed - b)) % size
            /\ (l.pc # "ok" => b = Completed) => /\ Torn(l.values, size, b)
                                                 /\ Torn(l.times, size, b)
      BY <1>1, <3>1 DEF Full
    <3>3. b <= Completed' /\ b # Completed'
      BY <1>1, <1>5, <3>2
    <3>4. ASSUME l.pc # "ok"
          PROVE  l.tail \in 0..size-1 /\ tail' = (l.tail + (Completed' - b)) % size
      <4>1. PICK k \in Nat : k = Completed - b
        BY <1>1, <3>2
      <4>2. tail' = (l.tail + (k + 1)) % size
        BY <1>1, <1>5, <3>2, <3>4, <4>1, ModNext
      <4>3. k + 1 = Completed' - b
        BY <1>1, <1>5, <4>1
      <4> QED
        BY <3>2, <3>4, <4>2, <4>3
    <3>5. l.pc = "ok" => Torn(l.values, size', b) /\ Torn(l.times, size', b)
      BY <1>1, <3>2
    <3> QED
      BY <1>1, <3>2, <3>3, <3>4, <3>5 DEF Full, Torn
  <2> QED
    BY <1>1, <1>2, <2>1, <2>2
<1> QED
  BY <1>3, <1>4, <1>5, PushCompletes

\* A reallocation that overlaps an attempt marks it; the other steps of a
\* resize store nothing that a reader loads.
LEMMA AttemptResize ==
    ASSUME Control, Buffer, ResizeStep, NEW r \in Readers, Attempt(r)
    PROVE  Attempt(r)'
<1> SUFFICES ASSUME r \notin disturbed', rd'[r].pc \in Counted \union Taken
             PROVE  Attempt(r)'
  BY DEF Attempt
<1>1. UNCHANGED <<rd, push, pushed>>
  BY DEF ResizeStep, ResizeBegin, ResizeLock, ResizeGiveUp, ResizeCopy, ResizeFree, ResizeArrays,
     ResizeSize, ResizeHead, ResizeTail, ResizeCount, ResizeClear, ResizeUnlock, ResizeReturn
<1>2. ~ResizeFree
  BY <1>1 DEF ResizeFree, Counted, Taken
<1>3. disturbed' = disturbed
  BY <1>2 DEF ResizeStep, ResizeBegin, ResizeLock, ResizeGiveUp, ResizeCopy, ResizeArrays,
     ResizeSize, ResizeHead, ResizeTail, ResizeCount, ResizeClear, ResizeUnlock, ResizeReturn
<1>4. ~Reallocating
  BY <1>1, <1>3 DEF Attempt
<1>5. UNCHANGED bufVars /\ ~Reallocating'
  BY <1>2, <1>4 DEF ResizeStep, ResizeBegin, ResizeLock, ResizeGiveUp, ResizeCopy, ResizeArrays,
     ResizeSize, ResizeHead, ResizeTail, ResizeCount, ResizeClear, ResizeUnlock, ResizeReturn,
     Reallocating
<1>6. UNCHANGED <<rd, disturbed, pushed, Completed, size, count, tail>>
  BY <1>1, <1>3, <1>5 DEF bufVars, Completed
<1> QED
  BY <1>5, <1>6 DEF Attempt, Begun, Lengths, Cap, Partial, Exact, Full, Torn

LEMMA ModFixed ==
    ASSUME NEW n \in Nat \ {0}, NEW t \in 0..n-1, NEW k \in 0..n-1, t = (t + k) % n
    PROVE  k = 0
<1>1. CASE t + k < n
  BY <1>1, ModSmall
<1>2. CASE t + k >= n
  <2>1. t + k \in n..2*n-1
    BY <1>2
  <2> QED
    BY <2>1, ModOnce
<1> QED
  BY <1>1, <1>2

\* What the readers' steps leave alone, and what is true of it.
LEMMA ReadKeeps ==
    ASSUME Control, NEW r \in Readers, ReadStep(r)
    PROVE  /\ UNCHANGED <<bufVars, push, pushed, resize, Completed, Reallocating>>
           /\ Completed \in Nat /\ Completed <= pushed /\ pushed \in Nat /\ size \in Nat \ {0}
           /\ \A q \in Readers : q # r =>
                rd'[q] = rd[q] /\ (q \in disturbed' <=> q \in disturbed)
<1>1. UNCHANGED <<bufVars, push, pushed, resize>>
  BY DEF ReadStep, rz
<1>2. UNCHANGED <<Completed, Reallocating>>
  BY <1>1 DEF Completed, Reallocating
<1>3. /\ pushed \in Nat /\ size \in Nat \ {0} /\ (Pushing => pushed > 0)
      /\ rd \in [Readers -> Reader]
  BY BoundsAssumption DEF Control, TypeOK
<1>4. Completed \in Nat /\ Completed <= pushed
  BY <1>3 DEF Completed, Pushing
<1>5. ASSUME NEW q \in Readers, q # r
      PROVE  rd'[q] = rd[q] /\ (q \in disturbed' <=> q \in disturbed)
  <2>1. \E m : rd' = [rd EXCEPT ![r] = m]
    BY DEF ReadStep, ReadCount, ReadHead, ReadTail, ReadValue, ReadTime, VerifyCount, VerifyHead,
       VerifyTail, Verify, Retry, ReadReturn, Locals
  <2>2. q \in disturbed' <=> q \in disturbed
    BY <1>5 DEF ReadStep, ReadCount, ReadHead, ReadTail, ReadValue, ReadTime, VerifyCount,
       VerifyHead, VerifyTail, Verify, ReadReturn
  <2> QED
    BY <1>3, <1>5, <2>1, <2>2
<1> QED
  BY <1>1, <1>2, <1>3, <1>4, <1>5

\* The facts about an attempt speak of the reader's locals and of what its
\* steps leave alone.
LEMMA ReadOfOthers ==
    ASSUME Control, NEW r \in Readers, ReadStep(r), NEW q \in Readers, q # r,
           Blank(rd[q]), Attempt(q)
    PROVE  Blank(rd[q])' /\ Attempt(q)'
<1>1. /\ UNCHANGED <<count, size, tail, pushed, Completed, Reallocating>>
      /\ rd'[q] = rd[q] /\ (q \in disturbed' <=> q \in disturbed)
  BY ReadKeeps DEF bufVars
<1> QED
  BY <1>1 DEF Blank, Attempt, Begun, Lengths, Cap, Partial, Exact, Full, Torn

\* An attempt begins.
LEMMA SnapshotBegins ==
    ASSUME Control, Buffer, NEW r \in Readers, Blank(rd[r]), ReadStep(r), ReadCount(r)
    PROVE  Blank(rd[r])' /\ Attempt(r)'
<1> PICK l \in Reader : l = rd[r]
  BY DEF Control, TypeOK
<1> PICK m \in Reader : m = rd'[r]
  BY ControlRead DEF Control, TypeOK
<1>1. /\ UNCHANGED <<count, size, tail, pushed, Completed, Reallocating>>
      /\ Completed \in Nat /\ size \in Nat \ {0}
  BY ReadKeeps DEF bufVars
<1>2. l.pc \in {"idle", "count"} /\ l.values = <<>> /\ l.times = <<>>
  BY DEF ReadCount, Blank, Taken
<1>3. rd \in [Readers -> Reader] /\ count \in Nat
  BY DEF Control, TypeOK
<1>4. /\ m.pc = (IF count = 0 THEN "ok" ELSE "head") /\ m.count = count /\ m.since = Completed
      /\ m.values = l.values /\ m.times = l.times
  <2>1. m = [l EXCEPT !.pc = IF count = 0 THEN "ok" ELSE "head", !.count = count,
                      !.since = Completed]
    BY <1>3 DEF ReadCount, Locals
  <2> QED
    BY <2>1 DEF Reader
<1>5. r \notin disturbed' => ~Reallocating
  BY DEF ReadCount
<1>6. Blank(m)
  BY <1>2, <1>4 DEF Blank
<1>7. Begun(m)'
  BY <1>1, <1>2, <1>3, <1>4 DEF Begun
<1>8. (Lengths(m) /\ Partial(m) /\ Full(m))'
  BY <1>1, <1>3, <1>4 DEF Lengths, Partial, Full, Taken
<1> QED
  BY <1>1, <1>5, <1>6, <1>7, <1>8 DEF Attempt, Blank

\* head and tail are loaded.
LEMMA SnapshotFollows ==
    ASSUME Control, Buffer, NEW r \in Readers, Blank(rd[r]), Attempt(r), ReadStep(r),
           ReadHead(r) \/ ReadTail(r)
    PROVE  Blank(rd[r])' /\ Attempt(r)'
<1> PICK l \in Reader : l = rd[r]
  BY DEF Control, TypeOK
<1> PICK m \in Reader : m = rd'[r]
  BY ControlRead DEF Control, TypeOK
<1>1. /\ UNCHANGED <<count, size, tail, pushed, Completed, Reallocating>>
      /\ Completed \in Nat /\ size \in Nat \ {0}
  BY ReadKeeps DEF bufVars
<1>2. l.pc \in {"head", "tail"} /\ l.values = <<>> /\ l.times = <<>>
  BY DEF ReadHead, ReadTail, Blank, Taken
<1>3. rd \in [Readers -> Reader]
  BY DEF Control, TypeOK
<1>4. /\ m.count = l.count /\ m.since = l.since /\ m.values = l.values /\ m.times = l.times
      /\ disturbed' = disturbed
      /\ \/ l.pc = "head" /\ m.pc = "tail"
         \/ l.pc = "tail" /\ m.pc = "value" /\ m.tail = tail
  <2>1. CASE ReadHead(r)
    <3>1. m = [l EXCEPT !.pc = "tail", !.head = head] /\ l.pc = "head" /\ disturbed' = disturbed
      BY <1>3, <2>1 DEF ReadHead, Locals
    <3> QED
      BY <3>1 DEF Reader
  <2>2. CASE ReadTail(r)
    <3>1. m = [l EXCEPT !.pc = "value", !.tail = tail] /\ l.pc = "tail" /\ disturbed' = disturbed
      BY <1>3, <2>2 DEF ReadTail, Locals
    <3> QED
      BY <3>1 DEF Reader
  <2> QED
    BY <2>1, <2>2
<1>5. Blank(m)
  BY <1>2, <1>4 DEF Blank
<1>6. ASSUME r \notin disturbed'
      PROVE  ~Reallocating' /\ Begun(m)' /\ Lengths(m)' /\ Partial(m)' /\ Full(m)'
  <2>1. ~Reallocating /\ Begun(l)
    BY <1>2, <1>4, <1>6 DEF Attempt, Counted
  <2>2. l.count \in Nat /\ l.count > 0 /\ l.since \in Nat /\ Len(<<>>) = 0
    BY <1>2, <2>1 DEF Begun, Reader
  <2>3. Begun(m)'
    BY <1>1, <1>2, <1>4, <2>1, <2>2 DEF Begun, Counted
  <2>4. Cap(m) \in Nat \ {0}
    BY <1>4, <2>2, BoundsAssumption DEF Cap
  <2>5. Lengths(m)'
    BY <1>1, <1>2, <1>4, <2>2, <2>4 DEF Lengths, Cap, Taken
  <2>6. Partial(m)'
    BY <1>1, <1>2, <1>4, <2>2 DEF Partial, Exact, Taken
  <2>7. Full(m)'
    <3>1. CASE m.pc = "value"
      <4>1. m.tail = tail /\ tail \in 0..size-1
        BY <1>2, <1>4, <2>1, <3>1 DEF Buffer, Whole
      <4>2. Completed - Completed = 0 /\ tail + 0 = tail
        BY <1>1, <4>1
      <4>3. tail = (tail + (Completed - Completed)) % size
        BY <1>1, <4>1, <4>2, ModSmall
      <4>4. Torn(m.values, size, Completed) /\ Torn(m.times, size, Completed)
        BY <1>2, <1>4, <2>2 DEF Torn
      <4>5. m.since <= Completed
        BY <1>4, <2>1 DEF Begun
      <4>6. \E b \in Nat :
              /\ m.since <= b /\ b <= Completed
              /\ m.tail \in 0..size-1 /\ tail = (m.tail + (Completed - b)) % size
              /\ Torn(m.values, size, b) /\ Torn(m.times, size, b)
        BY <1>1, <4>1, <4>3, <4>4, <4>5
      <4> QED
        BY <1>1, <3>1, <4>6 DEF Full, Torn
    <3>2. CASE m.pc = "tail"
      BY <3>2 DEF Full, Taken
    <3> QED
      BY <1>4, <3>1, <3>2
  <2> QED
    BY <1>1, <2>1, <2>3, <2>5, <2>6, <2>7
<1> QED
  BY <1>5, <1>6 DEF Attempt, Blank

\* What a slot that an attempt copies adds to its row, from either array.
Continues(l, row, v) ==
    /\ l.count < size /\ l.count = count => v = l.since - l.count + (Len(row) + 1)
    /\ l.count = size /\ tail = l.tail => \/ v = Completed - size + (Len(row) + 1)
                                          \/ Len(row) = 0 /\ v = Completed + 1

LEMMA SlotContinues ==
    ASSUME Control, Buffer, OldTime, ~Reallocating, NEW l \in Reader, NEW row \in Seq(Value),
           l.pc \in Copying, l.count > 0, Len(row) < l.count, Begun(l), Partial(l),
           NEW idx, idx = (l.tail + Len(row)) % size
    PROVE  Continues(l, row, Deref(data, idx)) /\ Continues(l, row, Deref(timestamps, idx))
<1>1. /\ size \in Nat \ {0} /\ count \in 0..size /\ l.count \in Nat /\ l.since \in Nat
      /\ Len(row) \in Nat /\ l.count <= count
  BY BoundsAssumption DEF Control, TypeOK, Buffer, Whole, Begun, Reader
<1>2. PICK j \in 0..count-1 : j = Len(row)
  BY <1>1
<1> DEFINE s == (tail + j) % size
<1>3. /\ \/ Deref(data, s) = Completed - count + 1 + j
         \/ count = size /\ j = 0 /\ Deref(data, s) = Completed + 1
      /\ \/ Deref(timestamps, s) = Completed - count + 1 + j
         \/ count = size /\ j = 0 /\ Deref(timestamps, s) = Completed + 1
  BY FromTail
<1>4. Completed \in Int
  BY DEF Control, TypeOK, Completed
<1>5. ASSUME l.count < size, l.count = count
      PROVE  idx = s /\ l.since = Completed
  BY <1>1, <1>2, <1>5 DEF Begun, Partial, Copying, Counted, Taken
<1>6. ASSUME l.count = size, tail = l.tail
      PROVE  idx = s /\ count = size
  BY <1>1, <1>2, <1>6
<1> HIDE DEF s
<1>7. l.count < size /\ l.count = count =>
        /\ Deref(data, idx) = l.since - l.count + (Len(row) + 1)
        /\ Deref(timestamps, idx) = l.since - l.count + (Len(row) + 1)
  BY <1>1, <1>2, <1>3, <1>4, <1>5
<1>8. l.count = size /\ tail = l.tail =>
        /\ \/ Deref(data, idx) = Completed - size + (Len(row) + 1)
           \/ Len(row) = 0 /\ Deref(data, idx) = Completed + 1
        /\ \/ Deref(timestamps, idx) = Completed - size + (Len(row) + 1)
           \/ Len(row) = 0 /\ Deref(timestamps, idx) = Completed + 1
  BY <1>1, <1>2, <1>3, <1>4, <1>6
<1> QED
  BY <1>7, <1>8 DEF Continues

\* A row that continues so stays as it should be.
LEMMA RowContinues ==
    ASSUME Control, NEW l \in Reader, NEW row \in Seq(Value), NEW v \in Value,
           Continues(l, row, v), size \in Nat \ {0}, Completed \in Nat
    PROVE  /\ Len(Append(row, v)) = Len(row) + 1
           /\ (l.count < size /\ l.count = count /\ Exact(row, l.since - l.count)) =>
                Exact(Append(row, v), l.since - l.count)
           /\ (l.count = size /\ tail = l.tail /\ Torn(row, size, Completed)) =>
                Torn(Append(row, v), size, Completed)
<1>1. l.since \in Nat /\ l.count \in Nat /\ l.since - l.count \in Int /\ Len(row) \in Nat
  BY DEF Reader
<1>2. ASSUME l.count < size, l.count = count, Exact(row, l.since - l.count)
      PROVE  Exact(Append(row, v), l.since - l.count)
  <2>1. PICK base \in Int : base = l.since - l.count
    BY <1>1
  <2>2. v = base + Len(row) + 1
    BY <1>1, <1>2, <2>1, SMTT(60) DEF Continues
  <2> QED
    BY <1>2, <2>1, <2>2, ExactAppend
<1>3. ASSUME l.count = size, tail = l.tail, Torn(row, size, Completed)
      PROVE  Torn(Append(row, v), size, Completed)
  BY <1>3, TornAppend DEF Continues
<1> QED
  BY <1>2, <1>3

\* What an attempt that has b and Completed the same says of tail.
LEMMA TailStays ==
    ASSUME NEW n \in Nat \ {0}, NEW t \in 0..n-1, NEW u, NEW c \in Nat, u = (t + (c - c)) % n
    PROVE  u = t
<1>1. c - c = 0 /\ t + 0 = t
  OBVIOUS
<1> QED
  BY <1>1, ModSmall

\* The value of a slot is copied.
LEMMA SnapshotValue ==
    ASSUME Control, Buffer, OldTime, NEW r \in Readers, Attempt(r), ReadStep(r), ReadValue(r)
    PROVE  Blank(rd[r])' /\ Attempt(r)'
<1> PICK l \in Reader : l = rd[r]
  BY DEF Control, TypeOK
<1> PICK m \in Reader : m = rd'[r]
  BY ControlRead DEF Control, TypeOK
<1>1. /\ UNCHANGED <<count, size, tail, pushed, Completed, Reallocating>>
      /\ Completed \in Nat /\ size \in Nat \ {0}
  BY ReadKeeps DEF bufVars
<1>2. PICK idx : idx = (l.tail + Len(l.values)) % size
  OBVIOUS
<1>3. PICK v \in Value : v = Deref(data, idx)
  BY DerefIsValue DEF Control, TypeOK
<1>4. rd \in [Readers -> Reader] /\ l.values \in Seq(Value) /\ l.times \in Seq(Value)
      /\ l.count \in Nat /\ l.since \in Nat
  BY DEF Control, TypeOK, Reader
<1>5. /\ m.pc = "time" /\ m.count = l.count /\ m.since = l.since /\ m.tail = l.tail
      /\ m.values = Append(l.values, v) /\ m.times = l.times
      /\ l.pc = "value" /\ disturbed' = disturbed
  <2>1. m = [l EXCEPT !.pc = "time", !.values = Append(@, v)]
    BY <1>2, <1>3, <1>4 DEF ReadValue, Locals
  <2> QED
    BY <2>1 DEF ReadValue, Reader
<1>6. ASSUME r \notin disturbed'
      PROVE  ~Reallocating' /\ Begun(m)' /\ Lengths(m)' /\ Partial(m)' /\ Full(m)'
  <2>1. ~Reallocating /\ Begun(l) /\ Lengths(l) /\ Partial(l) /\ Full(l)
    BY <1>5, <1>6 DEF Attempt, Counted
  <2>2. l.count > 0
    BY <1>4, <1>5, <2>1 DEF Begun
  <2>3. /\ Len(l.values) < Cap(l) /\ Cap(l) <= l.count /\ Len(l.times) = Len(l.values)
        /\ Cap(l) \in Nat
    BY <1>4, <1>5, <2>1, <2>2, BoundsAssumption DEF Lengths, Cap, Taken
  <2>4. Continues(l, l.values, v)
    <3>1. Len(l.values) < l.count
      BY <1>4, <2>3
    <3> QED
      BY <1>2, <1>3, <1>4, <1>5, <2>1, <2>2, <3>1, SlotContinues DEF Copying
  <2>5. /\ Len(m.values) = Len(l.values) + 1
        /\ (l.count < size /\ l.count = count /\ Exact(l.values, l.since - l.count)) =>
             Exact(m.values, l.since - l.count)
        /\ (l.count = size /\ tail = l.tail /\ Torn(l.values, size, Completed)) =>
             Torn(m.values, size, Completed)
    BY <1>1, <1>4, <1>5, <2>4, RowContinues
  <2>6. Begun(m)'
    BY <1>1, <1>5, <2>1, <2>2 DEF Begun, Counted
  <2>7. Lengths(m)'
    BY <1>1, <1>4, <1>5, <2>3, <2>5 DEF Lengths, Cap, Taken
  <2>8. Partial(m)'
    <3>1. (l.count < size /\ l.count = count) =>
            /\ Exact(l.values, l.since - l.count) /\ Exact(l.times, l.since - l.count)
            /\ l.tail = tail
      BY <1>5, <2>1, <2>2 DEF Partial, Copying, Taken
    <3> QED
      BY <1>1, <1>5, <2>5, <3>1 DEF Partial, Exact, Copying
  <2>9. Full(m)'
    <3>1. SUFFICES ASSUME l.count = size PROVE Full(m)'
      BY <1>1, <1>5 DEF Full
    <3>2. PICK b \in Nat :
            /\ l.since <= b /\ b <= Completed
            /\ l.tail \in 0..size-1 /\ tail = (l.tail + (Completed - b)) % size
            /\ b = Completed => Torn(l.values, size, b) /\ Torn(l.times, size, b)
      BY <1>5, <2>1, <3>1 DEF Full, Taken
    <3>3. b = Completed => Torn(m.values, size, b) /\ Torn(m.times, size, b)
      <4>1. b = Completed => tail = l.tail
        BY <1>1, <3>2, TailStays
      <4> QED
        BY <1>5, <2>5, <3>1, <3>2, <4>1
    <3> QED
      BY <1>1, <1>5, <3>2, <3>3 DEF Full, Torn
  <2> QED
    BY <1>1, <2>1, <2>6, <2>7, <2>8, <2>9
<1>7. Blank(m)
  BY <1>5 DEF Blank, Taken
<1> QED
  BY <1>6, <1>7 DEF Attempt, Blank

\* Its timestamp is copied.
LEMMA SnapshotTime ==
    ASSUME Control, Buffer, OldTime, NEW r \in Readers, Attempt(r), ReadStep(r), ReadTime(r)
    PROVE  Blank(rd[r])' /\ Attempt(r)'
<1> PICK l \in Reader : l = rd[r]
  BY DEF Control, TypeOK
<1> PICK m \in Reader : m = rd'[r]
  BY ControlRead DEF Control, TypeOK
<1>1. /\ UNCHANGED <<count, size, tail, pushed, Completed, Reallocating>>
      /\ Completed \in Nat /\ size \in Nat \ {0}
  BY ReadKeeps DEF bufVars
<1>2. PICK idx : idx = (l.tail + Len(l.times)) % size
  OBVIOUS
<1>3. PICK v \in Value : v = Deref(timestamps, idx)
  BY DerefIsValue DEF Control, TypeOK
<1>4. rd \in [Readers -> Reader] /\ l.values \in Seq(Value) /\ l.times \in Seq(Value)
      /\ l.count \in Nat /\ l.since \in Nat
  BY DEF Control, TypeOK, Reader
<1>5. /\ m.pc = (IF Len(l.values) < Cap(l) THEN "value" ELSE "vcount")
      /\ m.count = l.count /\ m.since = l.since /\ m.tail = l.tail
      /\ m.values = l.values /\ m.times = Append(l.times, v)
      /\ l.pc = "time" /\ disturbed' = disturbed
  <2>1. CopyCount(r) = Cap(l)
    BY DEF CopyCount, Cap
  <2>2. m = [l EXCEPT !.pc = IF Len(l.values) < Cap(l) THEN "value" ELSE "vcount",
                      !.times = Append(@, v)]
    BY <1>2, <1>3, <1>4, <2>1 DEF ReadTime, Locals
  <2> QED
    BY <2>2 DEF ReadTime, Reader
<1>6. ASSUME r \notin disturbed'
      PROVE  ~Reallocating' /\ Begun(m)' /\ Lengths(m)' /\ Partial(m)' /\ Full(m)'
  <2>1. ~Reallocating /\ Begun(l) /\ Lengths(l) /\ Partial(l) /\ Full(l)
    BY <1>5, <1>6 DEF Attempt, Counted
  <2>2. l.count > 0
    BY <1>4, <1>5, <2>1 DEF Begun
  <2>3. /\ Len(l.values) <= Cap(l) /\ Cap(l) <= l.count /\ Len(l.times) = Len(l.values) - 1
        /\ Cap(l) \in Nat /\ Len(l.values) \in Nat
    BY <1>4, <1>5, <2>1, <2>2, BoundsAssumption DEF Lengths, Cap, Taken
  <2>4. Continues(l, l.times, v)
    <3>1. Len(l.times) < l.count
      BY <1>4, <2>3
    <3> QED
      BY <1>2, <1>3, <1>4, <1>5, <2>1, <2>2, <3>1, SlotContinues DEF Copying
  <2>5. /\ Len(m.times) = Len(l.times) + 1
        /\ (l.count < size /\ l.count = count /\ Exact(l.times, l.since - l.count)) =>
             Exact(m.times, l.since - l.count)
        /\ (l.count = size /\ tail = l.tail /\ Torn(l.times, size, Completed)) =>
             Torn(m.times, size, Completed)
    BY <1>1, <1>4, <1>5, <2>4, RowContinues
  <2>6. Begun(m)'
    BY <1>1, <1>5, <2>1, <2>2 DEF Begun, Counted
  <2>7. Lengths(m)'
    <3>1. Cap(m) = Cap(l) /\ Len(m.times) = Len(m.values) /\ m.pc \in {"value", "vcount"}
      BY <1>5, <2>3, <2>5 DEF Cap
    <3>2. IF m.pc = "value" THEN Len(m.values) < Cap(m) ELSE Len(m.values) = Cap(m)
      BY <1>5, <2>3, <3>1
    <3> QED
      BY <2>3, <1>5, <3>1, <3>2 DEF Lengths
  <2>8. Partial(m)'
    <3>1. (l.count < size /\ l.count = count) =>
            /\ Exact(l.values, l.since - l.count) /\ Exact(l.times, l.since - l.count)
            /\ l.tail = tail
      BY <1>5, <2>1, <2>2 DEF Partial, Copying, Taken
    <3> QED
      BY <1>1, <1>5, <2>5, <3>1 DEF Partial, Exact, Copying
  <2>9. Full(m)'
    <3>1. SUFFICES ASSUME l.count = size PROVE Full(m)'
      BY <1>1, <1>5 DEF Full
    <3>2. PICK b \in Nat :
            /\ l.since <= b /\ b <= Completed
            /\ l.tail \in 0..size-1 /\ tail = (l.tail + (Completed - b)) % size
            /\ b = Completed => Torn(l.values, size, b) /\ Torn(l.times, size, b)
      BY <1>5, <2>1, <3>1 DEF Full, Taken
    <3>3. b = Completed => Torn(m.values, size, b) /\ Torn(m.times, size, b)
      <4>1. b = Completed => tail = l.tail
        BY <1>1, <3>2, TailStays
      <4> QED
        BY <1>5, <2>5, <3>1, <3>2, <4>1
    <3> QED
      BY <1>1, <1>5, <3>2, <3>3 DEF Full, Torn
  <2> QED
    BY <1>1, <2>1, <2>6, <2>7, <2>8, <2>9
<1>7. Blank(m)
  BY <1>5 DEF Blank, Taken
<1> QED
  BY <1>6, <1>7 DEF Attempt, Blank

\* An attempt whose tail has not changed, with fewer than size pushes since it
\* began, saw no push complete after it loaded tail.
LEMMA TailVerified ==
    ASSUME Control, ~Reallocating, size \in Nat \ {0}, Completed \in Nat, Completed <= pushed,
           NEW l \in Reader, l.pc = "vtail", l.tail = tail, Full(l), l.count = size,
           pushed - l.since < size
    PROVE  \E b \in Nat : /\ l.since <= b /\ b <= Completed
                          /\ Torn(l.values, size, b) /\ Torn(l.times, size, b)
<1>1. PICK b \in Nat :
        /\ l.since <= b /\ b <= Completed
        /\ l.tail \in 0..size-1 /\ tail = (l.tail + (Completed - b)) % size
        /\ b = Completed => Torn(l.values, size, b) /\ Torn(l.times, size, b)
  BY DEF Full, Taken
<1>2. l.since \in Nat /\ pushed \in Nat
  BY DEF Control, TypeOK, Reader
<1>3. PICK k \in 0..size-1 : k = Completed - b
  BY <1>1, <1>2
<1>4. k = 0
  BY <1>1, <1>3, ModFixed
<1> QED
  BY <1>1, <1>3, <1>4

\* The three loads that verify an attempt, and the return.
LEMMA SnapshotVerified ==
    ASSUME Control, Buffer, NEW r \in Readers, Attempt(r), ReadStep(r),
           VerifyCount(r) \/ VerifyHead(r) \/ VerifyTail(r) \/ ReadReturn(r)
    PROVE  Blank(rd[r])' /\ Attempt(r)'
<1> PICK l \in Reader : l = rd[r]
  BY DEF Control, TypeOK
<1> PICK m \in Reader : m = rd'[r]
  BY ControlRead DEF Control, TypeOK
<1>1. /\ UNCHANGED <<count, size, tail, pushed, Completed, Reallocating>>
      /\ Completed \in Nat /\ size \in Nat \ {0} /\ Completed <= pushed
  BY ReadKeeps DEF bufVars
<1>2. rd \in [Readers -> Reader]
  BY DEF Control, TypeOK
<1>3. ASSUME Retry(r) \/ ReadReturn(r) PROVE Blank(rd[r])' /\ Attempt(r)'
  <2>1. /\ m.values = <<>> /\ m.times = <<>>
        /\ m.pc \notin Counted \union Taken
    <3>1. PICK i \in Reader : i = IdleReader
      <4>1. <<>> \in Seq(Value)
        OBVIOUS
      <4>2. IdleReader \in Reader
        BY <4>1 DEF IdleReader, Reader, ReadPc
      <4> QED
        BY <4>2
    <3>2. i.values = <<>> /\ i.times = <<>> /\ i.pc = "idle"
      BY <3>1 DEF IdleReader
    <3>3. CASE ReadReturn(r)
      BY <1>2, <3>1, <3>2, <3>3 DEF ReadReturn, Locals, Counted, Taken
    <3>4. CASE Retry(r)
      <4> DEFINE made == rd[r].attempts + 1
                 p    == IF made < MaxAttempts THEN "count" ELSE "failed"
      <4>1. m = [i EXCEPT !.pc = p, !.attempts = made] /\ p \in {"count", "failed"}
        BY <1>2, <3>1, <3>4 DEF Retry, Locals
      <4> HIDE DEF made, p
      <4>2. m.pc = p /\ m.values = <<>> /\ m.times = <<>>
        BY <3>1, <3>2, <4>1 DEF Reader
      <4> QED
        BY <4>1, <4>2 DEF Counted, Taken
    <3> QED
      BY <1>3, <3>3, <3>4
  <2> QED
    BY <2>1 DEF Blank, Attempt
<1>4. ASSUME NEW next, Locals(r, [rd[r] EXCEPT !.pc = next]), disturbed' = disturbed,
             \/ l.pc = "vcount" /\ next = "vhead" /\ l.count = count
             \/ l.pc = "vhead" /\ next = "vtail"
             \/ l.pc = "vtail" /\ next = "ok" /\ l.tail = tail
      PROVE  Blank(rd[r])' /\ Attempt(r)'
  <2>1. /\ m.pc = next /\ m.count = l.count /\ m.since = l.since /\ m.tail = l.tail
        /\ m.values = l.values /\ m.times = l.times
    <3>1. m = [l EXCEPT !.pc = next]
      BY <1>2, <1>4 DEF Locals
    <3> QED
      BY <3>1 DEF Reader
  <2>2. Blank(m)
    BY <1>4, <2>1 DEF Blank, Taken
  <2>3. ASSUME r \notin disturbed'
        PROVE  ~Reallocating' /\ Begun(m)' /\ Lengths(m)' /\ Partial(m)' /\ Full(m)'
    <3>1. ~Reallocating /\ Begun(l) /\ Lengths(l) /\ Partial(l) /\ Full(l)
      BY <1>4, <2>3 DEF Attempt, Counted, Taken
    <3>2. l.count \in Nat /\ l.count > 0 /\ l.since \in Nat
      BY <1>4, <3>1 DEF Begun, Reader
    <3>3. Begun(m)'
      BY <1>1, <1>4, <2>1, <3>1, <3>2 DEF Begun, Counted
    <3>4. Lengths(m)'
      BY <1>4, <2>1, <3>1, <3>2 DEF Lengths, Cap, Taken
    <3>5. Partial(m)'
      BY <1>1, <1>4, <2>1, <3>1, <3>2 DEF Partial, Exact, Copying, Taken
    <3>6. Full(m)'
      <4>1. CASE l.pc = "vtail"
        <5>1. SUFFICES ASSUME l.count = size, pushed - l.since < size PROVE Full(m)'
          BY <1>1, <1>4, <2>1, <4>1 DEF Full
        <5>2. \E b \in Nat : /\ l.since <= b /\ b <= Completed
                             /\ Torn(l.values, size, b) /\ Torn(l.times, size, b)
          BY <1>1, <1>4, <3>1, <4>1, <5>1, TailVerified
        <5> QED
          BY <1>1, <1>4, <2>1, <4>1, <5>2 DEF Full, Torn
      <4>2. CASE l.pc # "vtail"
        <5>1. SUFFICES ASSUME l.count = size PROVE Full(m)'
          BY <1>1, <2>1 DEF Full
        <5>2. PICK b \in Nat :
                /\ l.since <= b /\ b <= Completed
                /\ l.tail \in 0..size-1 /\ tail = (l.tail + (Completed - b)) % size
                /\ b = Completed => Torn(l.values, size, b) /\ Torn(l.times, size, b)
          BY <1>4, <3>1, <4>2, <5>1 DEF Full, Taken
        <5>3. \E c \in Nat :
                /\ m.since <= c /\ c <= Completed
                /\ m.tail \in 0..size-1 /\ tail = (m.tail + (Completed - c)) % size
                /\ c = Completed => Torn(m.values, size, c) /\ Torn(m.times, size, c)
          BY <2>1, <5>2
        <5> QED
          BY <1>1, <1>4, <2>1, <4>2, <5>3 DEF Full, Torn
      <4> QED
        BY <4>1, <4>2
    <3> QED
      BY <1>1, <3>1, <3>3, <3>4, <3>5, <3>6
  <2> QED
    BY <2>2, <2>3 DEF Attempt, Blank
<1>5. CASE VerifyCount(r)
  BY <1>3, <1>4, <1>5 DEF VerifyCount, Verify
<1>6. CASE VerifyHead(r)
  BY <1>3, <1>4, <1>6 DEF VerifyHead, Verify
<1>7. CASE VerifyTail(r)
  BY <1>3, <1>4, <1>7 DEF VerifyTail, Verify
<1> QED
  BY <1>3, <1>5, <1>6, <1>7

LEMMA SnapshotsHold == Spec => [](Control /\ Buffer /\ Snapshots)
<1>1. Init => Snapshots
  <2> SUFFICES ASSUME Init PROVE Snapshots
    OBVIOUS
  <2>1. ASSUME NEW r \in Readers PROVE Blank(rd[r]) /\ Attempt(r)
    BY DEF Init, IdleReader, Blank, Attempt, Counted, Taken
  <2> QED
    BY <2>1 DEF Snapshots, OldTime, Init
<1>2. Control /\ Buffer /\ Snapshots /\ [Next]_vars => Snapshots'
  <2> SUFFICES ASSUME Control, Buffer, Snapshots, [Next]_vars,
                      NEW q \in Readers
               PROVE  Blank(rd[q])' /\ Attempt(q)'
    BY OldTimeNext DEF Snapshots
  <2>1. OldTime /\ Blank(rd[q]) /\ Attempt(q)
    BY DEF Snapshots
  <2>2. CASE PushStep
    BY <2>1, <2>2, AttemptPush, PushCompletes DEF Blank
  <2>3. CASE ResizeStep
    <3>1. rd' = rd
      BY <2>3 DEF ResizeStep, ResizeBegin, ResizeLock, ResizeGiveUp, ResizeCopy, ResizeFree,
         ResizeArrays, ResizeSize, ResizeHead, ResizeTail, ResizeCount, ResizeClear,
         ResizeUnlock, ResizeReturn
    <3> QED
      BY <2>1, <2>3, <3>1, AttemptResize DEF Blank
  <2>4. ASSUME NEW r \in Readers, ReadStep(r) PROVE Blank(rd[q])' /\ Attempt(q)'
    <3>1. CASE q # r
      BY <2>1, <2>4, <3>1, ReadOfOthers
    <3>2. CASE q = r
      BY <2>1, <2>4, <3>2, SnapshotBegins, SnapshotFollows, SnapshotValue, SnapshotTime,
         SnapshotVerified DEF ReadStep
    <3> QED
      BY <3>1, <3>2
  <2>5. CASE UNCHANGED vars
    <3>1. UNCHANGED <<rd, disturbed, pushed, Completed, Reallocating, size, count, tail>>
      BY <2>5 DEF vars, bufVars, rz, Completed, Reallocating
    <3> QED
      <4>1. /\ Blank(rd[q])' <=> Blank(rd[q])
            /\ Begun(rd[q])' <=> Begun(rd[q])
            /\ Lengths(rd[q])' <=> Lengths(rd[q])
        BY <3>1 DEF Blank, Begun, Lengths, Cap
      <4>2. Partial(rd[q])' <=> Partial(rd[q])
        BY <3>1 DEF Partial, Exact
      <4>3. Full(rd[q])' <=> Full(rd[q])
        BY <3>1 DEF Full, Torn
      <4> QED
        BY <2>1, <3>1, <4>1, <4>2, <4>3 DEF Attempt
  <2> QED
    BY <2>2, <2>3, <2>4, <2>5 DEF Next
<1> QED
  BY <1>1, <1>2, BufferHolds, PTL DEF Spec

\* What a verified snapshot holds.
LEMMA VerifiedHolds ==
    ASSUME Control, Buffer, Snapshots, NEW r \in Readers, Verified(r)
    PROVE  LET v == rd[r].values
               t == rd[r].times
               n == Len(v)
           IN  /\ v \in Seq(Value) /\ t \in Seq(Value) /\ n \in Nat \ {0} /\ Len(t) = n
               /\ n = Cap(rd[r]) /\ rd[r].count \in Nat /\ rd[r].since \in Nat
               /\ size \in Nat \ {0}
               /\ \/ /\ rd[r].count < size
                     /\ Exact(v, rd[r].since - rd[r].count)
                     /\ Exact(t, rd[r].since - rd[r].count)
                  \/ /\ rd[r].count = size
                     /\ \E b \in Nat : b >= rd[r].since /\ Torn(v, size, b) /\ Torn(t, size, b)
<1> PICK l \in Reader : l = rd[r]
  BY DEF Control, TypeOK
<1>1. l.pc = "ok" /\ l.values # <<>> /\ pushed - l.since < size
  BY DEF Verified
<1>2. ~Reallocating /\ Begun(l) /\ Lengths(l) /\ Partial(l) /\ Full(l)
  BY DEF Snapshots, Attempt, Verified, Taken
<1>3. /\ l.values \in Seq(Value) /\ l.times \in Seq(Value) /\ l.count \in Nat /\ l.since \in Nat
      /\ size \in Nat \ {0} /\ count \in 0..size
  BY <1>2, BoundsAssumption DEF Control, TypeOK, Buffer, Whole, Reader
<1>4. l.count > 0 /\ l.count <= size
  BY <1>1, <1>2, <1>3 DEF Begun
<1>5. Len(l.values) = Cap(l) /\ Len(l.times) = Len(l.values) /\ Cap(l) \in Nat \ {0}
  BY <1>1, <1>2, <1>3, <1>4, BoundsAssumption DEF Lengths, Taken, Cap
<1>6. l.count < size => /\ Exact(l.values, l.since - l.count)
                        /\ Exact(l.times, l.since - l.count)
  BY <1>1, <1>2, <1>4 DEF Partial, Taken, Copying
<1>7. l.count = size => \E b \in Nat : b >= l.since /\ Torn(l.values, size, b)
                                       /\ Torn(l.times, size, b)
  BY <1>1, <1>2, <1>3 DEF Full, Taken
<1> QED
  BY <1>3, <1>4, <1>5, <1>6, <1>7

\* Without any lock, and however the reader's loads are interleaved with the
\* stores of pushes and resizes: all that a verified snapshot may have torn is
\* the slot of the oldest sample of a full buffer, and its values and
\* timestamps are otherwise in order and belong together (ringbuf.c,
\* ringbuf_read_snapshot against ringbuf_push and ringbuf_resize).
THEOREM SnapshotsTornAtMostAtOldest == Spec => []SnapshotTornAtMostAtOldest
<1>1. Control /\ Buffer /\ Snapshots => SnapshotTornAtMostAtOldest
  <2> SUFFICES ASSUME Control, Buffer, Snapshots, NEW r \in Readers, Verified(r)
               PROVE  LET v == rd[r].values
                          t == rd[r].times
                          n == Len(v)
                          oldest == v[n] - (n - 1)
                      IN  /\ Len(t) = n
                          /\ \A i \in 2..n : v[i] = v[n] - (n - i) /\ t[i] = v[i]
                          /\ n > 1 => {v[1], t[1]} \subseteq {oldest, oldest + size}
                          /\ rd[r].count < size => v[1] = oldest /\ t[1] = oldest
    BY DEF SnapshotTornAtMostAtOldest
  <2> PICK v, t : v = rd[r].values /\ t = rd[r].times
    OBVIOUS
  <2> PICK n : n = Len(v)
    OBVIOUS
  <2>1. /\ n \in Nat \ {0} /\ Len(t) = n /\ size \in Nat \ {0}
        /\ rd[r].count \in Nat /\ rd[r].since \in Nat
        /\ \/ /\ rd[r].count < size
              /\ Exact(v, rd[r].since - rd[r].count) /\ Exact(t, rd[r].since - rd[r].count)
           \/ /\ rd[r].count = size
              /\ \E b \in Nat : b >= rd[r].since /\ Torn(v, size, b) /\ Torn(t, size, b)
    BY VerifiedHolds
  <2>2. CASE /\ rd[r].count < size
             /\ Exact(v, rd[r].since - rd[r].count) /\ Exact(t, rd[r].since - rd[r].count)
    <3>1. PICK base \in Int : base = rd[r].since - rd[r].count
      BY <2>1
    <3>2. \A i \in 1..n : v[i] = base + i /\ t[i] = base + i
      BY <2>1, <2>2, <3>1 DEF Exact
    <3>3. 1 \in 1..n /\ n \in 1..n /\ \A i \in 2..n : i \in 1..n
      BY <2>1
    <3>4. v[n] = base + n /\ v[1] = base + 1 /\ t[1] = base + 1
      BY <3>2, <3>3
    <3>5. v[n] - (n - 1) = base + 1 /\ \A i \in 2..n : v[n] - (n - i) = base + i
      BY <2>1, <3>1, <3>4
    <3>6. \A i \in 2..n : v[i] = v[n] - (n - i) /\ t[i] = v[i]
      BY <3>2, <3>3, <3>5
    <3> QED
      BY <2>1, <3>4, <3>5, <3>6
  <2>3. CASE /\ rd[r].count = size
             /\ \E b \in Nat : b >= rd[r].since /\ Torn(v, size, b) /\ Torn(t, size, b)
    <3>1. PICK b \in Nat : Torn(v, size, b) /\ Torn(t, size, b)
      BY <2>3
    <3>2. \A i \in 2..n : v[i] = b - size + i /\ t[i] = b - size + i
      BY <2>1, <3>1 DEF Torn
    <3>3. n > 1 => v[n] = b - size + n
      <4>1. n > 1 => n \in 2..n
        BY <2>1
      <4> QED
        BY <3>2, <4>1
    <3>4. {v[1], t[1]} \subseteq {b - size + 1, b + 1}
      BY <2>1, <3>1, SMTT(60) DEF Torn
    <3>5. ASSUME NEW i \in 2..n PROVE v[i] = v[n] - (n - i) /\ t[i] = v[i]
      <4>1. PICK base \in Int : base = b - size
        BY <2>1
      <4>2. n > 1 /\ v[n] = base + n
        BY <2>1, <3>3, <4>1
      <4>3. v[i] = base + i /\ t[i] = base + i
        BY <3>2, <4>1
      <4>4. base + i = (base + n) - (n - i)
        <5>1. PICK m \in Nat : m = n
          BY <2>1
        <5>2. base + i = (base + m) - (m - i)
          BY <4>1
        <5> QED
          BY <5>1, <5>2
      <4> QED
        BY <4>2, <4>3, <4>4
    <3>6. n > 1 => v[n] - (n - 1) = b - size + 1 /\ v[n] - (n - 1) + size = b + 1
      BY <2>1, <3>3
    <3>7. n > 1 => {v[1], t[1]} \subseteq {v[n] - (n - 1), v[n] - (n - 1) + size}
      BY <3>4, <3>6
    <3>8. Len(t) = n /\ ~(rd[r].count < size)
      BY <2>1, <2>3
    <3> QED
      BY <3>5, <3>7, <3>8, Zenon
  <2> QED
    BY <2>1, <2>2, <2>3
<1> QED
  BY <1>1, SnapshotsHold, PTL

\* A verified snapshot of the whole window ends with the newest sample whose
\* push was complete when the attempt began, or a newer one.
THEOREM SnapshotsAreFresh == Spec => []SnapshotFresh
<1>1. Control /\ Buffer /\ Snapshots => SnapshotFresh
  <2> SUFFICES ASSUME Control, Buffer, Snapshots, NEW r \in Readers, Verified(r),
                      rd[r].count <= ReadCap
               PROVE  rd[r].values[Len(rd[r].values)] >= rd[r].since
    BY DEF SnapshotFresh
  <2> PICK v : v = rd[r].values
    OBVIOUS
  <2> PICK n : n = Len(v)
    OBVIOUS
  <2>1. /\ n \in Nat \ {0} /\ n = Cap(rd[r]) /\ size \in Nat \ {0}
        /\ rd[r].count \in Nat /\ rd[r].since \in Nat
        /\ \/ /\ rd[r].count < size
              /\ Exact(v, rd[r].since - rd[r].count)
           \/ /\ rd[r].count = size
              /\ \E b \in Nat : b >= rd[r].since /\ Torn(v, size, b)
    BY VerifiedHolds
  <2>2. n = rd[r].count
    BY <2>1, BoundsAssumption DEF Cap
  <2>3. CASE rd[r].count < size /\ Exact(v, rd[r].since - rd[r].count)
    BY <2>1, <2>2, <2>3 DEF Exact
  <2>4. CASE rd[r].count = size /\ \E b \in Nat : b >= rd[r].since /\ Torn(v, size, b)
    BY <2>1, <2>2, <2>4 DEF Torn
  <2> QED
    BY <2>1, <2>3, <2>4
<1> QED
  BY <1>1, SnapshotsHold, PTL

=============================================================================
