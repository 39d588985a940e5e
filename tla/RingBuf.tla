------------------------------ MODULE RingBuf -------------------------------
(***************************************************************************)
(* One sample buffer of a plot, ringbuf.c, and the threads that share it:  *)
(*                                                                         *)
(*   - the plot's collector thread (threading.c), the only one that pushes *)
(*     (ringbuf_push, under write_mutex);                                  *)
(*   - the main thread (plot.c), the only one that resizes (ringbuf_resize,*)
(*     under resize_mutex and write_mutex), and a reader;                  *)
(*   - the http thread (httpd.c), a reader.                                *)
(*                                                                         *)
(* Readers take no lock: ringbuf_read_snapshot loads count, head and tail, *)
(* copies the slots, loads the three again and retries if one has changed. *)
(* atomic_load and atomic_store are plain accesses (compat.h), so a step   *)
(* here is one access to the shared structure, in program order.           *)
(*                                                                         *)
(* A sample is its number in the stream of pushes, stored both as value    *)
(* and as timestamp, so that a reader's values and timestamps can be       *)
(* compared.                                                               *)
(***************************************************************************)
EXTENDS Integers, Sequences

CONSTANTS Main, Httpd,   \* the reader threads
          Readers,       \* the readers of an instance: {Main}, {Httpd} or both
          Collector,     \* the thread that pushes
          NoThread,      \* the owner of a free mutex
          Sizes,         \* buffer sizes the window width asks for
          MaxPush,       \* bound on the number of pushes
          ReadCap,       \* buffer_size of the readers' arrays (2048 in the code)
          MaxAttempts,   \* max_attempts of a snapshot (10 in the code)
          Garbage        \* what freed or uninitialised memory holds

ASSUME ThreadsAssumption ==
    /\ Readers \subseteq {Main, Httpd}
    /\ Main # Httpd
    /\ Collector \notin {Main, Httpd}
    /\ NoThread \notin {Main, Httpd, Collector}

ASSUME BoundsAssumption ==
    /\ Sizes \subseteq Nat \ {0}
    /\ MaxPush \in Nat
    /\ ReadCap \in Nat \ {0}
    /\ MaxAttempts \in Nat \ {0}
    /\ Garbage \notin Nat

VARIABLES
    \* ringbuf_t
    data,          \* the value array: a function on its indices, empty once freed
    timestamps,    \* the timestamp array, likewise
    size, head, tail, count,
    write_mutex,   \* the thread that owns it, or NoThread
    resize_mutex,
    \* the threads' locals
    push,          \* where the collector is in ringbuf_push
    resize,        \* where the main thread is in ringbuf_resize, and its locals
    new_size, copy_count, new_data, new_timestamps,
    rd,            \* per reader: its locals in ringbuf_read_snapshot
    \* history, read by the properties only
    pushed,        \* samples stored in the array so far
    disturbed      \* readers whose current attempt overlaps a reallocation

bufVars  == <<data, timestamps, size, head, tail, count>>
lockVars == <<write_mutex, resize_mutex>>
newVars  == <<new_size, copy_count, new_data, new_timestamps>>
rz       == <<resize, newVars>>
vars     == <<bufVars, lockVars, push, rz, rd, pushed, disturbed>>

-----------------------------------------------------------------------------
(* Arrays.  Freed has no index left, so that a read of freed memory, like  *)
(* one out of bounds, yields Garbage.                                      *)

Freed      == [i \in {} |-> 0]
Deref(a, i) == IF i \in DOMAIN a THEN a[i] ELSE Garbage

IdleReader == [pc |-> "idle", attempts |-> 0, count |-> 0, head |-> 0,
               tail |-> 0, values |-> <<>>, times |-> <<>>, since |-> 0]

\* ringbuf_create: two zero-filled arrays of one of the sizes, an empty window.
Init ==
    /\ size \in Sizes
    /\ data = [i \in 0..size-1 |-> 0]
    /\ timestamps = [i \in 0..size-1 |-> 0]
    /\ head = 0 /\ tail = 0 /\ count = 0
    /\ write_mutex = NoThread /\ resize_mutex = NoThread
    /\ push = "idle"
    /\ resize = "idle" /\ new_size = 0 /\ copy_count = 0
    /\ new_data = Freed /\ new_timestamps = Freed
    /\ rd = [r \in Readers |-> IdleReader]
    /\ pushed = 0
    /\ disturbed = {}

-----------------------------------------------------------------------------
(* ringbuf_push, called by the collector thread.  head and count are       *)
(* loaded under write_mutex, whose owner alone stores to them.             *)

PushLock ==
    /\ push = "idle"
    /\ pushed < MaxPush
    /\ write_mutex = NoThread /\ write_mutex' = Collector
    /\ push' = "data"
    /\ UNCHANGED <<bufVars, resize_mutex, rz, rd, pushed, disturbed>>

PushData ==
    /\ push = "data"
    /\ data' = [data EXCEPT ![head] = pushed + 1]
    /\ pushed' = pushed + 1
    /\ push' = "time"
    /\ UNCHANGED <<timestamps, size, head, tail, count, lockVars, rz, rd, disturbed>>

PushTime ==
    /\ push = "time"
    /\ timestamps' = [timestamps EXCEPT ![head] = pushed]
    /\ push' = "head"
    /\ UNCHANGED <<data, size, head, tail, count, lockVars, rz, rd, pushed, disturbed>>

PushHead ==
    /\ push = "head"
    /\ head' = (head + 1) % size
    /\ push' = "count"
    /\ UNCHANGED <<data, timestamps, size, tail, count, lockVars, rz, rd, pushed, disturbed>>

\* Mutant: a full buffer forgets to drop its oldest sample.
PushCountKeepsTail ==
    /\ push = "count"
    /\ count' = IF count < size THEN count + 1 ELSE count
    /\ push' = "unlock"
    /\ UNCHANGED <<data, timestamps, size, head, tail, lockVars, rz, rd, pushed, disturbed>>

\* A buffer that is not full grows by one; a full one drops its oldest sample.
PushCount ==
    /\ push = "count"
    /\ \/ count < size /\ count' = count + 1 /\ UNCHANGED tail
       \/ count >= size /\ tail' = (tail + 1) % size /\ UNCHANGED count
    /\ push' = "unlock"
    /\ UNCHANGED <<data, timestamps, size, head, lockVars, rz, rd, pushed, disturbed>>

PushUnlock ==
    /\ push = "unlock"
    /\ write_mutex' = NoThread
    /\ push' = "idle"
    /\ UNCHANGED <<bufVars, resize_mutex, rz, rd, pushed, disturbed>>

PushStep == PushLock \/ PushData \/ PushTime \/ PushHead \/ PushCount \/ PushUnlock

-----------------------------------------------------------------------------
(* ringbuf_resize, called by the main thread between two snapshots of its  *)
(* own.  The new arrays are private until they are installed, so filling   *)
(* them is one step; the stores that publish them are one step each (the   *)
(* pair of frees and the pair of pointers each count as one).              *)

\* Mutant: a shrinking buffer keeps its oldest samples.
SrcIndexFromTail(new, copy, i) == (tail + i) % size

\* Where in the old array the i-th sample to keep is: counted back from head
\* when samples must be dropped, forward from tail when all of them fit.
SrcIndex(new, copy, i) ==
    IF new < count THEN (head - copy + i + size) % size
                   ELSE (tail + i) % size

\* A new array: the kept samples, then memory that malloc leaves undefined.
Resized(a, new, copy) ==
    [i \in 0..new-1 |-> IF i < copy THEN Deref(a, SrcIndex(new, copy, i)) ELSE Garbage]

ResizeBegin(new) ==
    /\ resize = "idle"
    /\ Main \in Readers => rd[Main].pc = "idle"
    /\ resize_mutex = NoThread /\ resize_mutex' = Main
    /\ resize' = "lock" /\ new_size' = new
    /\ UNCHANGED <<copy_count, new_data, new_timestamps, bufVars, write_mutex,
                   push, rd, pushed, disturbed>>

ResizeLock ==
    /\ resize = "lock"
    /\ write_mutex = NoThread /\ write_mutex' = Main
    /\ resize' = "check"
    /\ UNCHANGED <<newVars, bufVars, resize_mutex, push, rd, pushed, disturbed>>

\* Mutant: an early return that leaves both mutexes locked.
ResizeGiveUpLocked ==
    /\ resize = "check"
    /\ resize' = "idle" /\ new_size' = 0
    /\ UNCHANGED <<copy_count, new_data, new_timestamps, bufVars, lockVars, push, rd,
                   pushed, disturbed>>

\* Nothing to do, or malloc fails: both mutexes are released on the way out.
ResizeGiveUp ==
    /\ resize = "check"
    /\ resize' = "unlock"
    /\ UNCHANGED <<newVars, bufVars, lockVars, push, rd, pushed, disturbed>>

ResizeCopy ==
    /\ resize = "check"
    /\ new_size # size
    /\ LET copy == IF count < new_size THEN count ELSE new_size
       IN  /\ copy_count' = copy
           /\ new_data' = Resized(data, new_size, copy)
           /\ new_timestamps' = Resized(timestamps, new_size, copy)
    /\ resize' = "free"
    /\ UNCHANGED <<new_size, bufVars, lockVars, push, rd, pushed, disturbed>>

ResizeFree ==
    /\ resize = "free"
    /\ data' = Freed /\ timestamps' = Freed
    /\ resize' = "arrays"
    /\ disturbed' = {r \in Readers : rd[r].pc # "idle"}
    /\ UNCHANGED <<newVars, size, head, tail, count, lockVars, push, rd, pushed>>

\* Mutant: only one of the two pointers is replaced.
ResizeArraysHalf ==
    /\ resize = "arrays"
    /\ data' = new_data
    /\ resize' = "size"
    /\ UNCHANGED <<newVars, timestamps, size, head, tail, count, lockVars, push, rd, pushed, disturbed>>

ResizeArrays ==
    /\ resize = "arrays"
    /\ data' = new_data /\ timestamps' = new_timestamps
    /\ resize' = "size"
    /\ UNCHANGED <<newVars, size, head, tail, count, lockVars, push, rd, pushed, disturbed>>

\* Mutant: the size of the new arrays is not recorded.
ResizeSizeForgotten ==
    /\ resize = "size"
    /\ resize' = "head"
    /\ UNCHANGED <<newVars, bufVars, lockVars, push, rd, pushed, disturbed>>

ResizeSize ==
    /\ resize = "size"
    /\ size' = new_size
    /\ resize' = "head"
    /\ UNCHANGED <<newVars, data, timestamps, head, tail, count, lockVars, push, rd, pushed, disturbed>>

\* Mutant: head is not wrapped when the new buffer is full.
ResizeHeadUnwrapped ==
    /\ resize = "head"
    /\ head' = copy_count
    /\ resize' = "tail"
    /\ UNCHANGED <<newVars, data, timestamps, size, tail, count, lockVars, push, rd, pushed, disturbed>>

ResizeHead ==
    /\ resize = "head"
    /\ head' = copy_count % new_size
    /\ resize' = "tail"
    /\ UNCHANGED <<newVars, data, timestamps, size, tail, count, lockVars, push, rd, pushed, disturbed>>

ResizeTail ==
    /\ resize = "tail"
    /\ tail' = 0
    /\ resize' = "count"
    /\ UNCHANGED <<newVars, data, timestamps, size, head, count, lockVars, push, rd, pushed, disturbed>>

ResizeCount ==
    /\ resize = "count"
    /\ count' = copy_count
    /\ resize' = "clear"
    /\ UNCHANGED <<newVars, data, timestamps, size, head, tail, lockVars, push, rd, pushed, disturbed>>

\* The two memsets that zero the slots no sample was copied to.
ResizeClear ==
    /\ resize = "clear"
    /\ data' = [i \in DOMAIN data |-> IF i < copy_count THEN data[i] ELSE 0]
    /\ timestamps' = [i \in DOMAIN timestamps |-> IF i < copy_count THEN timestamps[i] ELSE 0]
    /\ resize' = "unlock"
    /\ UNCHANGED <<newVars, size, head, tail, count, lockVars, push, rd, pushed, disturbed>>

ResizeUnlock ==
    /\ resize = "unlock"
    /\ write_mutex' = NoThread
    /\ resize' = "return"
    /\ UNCHANGED <<newVars, bufVars, resize_mutex, push, rd, pushed, disturbed>>

ResizeReturn ==
    /\ resize = "return"
    /\ resize_mutex' = NoThread
    /\ resize' = "idle" /\ new_size' = 0 /\ copy_count' = 0
    /\ new_data' = Freed /\ new_timestamps' = Freed
    /\ UNCHANGED <<bufVars, write_mutex, push, rd, pushed, disturbed>>

ResizeStep ==
    \/ \E new \in Sizes : ResizeBegin(new)
    \/ ResizeLock \/ ResizeGiveUp \/ ResizeCopy
    \/ ResizeFree \/ ResizeArrays \/ ResizeSize
    \/ ResizeHead \/ ResizeTail \/ ResizeCount \/ ResizeClear
    \/ ResizeUnlock \/ ResizeReturn

\* Between the first and the last store of a reallocation.
Reallocating == resize \in {"arrays", "size", "head", "tail", "count", "clear"}

-----------------------------------------------------------------------------
(* ringbuf_read_snapshot, called by the main thread and the http thread.   *)

\* The reader's locals become l.
Locals(r, l) == rd' = [rd EXCEPT ![r] = l]

\* One more attempt, or none left.
Retry(r) ==
    LET made == rd[r].attempts + 1
    IN  Locals(r, [IdleReader EXCEPT !.pc = IF made < MaxAttempts THEN "count" ELSE "failed",
                                     !.attempts = made])

\* The samples whose push has made its last store.
Completed == IF push \in {"time", "head", "count"} THEN pushed - 1 ELSE pushed

\* Mutant: the reader waits for the writers' mutex.
ReadCountLocked(r) ==
    /\ rd[r].pc \in {"idle", "count"}
    /\ r = Main => resize = "idle"
    /\ rd[r].pc = "idle" \/ write_mutex = NoThread
    /\ Locals(r, [rd[r] EXCEPT !.pc = IF rd[r].pc = "idle" THEN "count"
                                      ELSE IF count = 0 THEN "ok" ELSE "head",
                               !.count = count, !.since = Completed])
    /\ UNCHANGED disturbed

\* An attempt begins; an empty buffer ends it with an empty snapshot.
ReadCount(r) ==
    /\ rd[r].pc \in {"idle", "count"}
    /\ r = Main => resize = "idle"
    /\ Locals(r, [rd[r] EXCEPT !.pc = IF count = 0 THEN "ok" ELSE "head",
                               !.count = count, !.since = Completed])
    /\ disturbed' = IF Reallocating THEN disturbed \union {r} ELSE disturbed \ {r}

ReadHead(r) ==
    /\ rd[r].pc = "head"
    /\ Locals(r, [rd[r] EXCEPT !.pc = "tail", !.head = head])
    /\ UNCHANGED disturbed

ReadTail(r) ==
    /\ rd[r].pc = "tail"
    /\ Locals(r, [rd[r] EXCEPT !.pc = "value", !.tail = tail])
    /\ UNCHANGED disturbed

\* The slots are copied from the oldest; size and the array pointers are
\* loaded again for every one of them.
ReadValue(r) ==
    /\ rd[r].pc = "value"
    /\ LET idx == (rd[r].tail + Len(rd[r].values)) % size
       IN  Locals(r, [rd[r] EXCEPT !.pc = "time", !.values = Append(@, Deref(data, idx))])
    /\ UNCHANGED disturbed

\* Mutant: one slot short of the newest.
CopyCountShort(r) == IF rd[r].count < ReadCap THEN rd[r].count - 1 ELSE ReadCap

CopyCount(r) == IF rd[r].count < ReadCap THEN rd[r].count ELSE ReadCap

ReadTime(r) ==
    /\ rd[r].pc = "time"
    /\ LET idx  == (rd[r].tail + Len(rd[r].times)) % size
           more == Len(rd[r].values) < CopyCount(r)
       IN  Locals(r, [rd[r] EXCEPT !.pc = IF more THEN "value" ELSE "vcount",
                                   !.times = Append(@, Deref(timestamps, idx))])
    /\ UNCHANGED disturbed

\* Mutant: the attempt is accepted as it is.
VerifyNothing(r, ok, next) == Locals(r, [rd[r] EXCEPT !.pc = next]) /\ UNCHANGED disturbed

\* The three loads that verify the attempt.
Verify(r, ok, next) ==
    /\ \/ ok  /\ Locals(r, [rd[r] EXCEPT !.pc = next])
       \/ ~ok /\ Retry(r)
    /\ UNCHANGED disturbed

VerifyCount(r) == rd[r].pc = "vcount" /\ Verify(r, rd[r].count = count, "vhead")
VerifyHead(r)  == rd[r].pc = "vhead"  /\ Verify(r, rd[r].head = head, "vtail")
VerifyTail(r)  == rd[r].pc = "vtail"  /\ Verify(r, rd[r].tail = tail, "ok")

ReadReturn(r) ==
    /\ rd[r].pc \in {"ok", "failed"}
    /\ Locals(r, IdleReader)
    /\ disturbed' = disturbed \ {r}

ReadStep(r) ==
    /\ \/ ReadCount(r) \/ ReadHead(r) \/ ReadTail(r)
       \/ ReadValue(r) \/ ReadTime(r)
       \/ VerifyCount(r) \/ VerifyHead(r) \/ VerifyTail(r)
       \/ ReadReturn(r)
    /\ UNCHANGED <<bufVars, lockVars, push, rz, pushed>>

-----------------------------------------------------------------------------
Next == PushStep \/ ResizeStep \/ \E r \in Readers : ReadStep(r)

Spec == Init /\ [][Next]_vars

\* A reader that runs keeps running; nothing is assumed of the other threads,
\* which may be parked anywhere, mutex in hand.
FairSpec == Spec /\ \A r \in Readers : WF_vars(rd[r].pc # "idle" /\ ReadStep(r))

-----------------------------------------------------------------------------
(* The window as the code's variables represent it.                        *)

\* The buffer is in one of the two threads' hands between the first and the
\* last of its stores.
Pushing == push \in {"time", "head", "count"}

\* The logical window: a push takes effect with its store to the data array
\* (it overwrites the oldest slot of a full buffer), a resize when it frees
\* the old arrays.
LogSize  == IF Reallocating THEN new_size ELSE size
LogCount == IF Reallocating THEN copy_count
            ELSE IF Pushing /\ count < size THEN count + 1 ELSE count
LogHead  == IF Reallocating THEN copy_count % new_size
            ELSE IF push \in {"time", "head"} THEN (head + 1) % size ELSE head
LogData  == IF Reallocating THEN new_data ELSE data

\* The slot of the k-th newest sample.
Slot(k) == (LogHead - k + LogSize) % LogSize

\* The logical window as a sequence, oldest sample first.
LogWindow == [j \in 1..LogCount |-> Deref(LogData, Slot(LogCount + 1 - j))]

\* The code implements the abstract sliding window.
Window == INSTANCE SampleWindow WITH window <- LogWindow, cap <- LogSize, taken <- pushed

-----------------------------------------------------------------------------
(* Properties                                                              *)

Thread == {NoThread, Collector, Main}
Value  == Nat \union {Garbage}

\* A heap array of n values; a freed one has none.
ArrayOf(n) == [0..n-1 -> Value]

ResizePc == {"idle", "lock", "check", "free", "arrays", "size", "head", "tail",
             "count", "clear", "unlock", "return"}
PushPc   == {"idle", "data", "time", "head", "count", "unlock"}
ReadPc   == {"idle", "count", "head", "tail", "value", "time",
             "vcount", "vhead", "vtail", "ok", "failed"}

Reader   == [pc : ReadPc, attempts : Nat, count : Nat, head : Nat,
             tail : Nat, values : Seq(Value), times : Seq(Value), since : Nat]

TypeOK ==
    /\ size \in Sizes
    /\ head \in Nat /\ tail \in Nat /\ count \in Nat
    /\ \E n \in Sizes \union {0} : data \in ArrayOf(n) /\ timestamps \in ArrayOf(n)
    /\ write_mutex \in Thread /\ resize_mutex \in {NoThread, Main}
    /\ push \in PushPc
    /\ resize \in ResizePc /\ new_size \in Sizes \union {0} /\ copy_count \in Nat
    /\ new_size = 0 <=> resize = "idle"
    /\ \E n \in Sizes \union {0} : new_data \in ArrayOf(n) /\ new_timestamps \in ArrayOf(n)
    /\ pushed \in Nat
    /\ disturbed \subseteq Readers
    /\ rd \in [Readers -> Reader]

\* A mutex is owned exactly by the thread that is between its lock and its
\* unlock, on every path out of ringbuf_push and ringbuf_resize (the early
\* return for an unchanged size and both failing mallocs included): no two
\* threads store to the buffer at once, and none leaves a mutex behind.
MutexDiscipline ==
    /\ write_mutex = Collector <=> push # "idle"
    /\ write_mutex = Main <=> resize \notin {"idle", "lock", "return"}
    /\ resize_mutex = Main <=> resize # "idle"

\* head, tail and count describe the same window whenever no thread is in the
\* middle of its stores, though each of them is advanced by a store of its
\* own: going count slots forward from tail leads to head.
IndicesAgree ==
    ~Reallocating /\ push \notin {"count"} =>
        /\ head < size /\ tail < size /\ count <= size
        /\ tail + count \in {head, head + size}

\* Through any sequence of pushes and resizes the buffer holds the newest
\* samples, consecutive and each with its own timestamp: the k-th slot back
\* from head is the k-th newest sample.  (A sample being pushed is in the value
\* array one step before its timestamp is in the other.)
WindowIsNewest ==
    /\ LogCount <= LogSize
    /\ \A k \in 1..LogCount :
         /\ Deref(LogData, Slot(k)) = pushed + 1 - k
         /\ ~Reallocating /\ ~(push = "time" /\ k = 1) =>
                Deref(timestamps, Slot(k)) = pushed + 1 - k

\* The main thread resizes and reads in turn, so its own snapshots never
\* touch an array that a resize has freed, nor index past the end of one.
MainReadsLiveArrays ==
    Main \in Readers /\ rd[Main].pc \in {"value", "time"} =>
        /\ (rd[Main].tail + Len(rd[Main].values)) % size \in DOMAIN data
        /\ (rd[Main].tail + Len(rd[Main].times)) % size \in DOMAIN timestamps

\* A snapshot that was verified while the arrays stayed in place and fewer
\* than size pushes were under way or begun: enough of them would carry head
\* and tail once around the buffer, back to where the attempt found them.
Verified(r) == /\ rd[r].pc = "ok" /\ rd[r].values # <<>>
               /\ r \notin disturbed
               /\ pushed - rd[r].since < size

\* Comparing count, head and tail before and after the copy is not enough to
\* keep a push out of it: the slot of the oldest sample of a full buffer is
\* overwritten before any of the three changes.  What the comparison does
\* guarantee is that this one slot is all that can be torn: every other
\* element is in order and belongs to its timestamp, and the first is either
\* the oldest sample or the one that is about to replace it.  A snapshot of a
\* buffer that is not full is exact: pushes then store outside its window.
SnapshotTornAtMostAtOldest ==
    \A r \in Readers : Verified(r) =>
        LET v == rd[r].values
            t == rd[r].times
            n == Len(v)
            oldest == v[n] - (n - 1)
        IN  /\ Len(t) = n
            /\ \A i \in 2..n : v[i] = v[n] - (n - i) /\ t[i] = v[i]
            /\ n > 1 => {v[1], t[1]} \subseteq {oldest, oldest + size}
            /\ rd[r].count < size => v[1] = oldest /\ t[1] = oldest

\* A snapshot that copies the whole window is fresh: it ends with the newest
\* sample whose push was complete when the attempt began, or a newer one.
SnapshotFresh ==
    \A r \in Readers : Verified(r) /\ rd[r].count <= ReadCap =>
        rd[r].values[Len(rd[r].values)] >= rd[r].since

\* A snapshot always returns, after max_attempts attempts at most, even when
\* the collector stops for good with write_mutex in its hands.
SnapshotReturns ==
    \A r \in Readers : rd[r].pc # "idle" ~> rd[r].pc = "idle"

\* Every step is a push or a resize of the abstract window, or invisible.
ImplementsWindow == Window!Spec

=============================================================================
