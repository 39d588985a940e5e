---------------------------- MODULE ProgramProofs ----------------------------
(***************************************************************************)
(* Proofs about Program, for every number of plots and clients: what main  *)
(* and the threads may rely on being allocated (Startup), and what the     *)
(* http server has told its client when it closes the connection.          *)
(***************************************************************************)
EXTENDS Program, TLAPS

-----------------------------------------------------------------------------
(* The life of the program                                                 *)

Steps == {"acquire", "collector", "source", "start", "http", "loop", "stop", "stopped",
          "exited", "destroy", "unwind", "unwound", "returned"}
Kinds == {"names", "datasource", "buffer", "second"}

StartTypes ==
    /\ config \in [plots : Nat, http : BOOLEAN]
    /\ main \in [at : Steps, i : Nat, failed : BOOLEAN]
    /\ source \in [Plots -> {"none", "missing", "single", "dual"}]
    /\ thread \in [Plots -> {"none", "begun", "runs", "gone"}]

\* A start that has failed is on its way out.
Failing == main.failed <=> main.at \in {"destroy", "unwind", "unwound", "returned"}

\* How far the loops of main have come.
Created ==
    /\ main.at = "acquire" => main.i \in 1..Len(Resources)
    /\ main.at = "source" =>
         main.i >= 1 /\ \A j \in Plots : j < main.i => source[j] # "none"
    /\ main.at \in {"start", "http", "loop", "stop", "stopped", "destroy"} =>
         \A j \in Plots : source[j] # "none"

Started ==
    /\ main.at \in {"acquire", "collector", "source"} => \A j \in Plots : thread[j] = "none"
    /\ main.at = "start" => main.i >= 1 /\ \A j \in Plots : j < main.i => thread[j] # "none"
    /\ main.at \in {"http", "loop"} => \A j \in Plots : thread[j] # "none"

\* The objects of a source.
KindsOf(s) == {"names", "buffer"} \union (IF s = "missing" THEN {} ELSE {"datasource"})
                                  \union (IF s = "dual" THEN {"second"} ELSE {})

Complete(j) == \A kind \in KindsOf(source[j]) : <<kind, j>> \in heap

\* What there surely is, for as long as main has not freed it.
Allocated ==
    /\ main.at = "acquire" => \A k \in 1..8 : k < main.i => The(Resources[k]) \in heap
    /\ main.at \in {"collector", "source", "start", "http", "loop", "stop", "destroy"} =>
         \A k \in 1..8 : The(Resources[k]) \in heap
    /\ main.at = "stopped" => The("config") \in heap
    /\ main.at \in {"source", "start", "http", "loop", "stop", "stopped", "destroy"} =>
         The("collector") \in heap
    /\ main.at = "source" => \A j \in Plots : j < main.i => Complete(j)
    /\ main.at \in {"start", "http", "loop", "stop", "stopped", "destroy"} =>
         \A j \in Plots : Complete(j)

\* What there is at most.
Acquired == {The(Resources[k]) : k \in 1..8}

Bounded ==
    /\ heap \subseteq Acquired \union {The("collector")} \union (Kinds \X Plots)
    /\ main.at \in {"acquire", "collector", "unwind", "unwound", "returned"} =>
         The("collector") \notin heap
    /\ main.at \in {"unwound", "returned"} => heap \subseteq Kinds \X Plots

Unharmed ==
    /\ misused = {}
    /\ \/ touched = {} \/ main.failed
       \/ touched = {The("os")} /\ main.at \in {"stopped", "exited"}

Life == StartTypes /\ Failing /\ Created /\ Started /\ Allocated /\ Bounded /\ Unharmed

LEMMA ResourceNames ==
    /\ Len(Resources) = 8
    /\ \A k \in 1..8 : The(Resources[k]) # The("collector")
    /\ Resources[1] = "os" /\ Resources[2] = "graphics" /\ Resources[3] = "config"
BY DEF Resources, The

LEMMA Going ==
    ASSUME NEW step \in Steps, StartTypes, GoTo(step)
    PROVE  /\ main' \in [at : Steps, i : Nat, failed : BOOLEAN]
           /\ main'.at = step /\ main'.i = 1 /\ main'.failed = main.failed
BY DEF GoTo, StartTypes

LEMMA Failed ==
    ASSUME NEW step \in Steps, StartTypes, Fail(step)
    PROVE  /\ main' \in [at : Steps, i : Nat, failed : BOOLEAN]
           /\ main'.at = step /\ main'.failed
BY DEF Fail, StartTypes

LEMMA Advancing ==
    ASSUME StartTypes, main' = [main EXCEPT !.i = main.i + 1]
    PROVE  /\ main' \in [at : Steps, i : Nat, failed : BOOLEAN]
           /\ main'.at = main.at /\ main'.i = main.i + 1 /\ main'.failed = main.failed
<1>1. main.i + 1 \in Nat
  BY DEF StartTypes
<1> QED
  BY <1>1 DEF StartTypes

LEMMA Moving ==
    ASSUME NEW step \in Steps, StartTypes, main' = [main EXCEPT !.at = step]
    PROVE  /\ main' \in [at : Steps, i : Nat, failed : BOOLEAN]
           /\ main'.at = step /\ main'.failed = main.failed
BY DEF StartTypes

LEMMA LifeInit == StartInit => Life
<1> SUFFICES ASSUME StartInit PROVE Life
  OBVIOUS
<1>1. /\ main = [at |-> "acquire", i |-> 1, failed |-> FALSE]
      /\ config \in [plots : Nat, http : BOOLEAN]
      /\ heap = {} /\ misused = {} /\ touched = {}
  BY StartupAssumption DEF StartInit
<1>2. StartTypes
  BY <1>1 DEF StartInit, StartTypes, Steps
<1>3. Failing /\ Created /\ Started
  BY <1>1, ResourceNames DEF StartInit, Failing, Created, Started
<1>4. main.at = "acquire" /\ main.i = 1
  BY <1>1
<1>5. Allocated /\ Bounded /\ Unharmed
  <2>1. Allocated
    BY <1>1, <1>4 DEF Allocated
  <2>2. Bounded
    BY <1>1, <1>4 DEF Bounded
  <2>3. Unharmed
    <3>1. misused = {} /\ touched = {}
      BY <1>1
    <3> QED
      BY <3>1 DEF Unharmed
  <2> QED
    BY <2>1, <2>2, <2>3
<1> QED
  BY <1>2, <1>3, <1>5 DEF Life

LEMMA LifeAcquire == Life /\ Acquire => Life'
<1> SUFFICES ASSUME Life, Acquire PROVE Life'
  OBVIOUS
<1>1. /\ main.at = "acquire" /\ main.i \in 1..8 /\ ~main.failed /\ touched = {}
      /\ UNCHANGED <<config, source, thread, misused, touched>>
      /\ Plots' = Plots
  BY ResourceNames DEF Acquire, Life, Created, Failing, Unharmed, Plots
<1>2. /\ main' \in [at : Steps, i : Nat, failed : BOOLEAN]
      /\ \/ main'.at = "acquire" /\ main'.i = main.i + 1 /\ main.i < 8 /\ ~main'.failed
         \/ main'.at = "collector" /\ main.i = 8 /\ ~main'.failed
         \/ main'.at = "unwind" /\ heap' = heap /\ main'.failed
      /\ main'.at # "unwind" => heap' = heap \union {The(Resources[main.i])}
  BY <1>1, Going, Failed, Advancing, ResourceNames DEF Acquire, Life, Steps
<1>3. StartTypes' /\ Failing' /\ Created' /\ Started'
  BY <1>1, <1>2, ResourceNames DEF Life, StartTypes, Failing, Created, Started
<1>4. Allocated'
  BY <1>1, <1>2 DEF Life, Allocated
<1>5. Bounded' /\ Unharmed'
  BY <1>1, <1>2, ResourceNames DEF Life, Bounded, Unharmed, Acquired
<1> QED
  BY <1>3, <1>4, <1>5 DEF Life

LEMMA LifeCollector == Life /\ CreateCollector => Life'
<1> SUFFICES ASSUME Life, CreateCollector PROVE Life'
  OBVIOUS
<1>1. /\ main.at = "collector" /\ ~main.failed /\ touched = {}
      /\ UNCHANGED <<config, source, thread, misused, touched>>
      /\ Plots' = Plots
  BY DEF CreateCollector, Life, Failing, Unharmed, Plots
<1>2. /\ main' \in [at : Steps, i : Nat, failed : BOOLEAN]
      /\ \/ /\ main'.at = "source" /\ main'.i = 1 /\ ~main'.failed
            /\ heap' = heap \union {The("collector")}
         \/ main'.at = "unwind" /\ heap' = heap /\ main'.failed
  BY <1>1, Going, Failed DEF CreateCollector, Life, Steps
<1>3. StartTypes' /\ Failing' /\ Created' /\ Started'
  BY <1>1, <1>2 DEF Life, StartTypes, Failing, Created, Started, Plots
<1>4. Allocated'
  BY <1>1, <1>2 DEF Life, Allocated, Plots, StartTypes
<1>5. Bounded' /\ Unharmed'
  BY <1>1, <1>2 DEF Life, Bounded, Unharmed
<1> QED
  BY <1>3, <1>4, <1>5 DEF Life

\* The objects of the sources before main's one are all there.
LEMMA EarlierAreThere ==
    ASSUME Life, main.at = "source", main.i \in Plots
    PROVE  /\ Earlier({"names", "buffer"}) \subseteq heap
           /\ Earlier({"names"}) \subseteq heap
           /\ Seconds(Earlier({"second"})) \subseteq heap
           /\ The("collector") \in heap
<1>1. \A j \in 1..(main.i - 1) : j \in Plots /\ j < main.i /\ Complete(j)
  BY DEF Life, StartTypes, Plots, Allocated
<1>2. \A j \in 1..(main.i - 1) : \A kind \in {"names", "buffer"} : <<kind, j>> \in heap
  BY <1>1 DEF Complete, KindsOf
<1>3. \A j \in 1..(main.i - 1) : source[j] = "dual" => <<"second", j>> \in heap
  BY <1>1 DEF Complete, KindsOf
<1>4. Seconds(Earlier({"second"})) \subseteq heap
  <2> SUFFICES ASSUME NEW j \in 1..(main.i - 1), source[<<"second", j>>[2]] = "dual"
               PROVE  <<"second", j>> \in heap
    BY DEF Seconds, Earlier
  <2> QED
    BY <1>3
<1>5. Earlier({"names", "buffer"}) \subseteq heap /\ Earlier({"names"}) \subseteq heap
  <2>1. main.i - 1 \in Int
    BY DEF Life, StartTypes
  <2> DEFINE n == main.i - 1
  <2>2. \A kind \in {"names", "buffer"} : \A j \in 1..n : <<kind, j>> \in heap
    BY <1>2
  <2> HIDE DEF n
  <2>3. {"names", "buffer"} \X (1..n) \subseteq heap /\ {"names"} \X (1..n) \subseteq heap
    BY ONLY <2>2
  <2> QED
    BY <2>3 DEF Earlier, n
<1>6. The("collector") \in heap
  BY DEF Life, Allocated
<1> QED
  BY <1>4, <1>5, <1>6

LEMMA LifeCreationFails ==
    ASSUME Life, main.at = "source", main.i \in Plots, NamesFail \/ BufferFails \/ SecondFails,
           UNCHANGED <<config, signalled, thread, touched>>
    PROVE  Life'
<1>1. /\ main' \in [at : Steps, i : Nat, failed : BOOLEAN]
      /\ main'.at = "unwind" /\ main'.failed /\ UNCHANGED source /\ Plots' = Plots
  BY Failed DEF NamesFail, BufferFails, SecondFails, Life, Steps, Plots
<1>2. /\ heap' \subseteq heap \union (Kinds \X Plots) /\ The("collector") \notin heap'
      /\ misused' = {}
  <2>1. /\ Earlier({"names", "buffer"}) \subseteq heap /\ Earlier({"names"}) \subseteq heap
        /\ Seconds(Earlier({"second"})) \subseteq heap /\ The("collector") \in heap
        /\ misused = {}
    BY EarlierAreThere DEF Life, Unharmed
  <2>2. /\ The("collector") \notin Earlier({"names"})
        /\ The("collector") \notin Earlier({"names", "buffer"})
        /\ The("collector") # <<"buffer", main.i>>
        /\ <<"buffer", main.i>> \notin Earlier({"names", "buffer"})
        /\ <<"buffer", main.i>> \notin Seconds(Earlier({"second"}))
    BY DEF The, Earlier, Seconds, Life, StartTypes
  <2>3. CASE NamesFail
    BY <2>1, <2>2, <2>3 DEF NamesFail, FreeOf, Kinds
  <2>4. CASE BufferFails
    BY <2>1, <2>2, <2>4 DEF BufferFails, FreeOf, Kinds
  <2>5. CASE SecondFails
    BY <2>1, <2>2, <2>5 DEF SecondFails, FreeOf, Kinds
  <2> QED
    BY <2>3, <2>4, <2>5
<1>3. StartTypes' /\ Failing' /\ Created' /\ Started'
  BY <1>1 DEF Life, StartTypes, Failing, Created, Started
<1>4. Allocated'
  BY <1>1 DEF Allocated
<1>5. Bounded' /\ Unharmed'
  BY <1>1, <1>2 DEF Life, Bounded, Unharmed
<1> QED
  BY <1>3, <1>4, <1>5 DEF Life

LEMMA LifeCreateOne ==
    ASSUME Life, main.at = "source", main.i \in Plots, CreateOne,
           UNCHANGED <<config, signalled, thread, touched>>
    PROVE  Life'
<1>1. /\ main' \in [at : Steps, i : Nat, failed : BOOLEAN]
      /\ main'.at = "source" /\ main'.i = main.i + 1 /\ main'.failed = main.failed
      /\ UNCHANGED misused /\ Plots' = Plots
  BY Advancing DEF CreateOne, Life, Plots
<1>2. PICK s \in {"missing", "single", "dual"} :
         /\ source' = [source EXCEPT ![main.i] = s]
         /\ heap' = heap \union (KindsOf(s) \X {main.i})
  BY DEF CreateOne, KindsOf
<1>3. /\ source' \in [Plots -> {"none", "missing", "single", "dual"}]
      /\ source'[main.i] = s /\ \A j \in Plots : j # main.i => source'[j] = source[j]
      /\ heap \subseteq heap' /\ heap' \subseteq heap \union (Kinds \X Plots)
      /\ \A kind \in KindsOf(s) : <<kind, main.i>> \in heap'
  BY <1>2 DEF Life, StartTypes, KindsOf, Kinds
<1>4. StartTypes' /\ Failing' /\ Created' /\ Started'
  BY <1>1, <1>3, SMTT(60) DEF Life, StartTypes, Failing, Created, Started, Plots
<1>5. \A j \in Plots : j < main.i + 1 => Complete(j)'
  BY <1>3 DEF Life, Allocated, Complete, StartTypes, Plots
<1>6. Allocated'
  BY <1>1, <1>3, <1>5 DEF Life, Allocated
<1>7. Bounded' /\ Unharmed'
  BY <1>1, <1>3 DEF Life, Bounded, Unharmed
<1> QED
  BY <1>4, <1>6, <1>7 DEF Life

LEMMA LifeCreateSource == Life /\ CreateSource => Life'
<1> SUFFICES ASSUME Life, CreateSource PROVE Life'
  OBVIOUS
<1>1. CASE main.i \in Plots
  BY <1>1, LifeCreationFails, LifeCreateOne DEF CreateSource
<1>2. CASE main.i \notin Plots
  <2>1. /\ main.at = "source" /\ main.i \in Nat /\ main.i >= 1
        /\ UNCHANGED <<config, heap, source, thread, misused, touched>> /\ Plots' = Plots
    BY <1>2 DEF CreateSource, Plots, Life, Created, StartTypes
  <2>2. /\ main' \in [at : Steps, i : Nat, failed : BOOLEAN]
        /\ main'.at = "start" /\ main'.i = 1 /\ main'.failed = main.failed
    BY <1>2, Going DEF CreateSource, Life, Steps
  <2>3. \A j \in Plots : j < main.i
    BY <1>2, <2>1 DEF Plots, Life, StartTypes
  <2>4. StartTypes' /\ Failing' /\ Created' /\ Started'
    BY <2>1, <2>2, <2>3 DEF Life, StartTypes, Failing, Created, Started, Plots
  <2>5. Allocated' /\ Bounded' /\ Unharmed'
    BY <2>1, <2>2, <2>3 DEF Life, Allocated, Complete, Bounded, Unharmed
  <2> QED
    BY <2>4, <2>5 DEF Life
<1> QED
  BY <1>1, <1>2

LEMMA LifeStartThread == Life /\ StartThread => Life'
<1> SUFFICES ASSUME Life, StartThread PROVE Life'
  OBVIOUS
<1>1. /\ main.at = "start" /\ main.i >= 1 /\ main.i \in Nat /\ ~main.failed /\ touched = {}
      /\ UNCHANGED <<config, heap, source, misused, touched>> /\ Plots' = Plots
  BY DEF StartThread, Life, Failing, Started, StartTypes, Unharmed, Plots
<1>2. CASE main.i \in Plots
  <2>1. /\ main' \in [at : Steps, i : Nat, failed : BOOLEAN]
        /\ \/ /\ main'.at = "start" /\ main'.i = main.i + 1 /\ ~main'.failed
              /\ thread' = [thread EXCEPT ![main.i] = "begun"]
           \/ main'.at = "destroy" /\ main'.failed /\ thread' = thread
    BY <1>1, <1>2, Failed, Advancing DEF StartThread, Life, Steps
  <2>2. StartTypes' /\ Failing' /\ Created' /\ Started'
    <3>1. StartTypes'
      BY <1>1, <2>1 DEF Life, StartTypes
    <3>2. Failing' /\ Created'
      BY <1>1, <2>1 DEF Life, Failing, Created
    <3>3. Started'
      BY <1>1, <1>2, <2>1, SMTT(60) DEF Life, StartTypes, Started, Plots
    <3> QED
      BY <3>1, <3>2, <3>3
  <2>3. Allocated' /\ Bounded' /\ Unharmed'
    BY <1>1, <2>1 DEF Life, Allocated, Complete, Bounded, Unharmed
  <2> QED
    BY <2>2, <2>3 DEF Life
<1>3. CASE main.i \notin Plots
  <2>1. /\ main' \in [at : Steps, i : Nat, failed : BOOLEAN] /\ main'.at \in {"http", "loop"}
        /\ ~main'.failed /\ UNCHANGED thread
    BY <1>1, <1>3, Going DEF StartThread, Life, Steps
  <2>2. \A j \in Plots : j < main.i
    BY <1>1, <1>3 DEF Plots, Life, StartTypes
  <2>3. StartTypes' /\ Failing' /\ Created' /\ Started'
    BY <1>1, <2>1, <2>2 DEF Life, StartTypes, Failing, Created, Started, Plots
  <2>4. Allocated' /\ Bounded' /\ Unharmed'
    BY <1>1, <2>1 DEF Life, Allocated, Complete, Bounded, Unharmed
  <2> QED
    BY <2>3, <2>4 DEF Life
<1> QED
  BY <1>2, <1>3

LEMMA LifeDestroy == Life /\ Destroy => Life'
<1> SUFFICES ASSUME Life, Destroy PROVE Life'
  OBVIOUS
<1> DEFINE first == ({"names", "buffer"} \X Plots) \union Seconds({"second"} \X Plots)
                      \union {o \in {"datasource"} \X Plots : source[o[2]] # "missing"}
<1>1. /\ main.at = "destroy" /\ UNCHANGED <<config, source, thread, touched>> /\ Plots' = Plots
      /\ FreeOf(heap, first, {The("collector")})
  BY DEF Destroy, Plots
<1>2. /\ main' \in [at : Steps, i : Nat, failed : BOOLEAN]
      /\ main'.at = "unwind" /\ main'.failed = main.failed
  BY Moving DEF Destroy, Life, Steps
<1>3. first \subseteq heap
  <2>1. \A j \in Plots : source[j] \in {"missing", "single", "dual"} /\ Complete(j)
    BY <1>1 DEF Life, Created, StartTypes, Allocated
  <2>2. \A kind \in {"names", "buffer"} : \A j \in Plots : <<kind, j>> \in heap
    BY <2>1 DEF Complete, KindsOf
  <2>3. {"names", "buffer"} \X Plots \subseteq heap
    BY ONLY <2>2
  <2>4. ASSUME NEW j \in Plots, source[<<"second", j>>[2]] = "dual" PROVE <<"second", j>> \in heap
    BY <2>1, <2>4 DEF Complete, KindsOf
  <2>5. ASSUME NEW j \in Plots, source[<<"datasource", j>>[2]] # "missing"
        PROVE  <<"datasource", j>> \in heap
    BY <2>1, <2>5 DEF Complete, KindsOf
  <2> QED
    BY <2>3, <2>4, <2>5 DEF Seconds
<1>4. The("collector") \in heap /\ The("collector") \notin first
  <2>1. \A kind, j : <<kind, j>> = The("collector") => j = 0
    BY DEF The
  <2>2. 0 \notin Plots
    BY DEF Life, StartTypes, Plots
  <2> QED
    BY <1>1, <2>1, <2>2 DEF Life, Allocated, Seconds
<1> HIDE DEF first
<1>5. heap' \subseteq heap /\ The("collector") \notin heap' /\ misused' = {}
  BY <1>1, <1>3, <1>4 DEF FreeOf, Life, Unharmed
<1>6. StartTypes' /\ Failing' /\ Created' /\ Started'
  BY <1>1, <1>2 DEF Life, StartTypes, Failing, Created, Started
<1>7. Allocated' /\ Bounded'
  BY <1>1, <1>2, <1>5 DEF Life, Allocated, Bounded
<1>8. Unharmed'
  BY <1>1, <1>2, <1>5 DEF Life, Unharmed
<1> QED
  BY <1>6, <1>7, <1>8 DEF Life

LEMMA LifeUnwind == Life /\ Unwind => Life'
<1> SUFFICES ASSUME Life, Unwind PROVE Life'
  OBVIOUS
<1>1. /\ main.at = "unwind" /\ Plots' = Plots
      /\ UNCHANGED <<config, source, thread, misused, touched>>
      /\ heap' = {o \in heap : \A k \in 1..8 : o # The(Resources[k])}
  BY ResourceNames DEF Unwind, Plots
<1>2. /\ main' \in [at : Steps, i : Nat, failed : BOOLEAN]
      /\ main'.at = "unwound" /\ main'.failed = main.failed
  BY Moving DEF Unwind, Life, Steps
<1>3. heap' \subseteq Kinds \X Plots /\ The("collector") \notin heap'
  BY <1>1 DEF Life, Bounded, Acquired
<1>4. StartTypes' /\ Failing' /\ Created' /\ Started'
  BY <1>1, <1>2 DEF Life, StartTypes, Failing, Created, Started
<1>5. Allocated' /\ Bounded'
  BY <1>1, <1>2, <1>3 DEF Life, Allocated, Bounded
<1>6. Unharmed'
  BY <1>1, <1>2 DEF Life, Unharmed
<1> QED
  BY <1>4, <1>5, <1>6 DEF Life

LEMMA LifeReturn == Life /\ Return => Life'
<1> SUFFICES ASSUME Life, Return PROVE Life'
  OBVIOUS
<1>1. /\ main.at = "unwound" /\ Plots' = Plots
      /\ UNCHANGED <<config, heap, source, thread, misused, touched>>
  BY DEF Return, Plots
<1>2. /\ main' \in [at : Steps, i : Nat, failed : BOOLEAN]
      /\ main'.at = "returned" /\ main'.failed = main.failed
  BY Moving DEF Return, Life, Steps
<1>3. StartTypes' /\ Failing' /\ Created' /\ Started'
  BY <1>1, <1>2 DEF Life, StartTypes, Failing, Created, Started
<1>4. Allocated' /\ Bounded'
  BY <1>1, <1>2 DEF Life, Allocated, Bounded
<1>5. Unharmed'
  BY <1>1, <1>2 DEF Life, Unharmed
<1> QED
  BY <1>3, <1>4, <1>5 DEF Life

LEMMA LifeStartHttp == ASSUME Life, NEW started, StartHttp(started) PROVE Life'
<1>1. /\ main.at = "http" /\ ~main.failed /\ touched = {} /\ Plots' = Plots
      /\ UNCHANGED <<config, heap, source, thread, misused, touched>>
  BY DEF StartHttp, Plots, Life, Failing, Unharmed
<1>2. /\ main' \in [at : Steps, i : Nat, failed : BOOLEAN]
      /\ \/ main'.at = "loop" /\ ~main'.failed
         \/ main'.at = "destroy" /\ main'.failed
  BY <1>1, Going, Failed DEF StartHttp, Life, Steps
<1>3. StartTypes' /\ Failing' /\ Created' /\ Started'
  BY <1>1, <1>2 DEF Life, StartTypes, Failing, Created, Started
<1>4. Allocated' /\ Bounded' /\ Unharmed'
  BY <1>1, <1>2 DEF Life, Allocated, Complete, Bounded, Unharmed
<1> QED
  BY <1>3, <1>4 DEF Life

LEMMA LifeUpdate == Life /\ Update => Life'
<1> SUFFICES ASSUME Life, Update PROVE Life'
  OBVIOUS
<1>1. /\ main.at = "loop" /\ ~main.failed /\ touched = {} /\ Plots' = Plots
      /\ UNCHANGED <<config, heap, source, thread, misused, touched>>
  BY DEF Update, Plots, Life, Failing, Unharmed
<1>2. /\ main' \in [at : Steps, i : Nat, failed : BOOLEAN]
      /\ main'.at \in {"stop", "exited"} /\ ~main'.failed
  BY <1>1, Going DEF Update, Life, Steps
<1>3. StartTypes' /\ Failing' /\ Created' /\ Started'
  BY <1>1, <1>2 DEF Life, StartTypes, Failing, Created, Started
<1>4. Allocated' /\ Bounded' /\ Unharmed'
  BY <1>1, <1>2 DEF Life, Allocated, Complete, Bounded, Unharmed
<1> QED
  BY <1>3, <1>4 DEF Life

LEMMA LifeStop == Life /\ Stop => Life'
<1> SUFFICES ASSUME Life, Stop PROVE Life'
  OBVIOUS
<1>1. /\ main.at = "stop" /\ ~main.failed /\ touched = {} /\ Plots' = Plots
      /\ UNCHANGED <<config, source, thread, misused, touched>>
      /\ heap' = heap \ {The("graphics"), The("os")}
  BY DEF Stop, Plots, Life, Failing, Unharmed
<1>2. /\ main' \in [at : Steps, i : Nat, failed : BOOLEAN]
      /\ main'.at = "stopped" /\ ~main'.failed
  BY <1>1, Going DEF Stop, Life, Steps
<1>3. StartTypes' /\ Failing' /\ Created' /\ Started'
  BY <1>1, <1>2 DEF Life, StartTypes, Failing, Created, Started
<1>4. The("config") \in heap' /\ The("collector") \in heap'
  BY <1>1, ResourceNames DEF Life, Allocated, The
<1>5. ASSUME NEW j \in Plots PROVE Complete(j)'
  <2>1. 0 \notin Plots
    BY DEF Life, StartTypes, Plots
  <2> QED
    BY <1>1, <2>1 DEF Life, Allocated, Complete, The
<1>6. Allocated' /\ Bounded' /\ Unharmed'
  BY <1>1, <1>2, <1>4, <1>5 DEF Life, Allocated, Bounded, Unharmed
<1> QED
  BY <1>3, <1>6 DEF Life

LEMMA LifeExit == Life /\ Exit => Life'
<1> SUFFICES ASSUME Life, Exit PROVE Life'
  OBVIOUS
<1>1. /\ main.at = "stopped" /\ ~main.failed /\ Plots' = Plots
      /\ UNCHANGED <<config, heap, source, thread, misused, touched>>
  BY DEF Exit, Plots, Life, Failing
<1>2. /\ main' \in [at : Steps, i : Nat, failed : BOOLEAN]
      /\ main'.at = "exited" /\ ~main'.failed
  BY <1>1, Going DEF Exit, Life, Steps
<1>3. StartTypes' /\ Failing' /\ Created' /\ Started'
  BY <1>1, <1>2 DEF Life, StartTypes, Failing, Created, Started
<1>4. Allocated' /\ Bounded' /\ Unharmed'
  BY <1>1, <1>2 DEF Life, Allocated, Bounded, Unharmed
<1> QED
  BY <1>3, <1>4 DEF Life

\* What a step of another thread than main's may do.
LEMMA LifeThread ==
    ASSUME Life, UNCHANGED <<config, main, heap, source, misused>>,
           thread' \in [Plots -> {"none", "begun", "runs", "gone"}],
           \A j \in Plots : thread'[j] = "none" <=> thread[j] = "none",
           Unharmed'
    PROVE  Life'
<1>1. Plots' = Plots /\ StartTypes' /\ Failing' /\ Created' /\ Started'
  BY DEF Life, StartTypes, Failing, Created, Started, Plots
<1>2. Allocated' /\ Bounded'
  BY <1>1 DEF Life, Allocated, Complete, Bounded
<1> QED
  BY <1>1, <1>2 DEF Life

LEMMA LifeThreadStep == Life /\ ThreadStep => Life'
<1> SUFFICES ASSUME Life, NEW i \in Plots, ThreadBegins(i) \/ Collect(i) PROVE Life'
  BY DEF ThreadStep
<1>1. /\ ~Ended /\ thread[i] # "none" /\ UNCHANGED <<config, main, heap, source, misused>>
      /\ thread' \in [Plots -> {"none", "begun", "runs", "gone"}]
      /\ \A j \in Plots : thread'[j] = "none" <=> thread[j] = "none"
  BY DEF ThreadBegins, Collect, Life, StartTypes
<1>2. PICK used : /\ used \subseteq Needs(i) /\ touched' = touched \union (used \ heap)
  <2>1. CASE ThreadBegins(i)
    BY <2>1 DEF ThreadBegins, Needs
  <2>2. CASE Collect(i)
    BY <2>2 DEF Collect
  <2> QED
    BY <2>1, <2>2
<1>3. Unharmed'
  <2>1. CASE main.failed
    BY <1>1, <2>1 DEF Life, Unharmed
  <2>2. CASE main.at = "stopped"
    <3>1. Needs(i) \subseteq heap \union {The("os")}
      BY <2>2 DEF Needs, Life, Allocated, Complete, KindsOf
    <3> QED
      BY <1>1, <1>2, <2>2, <3>1 DEF Life, Unharmed
  <2>3. CASE ~main.failed /\ main.at # "stopped"
    <3>1. main.at \in {"start", "http", "loop", "stop"}
      BY <1>1, <2>3 DEF Life, Started, Failing, StartTypes, Steps, Ended
    <3>2. Needs(i) \subseteq heap
      BY <3>1, ResourceNames DEF Needs, Life, Allocated, Complete, KindsOf
    <3> QED
      BY <1>1, <1>2, <3>1, <3>2 DEF Life, Unharmed
  <2> QED
    BY <2>1, <2>2, <2>3
<1> QED
  BY <1>1, <1>3, LifeThread

-----------------------------------------------------------------------------
(* The http server                                                         *)

ServerSteps == {"none", "check", "accept", "sleep", "recv", "answer", "send", "close"}
Answers     == {"none", "501", "html", "gif", "500", "404"}
ServerState == [at : ServerSteps, client : Clients \union {Nobody}, heard : Nat,
                answer : Answers, left : Nat, sent : Nat, unread : Nat]
NetState    == [at : {"away", "queued", "accepted", "reset", "closed"}, gone : BOOLEAN,
                want : Seq(STRING), sent : Nat]

HttpTypes == /\ server \in ServerState
             /\ net \in [Clients -> NetState]
             /\ backlog \in Seq(Clients)

\* The server serves while main loops, and until the process is gone.
Serving == server.at # "none" => main.at \in {"loop", "stop", "stopped"}

\* What is true of the answer to piece, for a client that may be gone.
Dialogue(sv, gone, piece) ==
    /\ sv.at \in {"recv", "answer"} => sv.sent = 0
    /\ sv.at = "send" => sv.sent + sv.left = Size(sv.answer) /\ sv.answer \in Served(piece)
    /\ sv.at = "close" => gone \/ (sv.sent = Size(sv.answer) /\ sv.answer \in Served(piece))

Talking == server.at \in {"recv", "answer", "send", "close"}

Piece == SubSeq(net[server.client].want, 1, server.heard)

Conversing == /\ Talking => server.client \in Clients /\ net[server.client].at = "accepted"
              /\ Talking => Dialogue(server, net[server.client].gone, Piece)
              /\ ~Talking => server.sent = 0

LEMMA ServedIsAnswer == \A piece : Served(piece) \subseteq Answers
BY DEF Served, Answers

LEMMA IdleState == /\ Idle \in ServerState /\ [Idle EXCEPT !.at = "check"] \in ServerState
                   /\ Idle.at = "none" /\ Idle.sent = 0
                   /\ [Idle EXCEPT !.at = "check"].at = "check"
                   /\ [Idle EXCEPT !.at = "check"].sent = 0
BY DEF Idle, ServerState, ServerSteps, Answers

LEMMA AwayState == /\ Away \in NetState
                   /\ [Away EXCEPT !.at = "reset"] \in NetState
                   /\ [Away EXCEPT !.at = "closed"] \in NetState
<1>1. <<>> \in Seq(STRING)
  OBVIOUS
<1> QED
  BY <1>1 DEF Away, NetState

LEMMA SizeIsNat == \A a \in Answers : Size(a) \in Nat
BY ServerAssumption DEF Size, Answers

\* The server's client is not touched, but may hang up; others may do anything.
LEMMA Undisturbed ==
    ASSUME HttpTypes, Conversing, HttpTypes',
           server'.at = server.at, server'.client = server.client,
           server'.heard = server.heard, server'.answer = server.answer,
           server'.left = server.left, server'.sent = server.sent,
           Talking => /\ net'[server.client].at = "accepted"
                      /\ net'[server.client].want = net[server.client].want
                      /\ net[server.client].gone => net'[server.client].gone
    PROVE  Conversing'
<1>1. Talking' = Talking
  BY DEF Talking
<1>2. Talking => Piece' = Piece
  BY DEF Piece
<1>3. ASSUME Talking PROVE Dialogue(server', net'[server.client].gone, Piece)
  BY <1>3 DEF Conversing, Dialogue
<1> QED
  BY <1>1, <1>2, <1>3 DEF Conversing

LEMMA ConversingClients ==
    ASSUME NEW c \in Clients, HttpTypes, Conversing, ClientStep(c)
    PROVE  HttpTypes' /\ Conversing'
<1>1. CASE Connect(c)
  <2>1. /\ net[c].at = "away" /\ UNCHANGED server /\ backlog' = Append(backlog, c)
        /\ \A d \in Clients : d # c => net'[d] = net[d]
    BY <1>1 DEF Connect, HttpTypes
  <2>2. net' \in [Clients -> NetState]
    <3>1. PICK want \in Requests : \E n \in 0..Len(want) :
             net' = [net EXCEPT ![c].at = "queued", ![c].want = want, ![c].sent = n]
      BY <1>1 DEF Connect
    <3>2. PICK n \in 0..Len(want) :
             net' = [net EXCEPT ![c].at = "queued", ![c].want = want, ![c].sent = n]
      BY <3>1
    <3> want \in Seq(STRING) /\ n \in Nat
      BY ServerAssumption
    <3> DEFINE q == [[net[c] EXCEPT !.at = "queued", !.want = want] EXCEPT !.sent = n]
    <3>3. q \in NetState
      BY DEF NetState, HttpTypes
    <3>4. net' = [net EXCEPT ![c] = q]
      BY <3>2 DEF HttpTypes, NetState
    <3> QED
      BY <3>3, <3>4 DEF HttpTypes
  <2>3. HttpTypes'
    BY <2>1, <2>2 DEF HttpTypes
  <2>4. Talking => server.client # c /\ server.client \in Clients
    BY <2>1 DEF Conversing
  <2>5. Talking => net'[server.client] = net[server.client]
    BY <2>1, <2>4
  <2> QED
    BY <2>1, <2>3, <2>5, Undisturbed DEF Conversing
<1>2. CASE SendMore(c)
  <2>1. PICK n \in (net[c].sent + 1)..Len(net[c].want) : net' = [net EXCEPT ![c].sent = n]
    BY <1>2 DEF SendMore
  <2>2. n \in Nat
    BY DEF HttpTypes, NetState
  <2>3. HttpTypes' /\ UNCHANGED server
    BY <1>2, <2>1, <2>2, ZenonT(60) DEF SendMore, HttpTypes, NetState
  <2>4. Talking => /\ net'[server.client].at = net[server.client].at
                   /\ net'[server.client].want = net[server.client].want
                   /\ net'[server.client].gone = net[server.client].gone
    BY <2>1 DEF Conversing, HttpTypes, NetState
  <2> QED
    BY <2>3, <2>4, Undisturbed DEF Conversing
<1>3. CASE Read(c)
  <2>1. HttpTypes' /\ UNCHANGED net
    BY <1>3 DEF Read, HttpTypes, ServerState
  <2>2. /\ server'.at = server.at /\ server'.client = server.client
        /\ server'.heard = server.heard /\ server'.answer = server.answer
        /\ server'.left = server.left /\ server'.sent = server.sent
    BY <1>3 DEF Read, HttpTypes, ServerState
  <2> QED
    BY <2>1, <2>2, Undisturbed DEF Conversing
<1>4. CASE HangUp(c)
  <2>1. HttpTypes' /\ UNCHANGED server
    BY <1>4 DEF HangUp, HttpTypes, NetState
  <2>2. Talking => /\ net'[server.client].at = net[server.client].at
                   /\ net'[server.client].want = net[server.client].want
                   /\ net[server.client].gone => net'[server.client].gone
    BY <1>4 DEF HangUp, Conversing, HttpTypes, NetState
  <2> QED
    BY <2>1, <2>2, Undisturbed DEF Conversing
<1> QED
  BY <1>1, <1>2, <1>3, <1>4 DEF ClientStep

LEMMA ConversingStart ==
    ASSUME NEW started \in BOOLEAN, HttpTypes, Conversing, HttpdStart(started)
    PROVE  HttpTypes' /\ Conversing'
<1>1. UNCHANGED <<net, backlog>> /\ server' \in ServerState /\ server'.at \in {"none", "check"}
      /\ server'.sent = 0
  BY IdleState DEF HttpdStart
<1> QED
  BY <1>1 DEF HttpTypes, Conversing, Talking

\* HttpdStop and HttpdExit.
LEMMA ConversingReset ==
    ASSUME NEW those, HttpTypes, Conversing, Reset(those), backlog' = <<>>,
           \/ server' = Idle
           \/ server' = server /\ \A c \in those : net[c].at # "accepted"
    PROVE  HttpTypes' /\ Conversing'
<1>1. /\ net' \in [Clients -> NetState]
      /\ \A c \in Clients : c \notin those => net'[c] = net[c]
  BY AwayState DEF Reset, HttpTypes
<1>2. HttpTypes'
  BY <1>1, IdleState DEF HttpTypes
<1>3. CASE server' = Idle
  <2>1. server'.at = "none" /\ server'.sent = 0
    BY <1>3, IdleState
  <2> QED
    BY <1>2, <2>1 DEF Conversing, Talking
<1>4. CASE server' = server /\ \A c \in those : net[c].at # "accepted"
  <2>1. Talking => net'[server.client] = net[server.client]
    BY <1>1, <1>4 DEF Conversing
  <2> QED
    BY <1>2, <1>4, <2>1, Undisturbed DEF Conversing
<1> QED
  BY <1>2, <1>3, <1>4

LEMMA ConversingServer ==
    ASSUME HttpTypes, Conversing, ServerStep
    PROVE  HttpTypes' /\ Conversing'
<1> USE DEF HttpTypes
<1>1. CASE Check
  BY <1>1, IdleState DEF Check, Conversing, Talking, ServerState, ServerSteps
<1>2. CASE Accept
  <2>1. Head(backlog) \in Clients /\ Tail(backlog) \in Seq(Clients)
    BY <1>2 DEF Accept
  <2>2. HttpTypes'
    BY <1>2, <2>1, ZenonT(60) DEF Accept, ServerState, ServerSteps, NetState
  <2>3. /\ server'.at = "recv" /\ server'.client = Head(backlog) /\ server'.sent = 0
        /\ net'[Head(backlog)].at = "accepted"
    BY <1>2, <2>1 DEF Accept, ServerState, NetState, Conversing, Talking
  <2> QED
    BY <2>1, <2>2, <2>3 DEF Conversing, Talking, Dialogue
<1>3. CASE AcceptFails
  BY <1>3, IdleState DEF AcceptFails, Conversing, Talking, ServerState, ServerSteps
<1>4. CASE Sleep
  BY <1>4 DEF Sleep, Conversing, Talking, ServerState, ServerSteps
<1>5. CASE Recv
  <2>1. server.at = "recv" /\ UNCHANGED <<net, backlog>> /\ server.client \in Clients /\ Talking
    BY <1>5 DEF Recv, Conversing, Talking
  <2>2. CASE server' = [server EXCEPT !.at = "answer", !.heard = net[server.client].sent]
    <3>1. net[server.client].sent \in Nat
      BY <2>1 DEF NetState
    <3>2. HttpTypes'
      BY <2>1, <2>2, <3>1 DEF ServerState, ServerSteps
    <3>3. server'.at = "answer" /\ server'.client = server.client /\ server'.sent = 0
      BY <2>1, <2>2 DEF ServerState, Conversing, Dialogue
    <3> QED
      BY <2>1, <3>2, <3>3 DEF Conversing, Talking, Dialogue
  <2>3. CASE net[server.client].gone /\ server' = [server EXCEPT !.at = "close"]
    <3>1. HttpTypes'
      BY <2>1, <2>3 DEF ServerState, ServerSteps
    <3>2. server'.at = "close" /\ server'.client = server.client
      BY <2>1, <2>3 DEF ServerState
    <3> QED
      BY <2>1, <2>3, <3>1, <3>2 DEF Conversing, Talking, Dialogue
  <2> QED
    BY <1>5, <2>2, <2>3 DEF Recv
<1>6. CASE Answer
  <2>1. PICK a \in Served(Piece) :
           server' = [server EXCEPT !.at = "send", !.answer = a, !.left = Size(a)]
    BY <1>6 DEF Answer, Piece
  <2>2. /\ server.at = "answer" /\ UNCHANGED <<net, backlog>>
        /\ server.client \in Clients /\ net[server.client].at = "accepted" /\ server.sent = 0
    BY <1>6 DEF Answer, Conversing, Talking, Dialogue
  <2>3. a \in Answers /\ Size(a) \in Nat
    BY ServedIsAnswer, SizeIsNat
  <2> DEFINE h == [server EXCEPT !.at = "send", !.answer = a]
  <2>4. h \in ServerState /\ h.sent = 0 /\ h.client = server.client /\ h.heard = server.heard
        /\ h.at = "send" /\ h.answer = a
    BY <2>2, <2>3 DEF ServerState, ServerSteps
  <2>5. server' = [h EXCEPT !.left = Size(a)]
    BY <2>1
  <2> HIDE DEF h
  <2>6. /\ server' \in ServerState /\ server'.sent = 0 /\ server'.client = server.client
        /\ server'.heard = server.heard /\ server'.at = "send" /\ server'.answer = a
        /\ server'.left = Size(a)
    BY <2>3, <2>4, <2>5 DEF ServerState
  <2>7. Piece' = Piece
    BY <2>2, <2>6 DEF Piece
  <2>8. Dialogue(server', net[server.client].gone, Piece)
    BY <2>1, <2>3, <2>6 DEF Dialogue
  <2> QED
    BY <2>2, <2>6, <2>7, <2>8 DEF Conversing, Talking
<1>7. CASE Send
  <2>1. /\ server.at = "send" /\ UNCHANGED <<net, backlog>>
        /\ server.client \in Clients /\ net[server.client].at = "accepted"
        /\ server.sent + server.left = Size(server.answer) /\ server.answer \in Served(Piece)
        /\ server.left \in Nat /\ server.sent \in Nat /\ server.unread \in Nat
    BY <1>7 DEF Send, Conversing, Talking, Dialogue, ServerState
  <2>2. CASE net[server.client].gone /\ server' = [server EXCEPT !.at = "close"]
    <3>1. /\ HttpTypes' /\ server'.at = "close" /\ server'.client = server.client
      BY <2>1, <2>2 DEF ServerState, ServerSteps
    <3> QED
      BY <2>1, <2>2, <3>1 DEF Conversing, Talking, Dialogue
  <2>3. ASSUME NEW n \in 1..server.left, NEW at \in {"close", "send"}, NEW unread \in Nat,
               at = "close" <=> server.left - n = 0,
               server' = [server EXCEPT !.left = server.left - n, !.sent = server.sent + n,
                            !.unread = unread, !.at = at]
        PROVE  HttpTypes' /\ Conversing'
    <3>1. server.left - n \in Nat /\ server.sent + n \in Nat
      BY <2>1
    <3> DEFINE h == [server EXCEPT !.left = server.left - n, !.sent = server.sent + n]
    <3>2. /\ h \in ServerState /\ h.left = server.left - n /\ h.sent = server.sent + n
          /\ h.client = server.client /\ h.heard = server.heard /\ h.answer = server.answer
      BY <3>1 DEF ServerState
    <3>3. server' = [h EXCEPT !.unread = unread, !.at = at]
      BY <2>3
    <3> HIDE DEF h
    <3>4. /\ server' \in ServerState /\ server'.at = at
          /\ server'.left = server.left - n /\ server'.sent = server.sent + n
          /\ server'.client = server.client /\ server'.heard = server.heard
          /\ server'.answer = server.answer
      BY <3>2, <3>3 DEF ServerState, ServerSteps
    <3>5. Piece' = Piece
      BY <2>1, <3>4 DEF Piece
    <3>6. (server.sent + n) + (server.left - n) = Size(server.answer)
      BY <2>1
    <3>7. Dialogue(server', net[server.client].gone, Piece)
      BY <2>1, <2>3, <3>4, <3>6 DEF Dialogue
    <3> QED
      BY <2>1, <3>4, <3>5, <3>7 DEF Conversing, Talking
  <2>4. ASSUME NEW n \in 1..server.left, NEW unread \in Nat,
               server' = [server EXCEPT !.left = server.left - n, !.sent = server.sent + n,
                            !.unread = unread,
                            !.at = IF server.left - n = 0 THEN "close" ELSE "send"]
        PROVE  HttpTypes' /\ Conversing'
    BY <2>3, <2>4
  <2>5. \A n \in 1..server.left : server.unread + n \in Nat
    BY <2>1
  <2> QED
    BY <1>7, <2>2, <2>4, <2>5 DEF Send, LeftAfter
<1>8. CASE Close
  <2>1. server.client \in Clients /\ server' = [Idle EXCEPT !.at = "check"]
    BY <1>8 DEF Close, Conversing, Talking
  <2>2. HttpTypes'
    BY <1>8, <2>1, IdleState, AwayState DEF Close
  <2> QED
    BY <2>1, <2>2, IdleState DEF Conversing, Talking
<1> QED
  BY <1>1, <1>2, <1>3, <1>4, <1>5, <1>6, <1>7, <1>8 DEF ServerStep

-----------------------------------------------------------------------------
(* The two together                                                        *)

Inv == Life /\ HttpTypes /\ Conversing /\ Serving

LEMMA InvInit == Init => Inv
<1> SUFFICES ASSUME Init PROVE Inv
  OBVIOUS
<1>1. server = Idle /\ backlog = <<>> /\ net = [c \in Clients |-> Away]
  BY DEF Init, HttpInit
<1>2. HttpTypes
  BY <1>1, IdleState, AwayState DEF HttpTypes
<1>3. Conversing /\ Serving
  BY <1>1, IdleState DEF Conversing, Talking, Serving
<1> QED
  BY <1>2, <1>3, LifeInit DEF Init, Inv

LEMMA InvMain == Inv /\ Main => Inv'
<1> SUFFICES ASSUME Inv, Main PROVE Inv'
  OBVIOUS
<1>1. CASE (MainStep \/ (Update /\ signalled)) /\ UNCHANGED httpVars
  <2>1. Life'
    BY <1>1, LifeAcquire, LifeCollector, LifeCreateSource, LifeStartThread, LifeDestroy,
       LifeUnwind, LifeUpdate DEF MainStep, Inv
  <2>2. HttpTypes' /\ Conversing'
    BY <1>1 DEF Inv, HttpTypes, Conversing, Talking, Piece, httpVars
  <2>3. Serving'
    <3>1. CASE main.at \notin {"loop", "stop", "stopped"}
      BY <1>1, <3>1 DEF Inv, Serving, httpVars
    <3>2. CASE main.at \in {"loop", "stop", "stopped"}
      <4>1. Update /\ signalled
        BY <1>1, <3>2 DEF MainStep, Acquire, CreateCollector, CreateSource, StartThread,
           Destroy, Unwind
      <4>2. main'.at = "stop"
        BY <4>1, Going DEF Update, Inv, Life, Steps
      <4> QED
        BY <4>2 DEF Serving
    <3> QED
      BY <3>1, <3>2
  <2> QED
    BY <2>1, <2>2, <2>3 DEF Inv
<1>2. CASE Httpd
  <2>1. PICK started \in BOOLEAN : StartHttp(started) /\ HttpdStart(started)
    BY <1>2 DEF Httpd
  <2>2. Life' /\ HttpTypes' /\ Conversing'
    BY <2>1, LifeStartHttp, ConversingStart DEF Inv
  <2>3. Serving'
    <3>1. CASE started
      BY <2>1, <3>1, Going DEF StartHttp, Serving, Inv, Life, Steps
    <3>2. CASE ~started
      BY <2>1, <3>2, IdleState DEF HttpdStart, Serving
    <3> QED
      BY <3>1, <3>2
  <2> QED
    BY <2>2, <2>3 DEF Inv
<1>3. CASE StopAll
  <2>1. Life'
    BY <1>3, LifeStop DEF StopAll, Inv
  <2>2. HttpTypes' /\ Conversing'
    BY <1>3, ConversingReset DEF StopAll, HttpdStop, Inv
  <2>3. Serving'
    BY <1>3, Going DEF StopAll, Stop, Serving, Inv, Life, Steps
  <2> QED
    BY <2>1, <2>2, <2>3 DEF Inv
<1>4. CASE Ending
  <2>1. Life'
    BY <1>4, LifeExit, LifeReturn, LifeUpdate DEF Ending, Inv
  <2>2. HttpTypes' /\ Conversing'
    BY <1>4, ConversingReset DEF Ending, HttpdExit, Inv
  <2>3. Serving'
    BY <1>4, IdleState DEF Ending, HttpdExit, Serving
  <2> QED
    BY <2>1, <2>2, <2>3 DEF Inv
<1> QED
  BY <1>1, <1>2, <1>3, <1>4 DEF Main

LEMMA InvThreads == Inv /\ Threads => Inv'
<1> SUFFICES ASSUME Inv, Threads PROVE Inv'
  OBVIOUS
<1>1. HttpTypes' /\ Conversing' /\ Serving'
  <2>1. UNCHANGED <<httpVars, main>>
    BY DEF Threads, ThreadStep, ThreadBegins, Collect, Signal
  <2> QED
    BY <2>1 DEF Inv, HttpTypes, Conversing, Talking, Piece, httpVars, Serving
<1>2. Life'
  <2>1. CASE ThreadStep
    BY <2>1, LifeThreadStep DEF Inv
  <2>2. CASE Signal
    BY <2>2, LifeThread DEF Signal, Inv, Life, StartTypes, Unharmed
  <2> QED
    BY <2>1, <2>2 DEF Threads
<1> QED
  BY <1>1, <1>2 DEF Inv

LEMMA InvServe == Inv /\ Serve => Inv'
<1> SUFFICES ASSUME Inv, Serve PROVE Inv'
  OBVIOUS
<1>1. HttpTypes' /\ Conversing'
  BY ConversingServer DEF Inv, Serve
<1>2. server.at # "none" /\ main.at \in {"loop", "stop", "stopped"} /\ UNCHANGED main
  BY DEF Serve, ServerStep, Check, Accept, AcceptFails, Sleep, Recv, Answer, Send, Close,
     Inv, Serving
<1>3. Serving'
  BY <1>2 DEF Serving
<1>4. ServerNeeds \subseteq heap
  <2>1. \A i \in Plots : Needs(i) \ {The("os")} \subseteq heap
    BY <1>2 DEF Needs, Inv, Life, Allocated, Complete, KindsOf
  <2>2. The("config") \in heap
    BY <1>2, ResourceNames DEF Inv, Life, Allocated
  <2> QED
    BY <2>1, <2>2 DEF ServerNeeds
<1>5. Life'
  BY <1>4, LifeThread DEF Serve, Inv, Life, StartTypes, Unharmed
<1> QED
  BY <1>1, <1>3, <1>5 DEF Inv

LEMMA InvNetwork == Inv /\ Network => Inv'
<1> SUFFICES ASSUME Inv, NEW c \in Clients, ClientStep(c), UNCHANGED startVars PROVE Inv'
  BY DEF Network
<1>1. HttpTypes' /\ Conversing'
  BY ConversingClients DEF Inv
<1>2. Serving'
  <2>1. server'.at = server.at
    BY DEF ClientStep, Connect, SendMore, Read, HangUp, Inv, HttpTypes, ServerState
  <2> QED
    BY <2>1 DEF Inv, Serving, startVars
<1>3. Life'
  BY LifeThread DEF Inv, Life, StartTypes, Unharmed, startVars
<1> QED
  BY <1>1, <1>2, <1>3 DEF Inv

LEMMA InvNext == Inv /\ [Next]_vars => Inv'
<1>1. Inv /\ UNCHANGED vars => Inv'
  <2> SUFFICES ASSUME Inv, UNCHANGED vars PROVE Inv'
    OBVIOUS
  <2>1. Life'
    BY LifeThread DEF vars, startVars, Inv, Life, StartTypes, Unharmed
  <2> QED
    BY <2>1 DEF vars, startVars, httpVars, Inv, HttpTypes, Conversing, Talking, Piece, Serving
<1> QED
  BY <1>1, InvMain, InvThreads, InvServe, InvNetwork DEF Next

LEMMA InvAlways == Spec => []Inv
BY InvInit, InvNext, PTL DEF Spec

\* For any number of plots, and for any failure or signal at any moment, what
\* is freed was allocated, and what a thread or the server uses has not been
\* freed, but for the two cases that the property names.
THEOREM MemoryHolds == Spec => []MemoryOfThreads
<1>1. Inv => MemoryOfThreads
  <2> SUFFICES ASSUME Inv PROVE MemoryOfThreads
    OBVIOUS
  <2>1. ASSUME main.at = "loop", NEW i \in Plots
        PROVE  thread[i] # "none" /\ Needs(i) \subseteq heap
    BY <2>1, ResourceNames DEF Inv, Life, Started, Allocated, Complete, KindsOf, Needs
  <2>2. main.at = "loop" => \A k \in 1..Len(Resources) : The(Resources[k]) \in heap
    BY ResourceNames DEF Inv, Life, Allocated
  <2>3. main.at = "returned" => heap \subseteq Kinds \X Plots
    BY DEF Inv, Life, Bounded
  <2>4. misused = {} /\ (\/ touched = {} \/ main.failed
                         \/ touched = {The("os")} /\ main.at \in {"stopped", "exited"})
    BY DEF Inv, Life, Unharmed
  <2> QED
    BY <2>1, <2>2, <2>3, <2>4 DEF MemoryOfThreads, Kinds
<1> QED
  BY <1>1, InvAlways, PTL

\* For any number of clients, requests and pieces of them, and however little
\* the kernel takes at a time, a client that is still there when its connection
\* is closed has been sent one whole answer, and the right one if its request
\* had arrived when the server received.
THEOREM AnswersAreWhole == Spec => []AnswerWhole
<1>1. Inv => AnswerWhole
  <2> SUFFICES ASSUME Inv, server.at = "close", ~net[server.client].gone
               PROVE  /\ server.sent = Size(server.answer)
                      /\ LET want == net[server.client].want
                         IN server.heard = Len(want) => server.answer \in Served(want)
    BY DEF AnswerWhole
  <2>1. /\ server.client \in Clients
        /\ server.sent = Size(server.answer) /\ server.answer \in Served(Piece)
    BY DEF Inv, Conversing, Talking, Dialogue
  <2>2. net[server.client].want \in Seq(STRING)
    BY <2>1 DEF Inv, HttpTypes, NetState
  <2>3. ASSUME NEW want \in Seq(STRING) PROVE SubSeq(want, 1, Len(want)) = want
    OBVIOUS
  <2> QED
    BY <2>1, <2>2, <2>3 DEF Piece
<1> QED
  BY <1>1, InvAlways, PTL

=============================================================================
