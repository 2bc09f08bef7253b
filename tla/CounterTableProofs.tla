------------------------- MODULE CounterTableProofs -------------------------
(***************************************************************************)
(* Proofs about CounterTable, for every set of names and number of         *)
(* updates, and for both builds where a property claims both.              *)
(***************************************************************************)
EXTENDS CounterTable, TLAPS

(* The part of the code each thread is in when it holds counters_lock. *)
UpdHolds == \/ upd \in {"link", "post"}
            \/ upd \in {"load", "store"} /\ ~LOCK_OPTIMIZE
FlHolds == fl \in {"clear", "post"}

(* The semaphore is a mutex. *)
LockOK ==
  /\ ~(UpdHolds /\ FlHolds)
  /\ counters_lock = IF UpdHolds \/ FlHolds THEN 0 ELSE 1
  /\ upd = "wait" => ~LOCK_OPTIMIZE

(* What the program counters say about the arguments and cursors. *)
PcOK ==
  /\ upd # "idle" => calls > 0
  /\ fl \in {"gmetric", "wait", "clear", "post"} => el # 0
  /\ tmp # 0 => el # 0

(* The lookup made before the lock is still true when it is used. *)
LookupOK ==
  /\ upd \in {"add_wait", "link"} => key \notin InTable
  /\ upd \in {"wait", "load", "store"} => key \in InTable
  /\ \A k \in Key : k \notin InTable => value[k] = {}

(* What was loaded misses nothing but what has been cleared since. *)
LoadedOK == upd = "store" => value[key] \subseteq sum \union cleared

IInv ==
  /\ TypeOK /\ LockOK /\ PcOK /\ KeysUnique /\ LookupOK /\ LoadedOK
  /\ NoUpdateLost

------------------------------------------------------------------------------
(* Sending a counter's value to a back end counts each of its updates once.  *)
LEMMA ReportStep ==
  ASSUME TypeOK, NEW b \in Backend, Report(b)
  PROVE  /\ reported' \in [Backend -> [Update -> Nat]]
         /\ \A c \in Backend, u \in Update :
              reported'[c][u] = IF c = b /\ u \in value[counters[el]]
                                THEN reported[c][u] + 1
                                ELSE reported[c][u]
<1>1. reported \in [Backend -> [Update -> Nat]] BY DEF TypeOK
<1> DEFINE row == [u \in Update |-> IF u \in value[counters[el]]
                                    THEN reported[b][u] + 1
                                    ELSE reported[b][u]]
<1>2. row \in [Update -> Nat] BY <1>1
<1>3. reported' = [reported EXCEPT ![b] = row] BY DEF Report
<1>4. \A u \in Update : row[u] = IF u \in value[counters[el]]
                                 THEN reported[b][u] + 1
                                 ELSE reported[b][u]
  OBVIOUS
<1> HIDE DEF row
<1>5. \A c \in Backend : reported'[c] = IF c = b THEN row ELSE reported[c]
  BY <1>1, <1>3
<1>6. reported' \in [Backend -> [Update -> Nat]] BY <1>1, <1>2, <1>3
<1> QED BY <1>4, <1>5, <1>6

(* Every step keeps the variables in their types and the cursors in the list. *)
LEMMA TypeStep ==
  ASSUME TypeOK, LockOK, PcOK, [Next]_vars
  PROVE  TypeOK' /\ PcOK'
<1>a. /\ upd # "idle" => calls \in Update
      /\ calls \in 0 .. MaxUpdates /\ MaxUpdates \in Nat
      /\ Len(counters) \in Nat
  BY CounterAssumption DEF TypeOK, PcOK, Update
<1> USE DEF TypeOK, LockOK, PcOK, UpdHolds, FlHolds, tableVars, updVars, flVars
<1>1. ASSUME NEW k \in Key, FindCounter(k) PROVE TypeOK' /\ PcOK'
  <2>1. calls' \in 0 .. MaxUpdates /\ calls' > 0 BY <1>1, <1>a DEF FindCounter
  <2>2. upd' \in {"load", "wait", "add_wait"} BY <1>1, Zenon DEF FindCounter
  <2>3. /\ key' \in Key
        /\ UNCHANGED <<counters, value, counters_lock, sum, applied, fl, el, tmp,
                       enable_gmetric, cleared, reported, atStart, visited>>
    BY <1>1 DEF FindCounter
  <2> QED BY <2>1, <2>2, <2>3
<1>2. CASE WaitCountersLock BY <1>2 DEF WaitCountersLock
<1>3. CASE LoadValue BY <1>3 DEF LoadValue
<1>4. CASE StoreValue
  <2>1. calls \in Update BY <1>4, <1>a DEF StoreValue
  <2>2. value' \in [Key -> SUBSET Update] /\ applied' \in SUBSET Update
    BY <1>4, <2>1 DEF StoreValue
  <2>3. upd' \in {"idle", "post"} BY <1>4, Zenon DEF StoreValue
  <2>4. /\ upd = "store"
        /\ UNCHANGED <<counters, counters_lock, key, sum, calls, fl, el, tmp,
                       enable_gmetric, cleared, reported, atStart, visited>>
    BY <1>4 DEF StoreValue
  <2> QED BY <2>2, <2>3, <2>4
<1>5. CASE LinkCounter
  <2>1. calls \in Update BY <1>5, <1>a DEF LinkCounter
  <2>2. value' \in [Key -> SUBSET Update] /\ applied' \in SUBSET Update
    BY <1>5, <2>1 DEF LinkCounter
  <2>3. counters' \in Seq(Key) /\ Len(counters') = Len(counters) + 1
    BY <1>5 DEF LinkCounter
  <2>4. /\ upd = "link" /\ upd' = "post"
        /\ UNCHANGED <<counters_lock, key, sum, calls, fl, el, tmp,
                       enable_gmetric, cleared, reported, atStart, visited>>
    BY <1>5 DEF LinkCounter
  <2>5. el' \in 0 .. Len(counters') /\ tmp' \in 0 .. Len(counters')
    BY <1>a, <2>3, <2>4
  <2> QED BY <2>2, <2>3, <2>4, <2>5
<1>6. CASE RemoveCountersLock BY <1>6 DEF RemoveCountersLock
<1>7. CASE StartPass
  <2>0. /\ el' = NextOf(0) /\ tmp' = IF counters = <<>> THEN 0 ELSE NextOf(1)
    BY <1>7 DEF StartPass
  <2>1. /\ el' \in 0 .. Len(counters) /\ tmp' \in 0 .. Len(counters)
        /\ tmp' # 0 => el' # 0
        /\ UNCHANGED <<counters, value, counters_lock, upd, key, sum, calls,
                       applied, cleared, reported>>
        /\ fl' = "graphite" /\ visited' = <<>>
    BY <1>7, <1>a, <2>0 DEF StartPass, NextOf
  <2>2. atStart' \in SUBSET Key BY <1>7 DEF StartPass, InTable
  <2>3. enable_gmetric' \in BOOLEAN BY <1>7, Zenon DEF StartPass
  <2> QED BY <2>1, <2>2, <2>3
<1>8. CASE ReportGraphite
  <2>1. /\ fl' = "gmetric" /\ el # 0
        /\ UNCHANGED <<counters, value, counters_lock, upd, key, sum, calls,
                       applied, el, tmp, enable_gmetric, cleared, atStart,
                       visited>>
    BY <1>8 DEF ReportGraphite
  <2>2. reported' \in [Backend -> [Update -> Nat]]
    BY <1>8, ReportStep DEF ReportGraphite, Backend
  <2> QED BY <2>1, <2>2
<1>9. CASE ReportGmetric
  <2>1. /\ fl = "gmetric" /\ fl' = "wait"
        /\ UNCHANGED <<counters, value, counters_lock, upd, key, sum, calls,
                       applied, el, tmp, enable_gmetric, cleared, atStart,
                       visited>>
    BY <1>9 DEF ReportGmetric
  <2>2. reported' \in [Backend -> [Update -> Nat]]
    BY <1>9, ReportStep DEF ReportGmetric, Backend
  <2> QED BY <2>1, <2>2
<1>10. CASE WaitToClear BY <1>10 DEF WaitToClear
<1>11. CASE ClearCounter
  <2>1. el \in 1 .. Len(counters) /\ counters[el] \in Key
    BY <1>11 DEF ClearCounter
  <2>2. value' \in [Key -> SUBSET Update] /\ cleared' \in SUBSET Update
    BY <1>11, <2>1 DEF ClearCounter
  <2>3. /\ fl = "clear" /\ fl' = "post"
        /\ UNCHANGED <<counters, counters_lock, upd, key, sum, calls, applied,
                       el, tmp, enable_gmetric, reported, atStart, visited>>
    BY <1>11 DEF ClearCounter
  <2> QED BY <2>2, <2>3
<1>12. CASE NextCounter
  <2>1. /\ el' = tmp /\ tmp' = (IF tmp = 0 THEN 0 ELSE NextOf(tmp))
        /\ fl = "post" /\ fl' = "graphite" /\ counters_lock' = counters_lock + 1
        /\ UNCHANGED <<counters, value, upd, key, sum, calls, applied,
                       enable_gmetric, cleared, reported, atStart>>
    BY <1>12 DEF NextCounter
  <2>2. el' \in 0 .. Len(counters) /\ tmp' \in 0 .. Len(counters)
    BY <1>a, <2>1 DEF NextOf
  <2>3. counters_lock' \in {0, 1} BY <2>1
  <2>4. visited' \in Seq(Key)
    <3>1. el \in 1 .. Len(counters) BY <2>1
    <3>2. counters[el] \in Key BY <3>1
    <3> QED BY <1>12, <3>2 DEF NextCounter
  <2>5. tmp' # 0 => el' # 0 BY <2>1
  <2> QED BY <2>1, <2>2, <2>3, <2>4, <2>5
<1>13. CASE EndPass BY <1>13 DEF EndPass
<1>14. CASE UNCHANGED vars BY <1>14 DEF vars
<1> HIDE DEF TypeOK, PcOK
<1> QED
  BY <1>1, <1>2, <1>3, <1>4, <1>5, <1>6, <1>7, <1>8, <1>9, <1>10, <1>11, <1>12,
     <1>13, <1>14 DEF Next, Updating, Flushing

(* Every step keeps counters_lock a mutex. *)
LEMMA LockStep == ASSUME TypeOK, LockOK, [Next]_vars PROVE LockOK'
<1> USE CounterAssumption
    DEF LockOK, UpdHolds, FlHolds, tableVars, updVars, flVars
<1>1. ASSUME NEW k \in Key, FindCounter(k) PROVE LockOK'
  BY <1>1 DEF FindCounter
<1>2. CASE WaitCountersLock BY <1>2 DEF WaitCountersLock
<1>3. CASE LoadValue BY <1>3 DEF LoadValue
<1>4. CASE StoreValue BY <1>4 DEF StoreValue
<1>5. CASE LinkCounter BY <1>5 DEF LinkCounter
<1>6. CASE RemoveCountersLock BY <1>6 DEF RemoveCountersLock
<1>7. CASE StartPass BY <1>7 DEF StartPass
<1>8. CASE ReportGraphite BY <1>8 DEF ReportGraphite
<1>9. CASE ReportGmetric BY <1>9 DEF ReportGmetric
<1>10. CASE WaitToClear BY <1>10 DEF WaitToClear
<1>11. CASE ClearCounter BY <1>11 DEF ClearCounter
<1>12. CASE NextCounter BY <1>12 DEF NextCounter
<1>13. CASE EndPass BY <1>13 DEF EndPass
<1>14. CASE UNCHANGED vars BY <1>14 DEF vars
<1> QED
  BY <1>1, <1>2, <1>3, <1>4, <1>5, <1>6, <1>7, <1>8, <1>9, <1>10, <1>11, <1>12,
     <1>13, <1>14 DEF Next, Updating, Flushing

(* Every step keeps the keys unique and the lookup of the updater true. *)
LEMMA KeysStep ==
  ASSUME TypeOK, PcOK, KeysUnique, LookupOK, [Next]_vars
  PROVE  KeysUnique' /\ LookupOK'
<1> USE DEF KeysUnique, LookupOK, InTable, tableVars, updVars, flVars
<1>1. ASSUME NEW k \in Key, FindCounter(k) PROVE KeysUnique' /\ LookupOK'
  BY <1>1 DEF FindCounter
<1>2. CASE WaitCountersLock BY <1>2 DEF WaitCountersLock
<1>3. CASE LoadValue BY <1>3 DEF LoadValue
<1>4. CASE StoreValue BY <1>4 DEF StoreValue, TypeOK
<1>5. CASE LinkCounter
  <2>1. /\ counters' = Append(counters, key) /\ upd = "link" /\ upd' = "post"
        /\ key' = key /\ key \in Key /\ counters \in Seq(Key)
        /\ value \in [Key -> SUBSET Update]
        /\ value' = [value EXCEPT ![key] = {calls}]
    BY <1>5 DEF LinkCounter, TypeOK
  <2>2. /\ DOMAIN counters' = 1 .. Len(counters) + 1
        /\ DOMAIN counters = 1 .. Len(counters)
        /\ \A i \in DOMAIN counters : counters'[i] = counters[i]
        /\ counters'[Len(counters) + 1] = key
        /\ \A i \in DOMAIN counters' :
              i \in DOMAIN counters \/ i = Len(counters) + 1
    BY <2>1
  <2>3. \A i \in DOMAIN counters : counters[i] # key BY <2>1
  <2>4. KeysUnique' BY <2>2, <2>3
  <2>5. InTable' = InTable \union {key} BY <2>2
  <2>6. LookupOK' BY <2>1, <2>5
  <2> QED BY <2>4, <2>6
<1>6. CASE RemoveCountersLock BY <1>6 DEF RemoveCountersLock
<1>7. CASE StartPass BY <1>7 DEF StartPass
<1>8. CASE ReportGraphite BY <1>8 DEF ReportGraphite
<1>9. CASE ReportGmetric BY <1>9 DEF ReportGmetric
<1>10. CASE WaitToClear BY <1>10 DEF WaitToClear
<1>11. CASE ClearCounter BY <1>11 DEF ClearCounter, TypeOK, PcOK
<1>12. CASE NextCounter BY <1>12 DEF NextCounter
<1>13. CASE EndPass BY <1>13 DEF EndPass
<1>14. CASE UNCHANGED vars BY <1>14 DEF vars
<1> QED
  BY <1>1, <1>2, <1>3, <1>4, <1>5, <1>6, <1>7, <1>8, <1>9, <1>10, <1>11, <1>12,
     <1>13, <1>14 DEF Next, Updating, Flushing

(* No step forgets an update: the store puts back all it loaded, and a       *)
(* clearing records what it removes.                                         *)
LEMMA UpdatesStep ==
  ASSUME TypeOK, PcOK, LookupOK, LoadedOK, NoUpdateLost, [Next]_vars
  PROVE  LoadedOK' /\ NoUpdateLost'
<1> USE DEF LoadedOK, NoUpdateLost, tableVars, updVars, flVars
<1>1. ASSUME NEW k \in Key, FindCounter(k) PROVE LoadedOK' /\ NoUpdateLost'
  BY <1>1 DEF FindCounter
<1>2. CASE WaitCountersLock BY <1>2 DEF WaitCountersLock
<1>3. CASE LoadValue BY <1>3 DEF LoadValue
<1>4. CASE StoreValue BY <1>4 DEF StoreValue, TypeOK
<1>5. CASE LinkCounter BY <1>5 DEF LinkCounter, TypeOK, LookupOK
<1>6. CASE RemoveCountersLock BY <1>6 DEF RemoveCountersLock
<1>7. CASE StartPass BY <1>7 DEF StartPass
<1>8. CASE ReportGraphite BY <1>8 DEF ReportGraphite
<1>9. CASE ReportGmetric BY <1>9 DEF ReportGmetric
<1>10. CASE WaitToClear BY <1>10 DEF WaitToClear
<1>11. CASE ClearCounter
  <2>1. counters[el] \in Key BY <1>11 DEF ClearCounter, TypeOK, PcOK
  <2> QED BY <1>11, <2>1 DEF ClearCounter, TypeOK
<1>12. CASE NextCounter BY <1>12 DEF NextCounter
<1>13. CASE EndPass BY <1>13 DEF EndPass
<1>14. CASE UNCHANGED vars BY <1>14 DEF vars
<1> QED
  BY <1>1, <1>2, <1>3, <1>4, <1>5, <1>6, <1>7, <1>8, <1>9, <1>10, <1>11, <1>12,
     <1>13, <1>14 DEF Next, Updating, Flushing

(* The initial state satisfies the inductive invariant. *)
LEMMA InitIInv == Init => IInv
<1> SUFFICES ASSUME Init PROVE IInv
  OBVIOUS
<1>1. TypeOK
  <2>1. enable_gmetric \in BOOLEAN
    BY CounterAssumption, Zenon DEF Init
  <2>2. reported \in [Backend -> [Update -> Nat]] BY DEF Init
  <2>3. counters \in Seq(Key) /\ visited \in Seq(Key) /\ Len(counters) = 0
    BY DEF Init
  <2>4. /\ value \in [Key -> SUBSET Update] /\ counters_lock \in {0, 1}
        /\ upd = "idle" /\ key \in Key /\ sum = {} /\ calls = 0
        /\ fl = "sleep" /\ el = 0 /\ tmp = 0
        /\ applied = {} /\ cleared = {} /\ atStart = {}
    BY DEF Init
  <2> QED BY <2>1, <2>2, <2>3, <2>4, CounterAssumption DEF TypeOK
<1>2. LockOK BY DEF Init, LockOK, UpdHolds, FlHolds
<1>3. PcOK BY DEF Init, PcOK
<1>4. KeysUnique /\ LookupOK
  BY DEF Init, KeysUnique, LookupOK, InTable
<1>5. LoadedOK /\ NoUpdateLost BY DEF Init, LoadedOK, NoUpdateLost
<1> QED BY <1>1, <1>2, <1>3, <1>4, <1>5 DEF IInv

(* The inductive invariant holds in every state of CounterTable. *)
THEOREM Invariance == Spec => []IInv
<1>1. IInv /\ [Next]_vars => IInv'
  BY TypeStep, LockStep, KeysStep, UpdatesStep DEF IInv
<1> QED BY InitIInv, <1>1, PTL DEF Spec

(* Every variable keeps its type and the cursors of HASH_ITER stay in the    *)
(* list, in both builds.                                                     *)
THEOREM TypeCorrect == Spec => []TypeOK
<1>1. IInv => TypeOK BY DEF IInv
<1> QED BY Invariance, <1>1, PTL

(* An update that update_counter added is in a value or was in one that a    *)
(* flush cleared, with and without LOCK_OPTIMIZE.                            *)
THEOREM UpdatesKept == Spec => []NoUpdateLost
<1>1. IInv => NoUpdateLost BY DEF IInv
<1> QED BY Invariance, <1>1, PTL

(* A key is linked once although it is looked up before the lock is taken.   *)
THEOREM OneCounterPerKey == Spec => []KeysUnique
<1>1. IInv => KeysUnique BY DEF IInv
<1> QED BY Invariance, <1>1, PTL

------------------------------------------------------------------------------
(* With the locks, no update is reported twice.  An update that has been     *)
(* reported is in a value only while the flush is between reporting that     *)
(* value and clearing it.                                                    *)

(* Where the flush is after it has reported el's value to b. *)
After(b) == IF b = "graphite" THEN {"gmetric", "wait", "clear"}
                              ELSE {"wait", "clear"}

(* The updates that are still to be added. *)
Fresh(u) == u > calls \/ (u = calls /\ upd \notin {"idle", "post"})

FreshOK ==
  \A u \in Update : Fresh(u) =>
    /\ \A k \in Key : u \notin value[k]
    /\ \A b \in Backend : reported[b][u] = 0

(* Under the lock, what was loaded is still the value. *)
SumOK == upd = "store" => sum = value[key]

ValuesDisjoint ==
  \A k, l \in Key : k # l => value[k] \intersect value[l] = {}

ReportOK ==
  \A b \in Backend, u \in Update :
    /\ reported[b][u] <= 1
    /\ \A k \in Key :
          u \in value[k] /\ reported[b][u] > 0
            => /\ fl \in After(b)
               /\ k = counters[el]

RInv == FreshOK /\ SumOK /\ ValuesDisjoint /\ ReportOK

(* What a step that changes neither values nor reports must keep. *)
LEMMA QuietStep ==
  ASSUME TypeOK, RInv, UNCHANGED <<value, reported>>,
         \A u \in Update : Fresh(u)' => Fresh(u),
         upd' = "store" => (upd = "store" /\ UNCHANGED <<sum, key>>)
                           \/ sum' = value[key'],
         \A b \in Backend : fl \in After(b) =>
            fl' \in After(b) /\ counters'[el'] = counters[el]
  PROVE  RInv'
<1>1. FreshOK' BY DEF RInv, FreshOK
<1>2. SumOK' BY DEF RInv, SumOK
<1>3. ValuesDisjoint' BY DEF RInv, ValuesDisjoint
<1>4. ReportOK' BY DEF RInv, ReportOK, After
<1> QED BY <1>1, <1>2, <1>3, <1>4 DEF RInv

(* Adding an update that is fresh keeps the invariant. *)
LEMMA AddStep ==
  ASSUME TypeOK, RInv, UNCHANGED <<reported, fl, el>>, upd' = "post",
         calls' = calls, upd \notin {"idle", "post"}, calls > 0,
         value' = [value EXCEPT ![key] = value[key] \union {calls}],
         el # 0 => counters'[el] = counters[el],
         fl \in {"gmetric", "wait", "clear"} => el # 0
  PROVE  RInv'
<1>1. /\ key \in Key /\ calls \in Update /\ Fresh(calls)
      /\ value \in [Key -> SUBSET Update]
  BY CounterAssumption DEF TypeOK, Update, Fresh
<1>2. \A k \in Key : value'[k] = IF k = key THEN value[k] \union {calls}
                                            ELSE value[k]
  BY <1>1
<1>3. /\ \A k \in Key : calls \notin value[k]
      /\ \A b \in Backend : reported[b][calls] = 0
  BY <1>1 DEF RInv, FreshOK
<1>4. \A u \in Update : Fresh(u)' => Fresh(u) /\ u # calls
  BY <1>1 DEF Fresh, Update
<1>5. FreshOK' BY <1>2, <1>4 DEF RInv, FreshOK
<1>6. SumOK' BY DEF SumOK
<1>7. ValuesDisjoint' BY <1>2, <1>3 DEF RInv, ValuesDisjoint
<1>8. ReportOK'
  <2> SUFFICES ASSUME NEW b \in Backend, NEW u \in Update
               PROVE  /\ reported[b][u] <= 1
                      /\ \A k \in Key :
                           u \in value'[k] /\ reported[b][u] > 0
                             => fl \in After(b) /\ k = counters'[el]
    BY DEF ReportOK, After
  <2>1. reported[b][u] <= 1 BY DEF RInv, ReportOK
  <2>2. ASSUME NEW k \in Key, u \in value'[k], reported[b][u] > 0
        PROVE  fl \in After(b) /\ k = counters'[el]
    <3>1. u # calls BY <1>3, <2>2
    <3>2. u \in value[k] BY <1>2, <2>2, <3>1
    <3>3. fl \in After(b) /\ k = counters[el]
      BY <2>2, <3>2 DEF RInv, ReportOK
    <3> QED BY <3>3 DEF After
  <2> QED BY <2>1, <2>2
<1> QED BY <1>5, <1>6, <1>7, <1>8 DEF RInv

(* Reporting the value of el to a back end keeps the invariant. *)
LEMMA ReportingStep ==
  ASSUME TypeOK, RInv, NEW b \in Backend, Report(b), fl \notin After(b),
         fl' \in After(b), \A c \in Backend : fl \in After(c) => fl' \in After(c),
         el # 0,
         UNCHANGED <<value, upd, calls, key, sum, counters, el>>
  PROVE  RInv'
<1>1. \A c \in Backend, u \in Update :
        reported'[c][u] = IF c = b /\ u \in value[counters[el]]
                          THEN reported[c][u] + 1
                          ELSE reported[c][u]
  BY ReportStep
<1>k. counters[el] \in Key BY DEF TypeOK
<1>2. FreshOK'
  <2> SUFFICES ASSUME NEW u \in Update, Fresh(u)
               PROVE  /\ \A k \in Key : u \notin value[k]
                      /\ \A c \in Backend : reported'[c][u] = 0
    BY DEF FreshOK, Fresh
  <2>1. /\ \A k \in Key : u \notin value[k]
        /\ \A c \in Backend : reported[c][u] = 0
    BY DEF RInv, FreshOK
  <2>2. u \notin value[counters[el]] BY <2>1, <1>k
  <2> QED BY <1>1, <2>1, <2>2
<1>3. SumOK' BY DEF RInv, SumOK
<1>4. ValuesDisjoint' BY DEF RInv, ValuesDisjoint
<1>5. ReportOK'
  <2> SUFFICES ASSUME NEW c \in Backend, NEW u \in Update
               PROVE  /\ reported'[c][u] <= 1
                      /\ \A k \in Key :
                           u \in value[k] /\ reported'[c][u] > 0
                             => fl' \in After(c) /\ k = counters[el]
    BY DEF ReportOK, After
  <2>0. reported[c][u] \in Nat BY DEF TypeOK
  <2>1. CASE c = b /\ u \in value[counters[el]]
    <3>1. reported[c][u] = 0 BY <1>k, <2>0, <2>1 DEF RInv, ReportOK
    <3>2. reported'[c][u] = 1 BY <1>1, <2>1, <3>1
    <3>3. \A k \in Key : u \in value[k] => k = counters[el]
      BY <1>k, <2>1 DEF RInv, ValuesDisjoint
    <3> QED BY <2>1, <3>2, <3>3
  <2>2. CASE ~(c = b /\ u \in value[counters[el]])
    <3>1. reported'[c][u] = reported[c][u] BY <1>1, <2>2
    <3> QED BY <3>1 DEF RInv, ReportOK
  <2> QED BY <2>1, <2>2
<1> QED BY <1>2, <1>3, <1>4, <1>5 DEF RInv

(* Clearing the value of el keeps the invariant: what it leaves in the other *)
(* values has not been reported.                                             *)
LEMMA ClearingStep ==
  ASSUME TypeOK, LockOK, PcOK, ~LOCK_OPTIMIZE, RInv, ClearCounter
  PROVE  RInv'
<1>1. /\ fl = "clear" /\ counters[el] \in Key
      /\ value \in [Key -> SUBSET Update]
      /\ value' = [value EXCEPT ![counters[el]] = {}]
      /\ UNCHANGED <<reported, upd, calls>>
  BY DEF ClearCounter, updVars, TypeOK, PcOK
<1>2. \A k \in Key : value'[k] = IF k = counters[el] THEN {} ELSE value[k]
  BY <1>1
<1>3. FreshOK' BY <1>1, <1>2 DEF RInv, FreshOK, Fresh
<1>4. SumOK' BY <1>1 DEF LockOK, UpdHolds, FlHolds, SumOK
<1>5. ValuesDisjoint' BY <1>2 DEF RInv, ValuesDisjoint
<1>6. ReportOK' BY <1>1, <1>2 DEF RInv, ReportOK
<1> QED BY <1>3, <1>4, <1>5, <1>6 DEF RInv

(* Every step of the locked build keeps the invariant. *)
LEMMA RStep ==
  ASSUME TypeOK, LockOK, PcOK, LookupOK, ~LOCK_OPTIMIZE, RInv, [Next]_vars
  PROVE  RInv'
<1> USE DEF tableVars, updVars, flVars
<1>1. ASSUME NEW k \in Key, FindCounter(k) PROVE RInv'
  <2>1. \A u \in Update : Fresh(u)' => Fresh(u)
    BY <1>1 DEF FindCounter, Fresh, Update, TypeOK
  <2> QED BY <1>1, <2>1, QuietStep DEF FindCounter
<1>2. CASE WaitCountersLock BY <1>2, QuietStep DEF WaitCountersLock, Fresh
<1>3. CASE LoadValue BY <1>3, QuietStep DEF LoadValue, Fresh
<1>4. CASE StoreValue
  <2>1. sum = value[key] BY <1>4 DEF StoreValue, RInv, SumOK
  <2> QED BY <1>4, <2>1, AddStep DEF StoreValue, PcOK
<1>5. CASE LinkCounter
  <2>1. value[key] = {} BY <1>5 DEF LinkCounter, LookupOK, TypeOK
  <2>2. el # 0 => counters'[el] = counters[el]
    BY <1>5 DEF LinkCounter, TypeOK
  <2> QED BY <1>5, <2>1, <2>2, AddStep DEF LinkCounter, PcOK
<1>6. CASE RemoveCountersLock BY <1>6, QuietStep DEF RemoveCountersLock, Fresh
<1>7. CASE StartPass BY <1>7, QuietStep DEF StartPass, Fresh, After
<1>8. CASE ReportGraphite
  <2>1. CASE EnableGraphite
    BY <1>8, <2>1, ReportingStep DEF ReportGraphite, After, Backend
  <2>2. CASE ~EnableGraphite
    BY <1>8, <2>2, QuietStep DEF ReportGraphite, Fresh, After
  <2> QED BY <2>1, <2>2
<1>9. CASE ReportGmetric
  <2>1. CASE enable_gmetric
    BY <1>9, <2>1, ReportingStep DEF ReportGmetric, After, Backend, PcOK
  <2>2. CASE ~enable_gmetric
    BY <1>9, <2>2, QuietStep DEF ReportGmetric, Fresh, After
  <2> QED BY <2>1, <2>2
<1>10. CASE WaitToClear BY <1>10, QuietStep DEF WaitToClear, Fresh, After
<1>11. CASE ClearCounter BY <1>11, ClearingStep
<1>12. CASE NextCounter BY <1>12, QuietStep DEF NextCounter, Fresh, After
<1>13. CASE EndPass BY <1>13, QuietStep DEF EndPass, Fresh, After
<1>14. CASE UNCHANGED vars BY <1>14, QuietStep DEF vars, Fresh
<1> QED
  BY <1>1, <1>2, <1>3, <1>4, <1>5, <1>6, <1>7, <1>8, <1>9, <1>10, <1>11, <1>12,
     <1>13, <1>14 DEF Next, Updating, Flushing

(* With the locks, no back end is sent an update in two flushes, whatever    *)
(* update_counter does while p_thread_flush reports and clears.              *)
THEOREM ReportedAtMostOnce == Spec => []ReportedOnce
<1> DEFINE J == ~LOCK_OPTIMIZE => RInv
<1>1. Init => J
  <2> SUFFICES ASSUME Init PROVE RInv
    OBVIOUS
  <2>1. \A b \in Backend, u \in Update : reported[b][u] = 0 BY DEF Init
  <2>2. \A k \in Key : value[k] = {} BY DEF Init
  <2>3. upd = "idle" BY DEF Init
  <2> QED BY <2>1, <2>2, <2>3
          DEF RInv, FreshOK, SumOK, ValuesDisjoint, ReportOK
<1>2. IInv /\ J /\ [Next]_vars => J' BY RStep DEF IInv
<1>3. J => ReportedOnce BY DEF ReportedOnce, RInv, ReportOK
<1> QED BY Invariance, <1>1, <1>2, <1>3, PTL DEF Spec

------------------------------------------------------------------------------
(* The pass of p_thread_flush over the list that update_counter appends to.  *)

(* What was visited is the front of the list and el follows it; tmp follows  *)
(* el, and is 0, or el itself is, only when every key that was in the table  *)
(* at the start is not after them.                                           *)
PassOK ==
  fl # "sleep" =>
    /\ Len(visited) <= Len(counters)
    /\ \A i \in DOMAIN visited : visited[i] = counters[i]
    /\ el # 0 => el = Len(visited) + 1
    /\ tmp # 0 => tmp = el + 1
    /\ atStart \subseteq InTable
    /\ \A i \in DOMAIN counters : counters[i] \in atStart =>
         /\ el = 0 => i <= Len(visited)
         /\ tmp = 0 => i <= Len(visited) + 1

(* What a step that leaves the cursors and the list alone must keep. *)
LEMMA PassQuiet ==
  ASSUME PassOK, UNCHANGED <<counters, el, tmp, atStart, visited>>,
         fl = "sleep" => fl' = "sleep"
  PROVE  PassOK'
BY DEF PassOK, InTable

(* Lengths and places of the list, for the arithmetic of the steps below. *)
LEMMA PassTyped ==
  ASSUME TypeOK
  PROVE  /\ Len(counters) \in Nat /\ DOMAIN counters = 1 .. Len(counters)
         /\ Len(visited) \in Nat /\ DOMAIN visited = 1 .. Len(visited)
         /\ el \in 0 .. Len(counters) /\ tmp \in 0 .. Len(counters)
         /\ counters \in Seq(Key) /\ visited \in Seq(Key)
<1>1. /\ counters \in Seq(Key) /\ visited \in Seq(Key)
      /\ el \in 0 .. Len(counters) /\ tmp \in 0 .. Len(counters)
  BY DEF TypeOK
<1> QED BY <1>1

(* A key that is linked during the pass goes behind the cursors' places and  *)
(* was not in the table at the start.                                        *)
LEMMA PassLink ==
  ASSUME TypeOK, LookupOK, PassOK, LinkCounter PROVE PassOK'
<1> SUFFICES ASSUME fl # "sleep" PROVE PassOK'
  BY DEF PassOK, LinkCounter, flVars
<1>1. /\ counters' = Append(counters, key) /\ upd = "link"
      /\ UNCHANGED <<fl, el, tmp, atStart, visited>>
  BY DEF LinkCounter, flVars
<1>2. key \notin InTable BY <1>1 DEF LookupOK
<1>3. /\ DOMAIN counters' = 1 .. Len(counters) + 1
      /\ Len(counters') = Len(counters) + 1
      /\ \A i \in DOMAIN counters : counters'[i] = counters[i]
      /\ counters'[Len(counters) + 1] = key
  <2>1. key \in Key /\ counters \in Seq(Key) BY DEF TypeOK
  <2> QED BY <1>1, <2>1
<1>4. /\ Len(visited) <= Len(counters) /\ atStart \subseteq InTable
      /\ \A i \in DOMAIN visited : visited[i] = counters[i]
      /\ el # 0 => el = Len(visited) + 1
      /\ tmp # 0 => tmp = el + 1
      /\ \A i \in DOMAIN counters : counters[i] \in atStart =>
           /\ el = 0 => i <= Len(visited)
           /\ tmp = 0 => i <= Len(visited) + 1
  BY DEF PassOK
<1>5. \A i \in DOMAIN counters' :
        counters'[i] \in atStart => i \in DOMAIN counters
  <2>1. \A i \in DOMAIN counters' : i \in DOMAIN counters \/ i = Len(counters) + 1
    BY <1>3, PassTyped
  <2> QED BY <1>2, <1>3, <1>4, <2>1
<1>6. InTable \subseteq InTable' BY <1>3, PassTyped DEF InTable
<1>7. \A i \in DOMAIN visited : i \in DOMAIN counters /\ visited[i] = counters'[i]
  <2>1. \A i \in DOMAIN visited : i \in DOMAIN counters BY <1>4, PassTyped
  <2> QED BY <1>3, <1>4, <2>1
<1>8. Len(visited) <= Len(counters') BY <1>3, <1>4, PassTyped
<1> QED BY <1>1, <1>3, <1>4, <1>5, <1>6, <1>7, <1>8 DEF PassOK

(* The first place of the list and the one after it, or 0 where there is     *)
(* none.                                                                     *)
LEMMA PassStart == ASSUME TypeOK, StartPass PROVE PassOK'
<1>1. /\ el' = NextOf(0) /\ tmp' = (IF counters = <<>> THEN 0 ELSE NextOf(1))
      /\ atStart' = InTable /\ visited' = <<>> /\ counters' = counters
  BY DEF StartPass, tableVars
<1>2. Len(visited') = 0 /\ DOMAIN visited' = {} BY <1>1
<1>3. /\ Len(counters) = 0 => el' = 0 /\ tmp' = 0
      /\ Len(counters) > 0 => el' = 1
      /\ tmp' # 0 => tmp' = el' + 1
      /\ tmp' = 0 => Len(counters) <= 1
  <2>1. counters = <<>> <=> Len(counters) = 0 BY PassTyped
  <2> QED BY <1>1, <2>1, PassTyped DEF NextOf
<1>4. InTable' = InTable BY <1>1 DEF InTable
<1>5. \A i \in DOMAIN counters : /\ el' = 0 => i <= 0
                                 /\ tmp' = 0 => i <= 1
  BY <1>3, PassTyped
<1> QED BY <1>1, <1>2, <1>3, <1>4, <1>5, PassTyped DEF PassOK

(* The cursors move on and the element that they leave is noted. *)
LEMMA PassNext == ASSUME TypeOK, PcOK, PassOK, NextCounter PROVE PassOK'
<1>1. /\ el' = tmp /\ tmp' = (IF tmp = 0 THEN 0 ELSE NextOf(tmp))
      /\ visited' = Append(visited, counters[el]) /\ fl = "post"
      /\ UNCHANGED <<counters, atStart>>
  BY DEF NextCounter, tableVars
<1>2. el # 0 BY <1>1 DEF PcOK
<1>3. /\ Len(visited) <= Len(counters) /\ atStart \subseteq InTable
      /\ \A i \in DOMAIN visited : visited[i] = counters[i]
      /\ el = Len(visited) + 1
      /\ tmp # 0 => tmp = el + 1
      /\ \A i \in DOMAIN counters : counters[i] \in atStart /\ tmp = 0 =>
           i <= Len(visited) + 1
  BY <1>1, <1>2 DEF PassOK
<1>4. counters[el] \in Key
  <2>1. el \in 1 .. Len(counters) BY <1>2, PassTyped
  <2> QED BY <2>1, PassTyped
<1>5. /\ Len(visited') = Len(visited) + 1
      /\ DOMAIN visited' = 1 .. Len(visited) + 1
      /\ \A i \in DOMAIN visited : visited'[i] = visited[i]
      /\ visited'[Len(visited) + 1] = counters[el]
  BY <1>1, <1>4, PassTyped
<1>6. \A i \in DOMAIN visited' : visited'[i] = counters[i]
  <2>1. \A i \in DOMAIN visited' : i \in DOMAIN visited \/ i = Len(visited) + 1
    BY <1>5, PassTyped
  <2> QED BY <1>3, <1>5, <2>1
<1>7. Len(visited') <= Len(counters) BY <1>3, <1>5, PassTyped
<1>8. /\ el' # 0 => el' = Len(visited') + 1
      /\ tmp' # 0 => tmp' = el' + 1
  BY <1>1, <1>3, <1>5, PassTyped DEF NextOf
<1>9. ASSUME NEW i \in DOMAIN counters, counters[i] \in atStart
      PROVE  /\ el' = 0 => i <= Len(visited')
             /\ tmp' = 0 => i <= Len(visited') + 1
  <2>1. tmp = 0 => i <= Len(visited) + 1 BY <1>3, <1>9
  <2>2. i \in 1 .. Len(counters) BY PassTyped
  <2>3. tmp # 0 /\ tmp' = 0 => tmp = Len(counters)
    BY <1>1, PassTyped DEF NextOf
  <2> QED BY <1>1, <1>3, <1>5, <2>1, <2>2, <2>3, PassTyped
<1>10. InTable' = InTable BY <1>1 DEF InTable
<1> QED BY <1>1, <1>3, <1>6, <1>7, <1>8, <1>9, <1>10 DEF PassOK

(* Every step keeps the cursors where they belong. *)
LEMMA PassStep ==
  ASSUME TypeOK, PcOK, LookupOK, PassOK, [Next]_vars PROVE PassOK'
<1> USE DEF tableVars, updVars, flVars
<1>1. CASE LinkCounter BY <1>1, PassLink
<1>2. CASE StartPass BY <1>2, PassStart
<1>3. CASE NextCounter BY <1>3, PassNext
<1>4. CASE EndPass BY <1>4 DEF EndPass, PassOK
<1>5. ASSUME NEW k \in Key, FindCounter(k) PROVE PassOK'
  BY <1>5, PassQuiet DEF FindCounter
<1>6. CASE WaitCountersLock \/ LoadValue \/ StoreValue \/ RemoveCountersLock
  BY <1>6, PassQuiet
  DEF WaitCountersLock, LoadValue, StoreValue, RemoveCountersLock
<1>7. CASE ReportGraphite \/ ReportGmetric
  BY <1>7, PassQuiet DEF ReportGraphite, ReportGmetric
<1>8. CASE WaitToClear \/ ClearCounter
  BY <1>8, PassQuiet DEF WaitToClear, ClearCounter
<1>9. CASE UNCHANGED vars BY <1>9, PassQuiet DEF vars
<1> QED
  BY <1>1, <1>2, <1>3, <1>4, <1>5, <1>6, <1>7, <1>8, <1>9
  DEF Next, Updating, Flushing

(* A pass that p_thread_flush ends has visited every key that was in the     *)
(* table at its start, none twice, although it reads the list without the    *)
(* lock while update_counter appends to it, in both builds.                  *)
THEOREM PassIsComplete == Spec => PassCoversTable
<1>1. Init => PassOK BY DEF Init, PassOK
<1>2. IInv /\ PassOK /\ [Next]_vars => PassOK' BY PassStep DEF IInv
<1>3. ASSUME IInv, PassOK, [Next]_vars, fl = "graphite", fl' = "sleep"
      PROVE  /\ atStart \subseteq {visited[i] : i \in DOMAIN visited}
             /\ \A i, j \in DOMAIN visited : visited[i] = visited[j] => i = j
  <2>1. el = 0
    BY <1>3
    DEF Next, Updating, Flushing, FindCounter, WaitCountersLock, LoadValue,
        StoreValue, LinkCounter, RemoveCountersLock, StartPass, ReportGraphite,
        ReportGmetric, WaitToClear, ClearCounter, NextCounter, EndPass, flVars,
        vars
  <2>2. /\ Len(visited) <= Len(counters) /\ atStart \subseteq InTable
        /\ \A i \in DOMAIN visited : visited[i] = counters[i]
        /\ \A i \in DOMAIN counters :
             counters[i] \in atStart => i <= Len(visited)
    BY <1>3, <2>1 DEF PassOK
  <2>3. TypeOK /\ KeysUnique BY <1>3 DEF IInv
  <2>4. \A i \in DOMAIN visited : i \in DOMAIN counters
    BY <2>2, <2>3, PassTyped
  <2>5. \A i, j \in DOMAIN visited : visited[i] = visited[j] => i = j
    BY <2>2, <2>3, <2>4 DEF KeysUnique
  <2>6. ASSUME NEW k \in atStart PROVE \E i \in DOMAIN visited : visited[i] = k
    <3>1. PICK i \in DOMAIN counters : counters[i] = k BY <2>2 DEF InTable
    <3>2. i <= Len(visited) BY <2>2, <3>1
    <3>3. i \in DOMAIN visited BY <2>3, <3>2, PassTyped
    <3> QED BY <2>2, <3>1, <3>3
  <2> QED BY <2>5, <2>6
<1>4. IInv /\ PassOK /\ [Next]_vars =>
        [fl = "graphite" /\ fl' = "sleep" =>
           /\ atStart \subseteq {visited[i] : i \in DOMAIN visited}
           /\ \A i, j \in DOMAIN visited : visited[i] = visited[j] => i = j]_vars
  BY <1>3
<1> QED BY Invariance, <1>1, <1>2, <1>4, PTL DEF Spec, PassCoversTable

==============================================================================
