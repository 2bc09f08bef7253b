-------------------------- MODULE TimerTableProofs --------------------------
(***************************************************************************)
(* Proofs about TimerTable, for every set of names, number of samples and  *)
(* choice of back ends.                                                    *)
(***************************************************************************)
EXTENDS TimerTable, TLAPS

(* The part of the code each thread is in when it holds timers_lock. *)
UpdHolds == upd \in {"push", "count", "link", "post"}
FlHolds == fl \in {"summarise", "clear_values", "clear_count", "post"}

(* The semaphore is a mutex. *)
LockOK ==
  /\ ~(UpdHolds /\ FlHolds)
  /\ timers_lock = IF UpdHolds \/ FlHolds THEN 0 ELSE 1

(* What the program counters say about the arguments and cursors. *)
PcOK ==
  /\ upd # "idle" => calls > 0
  /\ fl \notin {"sleep", "test"} => el # 0
  /\ tmp # 0 => el # 0

(* The lookup made before the lock is still true when it is used. *)
LookupOK ==
  /\ upd \in {"add_wait", "link"} => key \notin InTable
  /\ upd \in {"wait", "push"} => key \in InTable
  /\ \A k \in Key : k \notin InTable => values[k] = <<>>

(* Array and count differ only where the holder of the lock is between its   *)
(* two assignments.                                                          *)
CountOK ==
  \A k \in Key :
    IF upd = "count" /\ k = key THEN Len(values[k]) = count[k] + 1
    ELSE IF fl = "clear_count" /\ k = timers[el] THEN values[k] = <<>>
    ELSE Len(values[k]) = count[k]

(* A positive count stays positive until the flush itself resets it. *)
TestedOK == fl \in {"wait", "summarise"} => count[timers[el]] > 0

IInv == TypeOK /\ LockOK /\ PcOK /\ LookupOK /\ CountOK /\ TestedOK

------------------------------------------------------------------------------
(* Sending the summary to a back end counts each of its samples once. *)
LEMMA ReportStep ==
  ASSUME TypeOK, el # 0, NEW b \in Backend, Report(b)
  PROVE  /\ reported' \in [Backend -> [Update -> Nat]]
         /\ shown' \in Nat
         /\ \A c \in Backend, u \in Update :
              reported'[c][u] = IF c = b /\ u \in summary
                                THEN reported[c][u] + 1
                                ELSE reported[c][u]
<1>1. reported \in [Backend -> [Update -> Nat]] BY DEF TypeOK
<1> DEFINE row == [u \in Update |-> IF u \in summary THEN reported[b][u] + 1
                                                     ELSE reported[b][u]]
<1>2. row \in [Update -> Nat] BY <1>1
<1>3. reported' = [reported EXCEPT ![b] = row] BY DEF Report
<1>4. \A u \in Update : row[u] = IF u \in summary THEN reported[b][u] + 1
                                                  ELSE reported[b][u]
  OBVIOUS
<1> HIDE DEF row
<1>5. \A c \in Backend : reported'[c] = IF c = b THEN row ELSE reported[c]
  BY <1>1, <1>3
<1>6. reported' \in [Backend -> [Update -> Nat]] BY <1>1, <1>2, <1>3
<1>7. shown' \in Nat
  <2>1. timers[el] \in Key BY DEF TypeOK
  <2> QED BY <2>1 DEF Report, TypeOK
<1> QED BY <1>4, <1>5, <1>6, <1>7

(* What the types say of the element that the flush is at and of the call.   *)
LEMMA Typed ==
  ASSUME TypeOK, PcOK
  PROVE  /\ timers \in Seq(Key) /\ Len(timers) \in Nat /\ key \in Key
         /\ values \in [Key -> Seq(Update)] /\ count \in [Key -> Nat]
         /\ \A k \in Key : Len(values[k]) \in Nat /\ count[k] \in Nat
         /\ fl \notin {"sleep", "test"} =>
              el \in 1 .. Len(timers) /\ timers[el] \in Key
         /\ calls \in 0 .. MaxUpdates /\ MaxUpdates \in Nat
         /\ upd # "idle" => calls > 0 /\ calls \in Update
<1>1. /\ timers \in Seq(Key) /\ key \in Key
      /\ values \in [Key -> Seq(Update)] /\ count \in [Key -> Nat]
      /\ calls \in 0 .. MaxUpdates /\ el \in 0 .. Len(timers)
  BY DEF TypeOK
<1>2. Len(timers) \in Nat BY <1>1
<1>3. \A k \in Key : Len(values[k]) \in Nat /\ count[k] \in Nat BY <1>1
<1>4. fl \notin {"sleep", "test"} => el # 0 BY DEF PcOK
<1>5. upd # "idle" => calls > 0 BY DEF PcOK
<1>6. MaxUpdates \in Nat BY TimerAssumption
<1>7. fl \notin {"sleep", "test"} =>
        el \in 1 .. Len(timers) /\ timers[el] \in Key
  <2>1. el # 0 => el \in 1 .. Len(timers) BY <1>1, <1>2
  <2>2. \A i \in 1 .. Len(timers) : timers[i] \in Key BY <1>1
  <2> QED BY <1>4, <2>1, <2>2
<1>8. upd # "idle" => calls \in Update BY <1>1, <1>5, <1>6 DEF Update
<1> QED BY <1>1, <1>2, <1>3, <1>5, <1>6, <1>7, <1>8

(* Every step keeps the variables in their types and the cursors in the list. *)
LEMMA TypeStep ==
  ASSUME TypeOK, LockOK, PcOK, [Next]_vars
  PROVE  TypeOK' /\ PcOK'
<1>a. /\ upd # "idle" => calls \in Update
      /\ calls \in 0 .. MaxUpdates /\ MaxUpdates \in Nat
      /\ Len(timers) \in Nat /\ key \in Key
      /\ values \in [Key -> Seq(Update)] /\ count \in [Key -> Nat]
  BY Typed
<1>b. fl \notin {"sleep", "test"} => timers[el] \in Key BY Typed
<1>c. /\ el \in 0 .. Len(timers) /\ tmp \in 0 .. Len(timers)
      /\ applied \in SUBSET Update /\ timers \in Seq(Key)
      /\ timers_lock \in {0, 1}
  BY DEF TypeOK
<1> USE DEF TypeOK, LockOK, PcOK, UpdHolds, FlHolds, tableVars, updVars
<1>1. ASSUME NEW k \in Key, FindTimer(k) PROVE TypeOK' /\ PcOK'
  <2>1. calls' \in 0 .. MaxUpdates /\ calls' > 0 BY <1>1, <1>a DEF FindTimer
  <2>2. PcOK' BY <1>1, <2>1 DEF FindTimer, flVars
  <2> QED BY <1>1, <2>1, <2>2 DEF FindTimer, flVars
<1>2. CASE WaitTimersLock BY <1>2 DEF WaitTimersLock, flVars
<1>3. CASE PushSample
  <2>1. calls \in Update BY <1>3, <1>a DEF PushSample
  <2>2. /\ values' \in [Key -> Seq(Update)]
        /\ applied' \in SUBSET Update
    <3> HIDE DEF TypeOK, PcOK, LockOK
    <3>1. Append(values[key], calls) \in Seq(Update) BY <1>a, <2>1
    <3>2. values' = [values EXCEPT ![key] = Append(values[key], calls)]
      BY <1>3 DEF PushSample
    <3>3. values' \in [Key -> Seq(Update)] BY <1>a, <3>1, <3>2
    <3>4. applied' = applied \union {calls} BY <1>3 DEF PushSample
    <3> QED BY <1>c, <2>1, <3>3, <3>4
  <2> QED BY <1>3, <2>2 DEF PushSample, flVars
<1>4. CASE CountSample
  <2>1. count' \in [Key -> Nat]
    <3> HIDE DEF TypeOK, PcOK, LockOK
    <3>1. count' = [count EXCEPT ![key] = count[key] + 1]
      BY <1>4 DEF CountSample
    <3>2. count[key] + 1 \in Nat BY <1>a
    <3> QED BY <1>a, <3>1, <3>2
  <2> QED BY <1>4, <2>1 DEF CountSample, flVars
<1>5. CASE LinkTimer
  <2>1. calls \in Update BY <1>5, <1>a DEF LinkTimer
  <2>2. /\ values' \in [Key -> Seq(Update)]
        /\ count' \in [Key -> Nat]
        /\ applied' \in SUBSET Update
    <3> HIDE DEF TypeOK, PcOK, LockOK
    <3>1. /\ values' = [values EXCEPT ![key] = <<calls>>]
          /\ count' = [count EXCEPT ![key] = 1]
          /\ applied' = applied \union {calls}
      BY <1>5 DEF LinkTimer
    <3>2. <<calls>> \in Seq(Update) BY <2>1
    <3>3. values' \in [Key -> Seq(Update)] BY <1>a, <3>1, <3>2
    <3>4. count' \in [Key -> Nat] BY <1>a, <3>1
    <3>5. applied' \in SUBSET Update BY <1>c, <2>1, <3>1
    <3> QED BY <3>3, <3>4, <3>5
  <2>3. timers' \in Seq(Key) /\ Len(timers') = Len(timers) + 1
    <3> HIDE DEF TypeOK, PcOK, LockOK
    <3>1. timers' = Append(timers, key) BY <1>5 DEF LinkTimer
    <3> QED BY <1>a, <1>c, <3>1
  <2>4. el' \in 0 .. Len(timers') /\ tmp' \in 0 .. Len(timers')
    <3> HIDE DEF TypeOK, PcOK, LockOK
    <3>1. el' = el /\ tmp' = tmp BY <1>5 DEF LinkTimer, flVars
    <3>2. 0 .. Len(timers) \subseteq 0 .. Len(timers') BY <1>a, <2>3
    <3> QED BY <1>c, <3>1, <3>2
  <2>5. PcOK' BY <1>5 DEF LinkTimer, flVars
  <2> QED BY <1>5, <2>2, <2>3, <2>4, <2>5 DEF LinkTimer, flVars
<1>6. CASE RemoveTimersLock
  <2>1. timers_lock' = 1 BY <1>6 DEF RemoveTimersLock
  <2> QED BY <1>6, <2>1 DEF RemoveTimersLock, flVars
<1>7. CASE StartPass
  <2>1. /\ el' \in 0 .. Len(timers) /\ tmp' \in 0 .. Len(timers)
        /\ tmp' # 0 => el' # 0
    BY <1>7, <1>a DEF StartPass, NextOf
  <2> QED BY <1>7, <2>1 DEF StartPass
<1>8. CASE TestCount BY <1>8 DEF TestCount
<1>9. CASE WaitToSummarise BY <1>9 DEF WaitToSummarise
<1>10. CASE Summarise
  <2>1. summary' \in SUBSET Update
    <3> HIDE DEF TypeOK, PcOK, LockOK
    <3>1. timers[el] \in Key BY <1>10, <1>b DEF Summarise
    <3>2. values[timers[el]] \in Seq(Update) BY <1>a, <3>1
    <3>3. \A i \in DOMAIN values[timers[el]] : values[timers[el]][i] \in Update
      BY <3>2
    <3> QED BY <1>10, <3>3 DEF Summarise, SamplesOf
  <2> QED BY <1>10, <2>1 DEF Summarise
<1>11. CASE ClearValues
  <2>1. values' \in [Key -> Seq(Update)]
    <3> HIDE DEF TypeOK, PcOK, LockOK
    <3>1. timers[el] \in Key BY <1>11, <1>b DEF ClearValues
    <3>2. values' = [values EXCEPT ![timers[el]] = <<>>]
      BY <1>11 DEF ClearValues
    <3>3. <<>> \in Seq(Update) OBVIOUS
    <3> QED BY <1>a, <3>1, <3>2, <3>3
  <2> QED BY <1>11, <2>1 DEF ClearValues
<1>12. CASE ClearCount BY <1>12 DEF ClearCount
<1>13. CASE PostTimersLock
  <2>1. timers_lock' = 1 BY <1>13 DEF PostTimersLock
  <2> QED BY <1>13, <2>1 DEF PostTimersLock
<1>14. CASE ReportGraphite
  <2>1. /\ fl = "graphite" /\ fl' = "gmetric"
        /\ UNCHANGED <<timers, values, count, timers_lock, upd, key, calls,
                       applied, el, tmp, summary>>
    BY <1>14 DEF ReportGraphite
  <2>2. reported' \in [Backend -> [Update -> Nat]] /\ shown' \in Nat
    BY <1>14, ReportStep DEF ReportGraphite, Backend
  <2> QED BY <2>1, <2>2
<1>15. CASE ReportGmetric
  <2>1. /\ fl = "gmetric" /\ fl' = "next"
        /\ UNCHANGED <<timers, values, count, timers_lock, upd, key, calls,
                       applied, el, tmp, summary>>
    BY <1>15 DEF ReportGmetric
  <2>2. reported' \in [Backend -> [Update -> Nat]] /\ shown' \in Nat
    BY <1>15, ReportStep DEF ReportGmetric, Backend
  <2> QED BY <2>1, <2>2
<1>16. CASE NextTimer
  <2>1. /\ el' \in 0 .. Len(timers) /\ tmp' \in 0 .. Len(timers)
        /\ tmp' # 0 => el' # 0
    BY <1>16, <1>a DEF NextTimer, NextOf
  <2> QED BY <1>16, <2>1 DEF NextTimer
<1>17. CASE EndPass BY <1>17 DEF EndPass
<1>18. CASE UNCHANGED vars BY <1>18 DEF vars
<1> HIDE DEF TypeOK, PcOK
<1> QED
  BY <1>1, <1>2, <1>3, <1>4, <1>5, <1>6, <1>7, <1>8, <1>9, <1>10, <1>11, <1>12,
     <1>13, <1>14, <1>15, <1>16, <1>17, <1>18 DEF Next, Updating, Flushing

(* Every step keeps timers_lock a mutex. *)
LEMMA LockStep == ASSUME TypeOK, LockOK, [Next]_vars PROVE LockOK'
<1> USE DEF LockOK, UpdHolds, FlHolds, tableVars, updVars, flVars
<1>1. ASSUME NEW k \in Key, FindTimer(k) PROVE LockOK' BY <1>1 DEF FindTimer
<1>2. CASE WaitTimersLock BY <1>2 DEF WaitTimersLock
<1>3. CASE PushSample BY <1>3 DEF PushSample
<1>4. CASE CountSample BY <1>4 DEF CountSample
<1>5. CASE LinkTimer BY <1>5 DEF LinkTimer
<1>6. CASE RemoveTimersLock BY <1>6 DEF RemoveTimersLock
<1>7. CASE StartPass BY <1>7 DEF StartPass
<1>8. CASE TestCount BY <1>8 DEF TestCount
<1>9. CASE WaitToSummarise BY <1>9 DEF WaitToSummarise
<1>10. CASE Summarise BY <1>10 DEF Summarise
<1>11. CASE ClearValues BY <1>11 DEF ClearValues
<1>12. CASE ClearCount BY <1>12 DEF ClearCount
<1>13. CASE PostTimersLock BY <1>13 DEF PostTimersLock
<1>14. CASE ReportGraphite BY <1>14 DEF ReportGraphite
<1>15. CASE ReportGmetric BY <1>15 DEF ReportGmetric
<1>16. CASE NextTimer BY <1>16 DEF NextTimer
<1>17. CASE EndPass BY <1>17 DEF EndPass
<1>18. CASE UNCHANGED vars BY <1>18 DEF vars
<1> QED
  BY <1>1, <1>2, <1>3, <1>4, <1>5, <1>6, <1>7, <1>8, <1>9, <1>10, <1>11, <1>12,
     <1>13, <1>14, <1>15, <1>16, <1>17, <1>18 DEF Next, Updating, Flushing

(* The lookup stays true: one thread alone adds timers. *)
LEMMA LookupStep ==
  ASSUME TypeOK, PcOK, LookupOK, [Next]_vars
  PROVE  LookupOK'
<1> USE DEF LookupOK, InTable, tableVars, updVars, flVars
<1>1. ASSUME NEW k \in Key, FindTimer(k) PROVE LookupOK' BY <1>1 DEF FindTimer
<1>2. CASE WaitTimersLock BY <1>2 DEF WaitTimersLock
<1>3. CASE PushSample
  <2>1. key \in InTable /\ UNCHANGED <<timers, key>> /\ upd' = "count"
    BY <1>3 DEF PushSample
  <2>2. \A k \in Key : k # key => values'[k] = values[k]
    BY <1>3 DEF PushSample, TypeOK
  <2> QED BY <2>1, <2>2
<1>4. CASE CountSample BY <1>4 DEF CountSample
<1>5. CASE LinkTimer
  <2>1. /\ timers \in Seq(Key) /\ timers' = Append(timers, key)
        /\ upd' = "post" /\ key' = key
        /\ \A k \in Key : k # key => values'[k] = values[k]
    BY <1>5 DEF LinkTimer, TypeOK
  <2>2. /\ DOMAIN timers' = 1 .. Len(timers) + 1
        /\ DOMAIN timers = 1 .. Len(timers)
        /\ \A i \in DOMAIN timers : timers'[i] = timers[i]
        /\ timers'[Len(timers) + 1] = key
        /\ Len(timers) \in Nat
    BY <2>1
  <2>3. InTable \subseteq InTable' /\ key \in InTable' BY <2>2
  <2> QED BY <2>1, <2>3
<1>6. CASE RemoveTimersLock BY <1>6 DEF RemoveTimersLock
<1>7. CASE StartPass BY <1>7 DEF StartPass
<1>8. CASE TestCount BY <1>8 DEF TestCount
<1>9. CASE WaitToSummarise BY <1>9 DEF WaitToSummarise
<1>10. CASE Summarise BY <1>10 DEF Summarise
<1>11. CASE ClearValues
  <2>1. /\ timers[el] \in Key
        /\ values \in [Key -> Seq(Update)]
        /\ values' = [values EXCEPT ![timers[el]] = <<>>]
        /\ UNCHANGED <<timers, upd, key>>
    BY <1>11, Typed DEF ClearValues
  <2>2. \A k \in Key : values'[k] = IF k = timers[el] THEN <<>> ELSE values[k]
    BY <2>1
  <2> QED BY <2>1, <2>2
<1>12. CASE ClearCount BY <1>12 DEF ClearCount
<1>13. CASE PostTimersLock BY <1>13 DEF PostTimersLock
<1>14. CASE ReportGraphite BY <1>14 DEF ReportGraphite
<1>15. CASE ReportGmetric BY <1>15 DEF ReportGmetric
<1>16. CASE NextTimer BY <1>16 DEF NextTimer
<1>17. CASE EndPass BY <1>17 DEF EndPass
<1>18. CASE UNCHANGED vars BY <1>18 DEF vars
<1> QED
  BY <1>1, <1>2, <1>3, <1>4, <1>5, <1>6, <1>7, <1>8, <1>9, <1>10, <1>11, <1>12,
     <1>13, <1>14, <1>15, <1>16, <1>17, <1>18 DEF Next, Updating, Flushing

(* Every step keeps array and count together but where the holder of the     *)
(* lock is between its two assignments, and a tested count positive.         *)
LEMMA CountStep ==
  ASSUME TypeOK, LockOK, PcOK, LookupOK, CountOK, TestedOK, [Next]_vars
  PROVE  CountOK' /\ TestedOK'
<1> USE DEF CountOK, TestedOK, tableVars, updVars, flVars
<1>0. /\ values \in [Key -> Seq(Update)] /\ count \in [Key -> Nat]
      /\ key \in Key /\ timers \in Seq(Key)
      /\ \A k \in Key : Len(values[k]) \in Nat /\ count[k] \in Nat
      /\ fl \notin {"sleep", "test"} => timers[el] \in Key
  BY Typed
<1>1. ASSUME NEW k \in Key, FindTimer(k) PROVE CountOK' /\ TestedOK'
  BY <1>1 DEF FindTimer
<1>2. CASE WaitTimersLock BY <1>2 DEF WaitTimersLock
<1>3. CASE PushSample
  <2>1. fl # "clear_count" BY <1>3 DEF PushSample, LockOK, UpdHolds, FlHolds
  <2>2. calls \in Update BY <1>3, Typed DEF PushSample
  <2>3. \A k \in Key : Len(values'[k]) = IF k = key THEN Len(values[k]) + 1
                                                   ELSE Len(values[k])
    <3>1. values' = [values EXCEPT ![key] = Append(values[key], calls)]
      BY <1>3 DEF PushSample
    <3>2. /\ values'[key] = Append(values[key], calls)
          /\ \A k \in Key : k # key => values'[k] = values[k]
      BY <1>0, <3>1
    <3>3. Len(values'[key]) = Len(values[key]) + 1 BY <1>0, <2>2, <3>2
    <3> QED BY <3>2, <3>3
  <2> QED BY <1>0, <1>3, <2>1, <2>3 DEF PushSample
<1>4. CASE CountSample
  <2>1. fl # "clear_count" BY <1>4 DEF CountSample, LockOK, UpdHolds, FlHolds
  <2>2. \A k \in Key : count'[k] = IF k = key THEN count[k] + 1 ELSE count[k]
    BY <1>0, <1>4 DEF CountSample
  <2> QED BY <1>0, <1>4, <2>1, <2>2 DEF CountSample
<1>5. CASE LinkTimer
  <2>1. fl # "clear_count" BY <1>5 DEF LinkTimer, LockOK, UpdHolds, FlHolds
  <2>2. /\ \A k \in Key : count'[k] = IF k = key THEN 1 ELSE count[k]
        /\ \A k \in Key : values'[k] = IF k = key THEN <<calls>> ELSE values[k]
        /\ Len(<<calls>>) = 1
    BY <1>0, <1>5 DEF LinkTimer
  <2>3. CountOK' BY <1>0, <1>5, <2>1, <2>2 DEF LinkTimer
  <2>4. fl' \in {"wait", "summarise"} =>
          /\ fl \in {"wait", "summarise"} /\ timers[el] \in Key
          /\ timers'[el'] = timers[el]
    <3> SUFFICES ASSUME fl' \in {"wait", "summarise"}
                 PROVE  /\ fl \in {"wait", "summarise"} /\ timers[el] \in Key
                        /\ timers'[el'] = timers[el]
      OBVIOUS
    <3>1. /\ fl' = fl /\ el' = el /\ timers' = Append(timers, key)
      BY <1>5 DEF LinkTimer
    <3>2. el \in 1 .. Len(timers) /\ timers[el] \in Key
          /\ timers \in Seq(Key) /\ Len(timers) \in Nat
      BY <3>1, Typed
    <3>3. timers'[el] = timers[el] BY <3>1, <3>2
    <3> QED BY <3>1, <3>2, <3>3
  <2>5. TestedOK'
    <3> SUFFICES ASSUME fl' \in {"wait", "summarise"}
                 PROVE  count'[timers'[el']] > 0
      OBVIOUS
    <3>1. count'[timers[el]] = 1 \/ count'[timers[el]] = count[timers[el]]
      BY <2>2, <2>4
    <3>2. count[timers[el]] > 0 BY <2>4
    <3> QED BY <2>4, <3>1, <3>2
  <2> QED BY <2>3, <2>5
<1>6. CASE RemoveTimersLock BY <1>6 DEF RemoveTimersLock
<1>7. CASE StartPass BY <1>7 DEF StartPass
<1>8. CASE TestCount BY <1>8 DEF TestCount
<1>9. CASE WaitToSummarise BY <1>9 DEF WaitToSummarise
<1>10. CASE Summarise BY <1>10 DEF Summarise
<1>11. CASE ClearValues
  <2>1. upd # "count" BY <1>11 DEF ClearValues, LockOK, UpdHolds, FlHolds
  <2>2. \A k \in Key : values'[k] = IF k = timers[el] THEN <<>> ELSE values[k]
    BY <1>0, <1>11 DEF ClearValues
  <2> QED BY <1>0, <1>11, <2>1, <2>2 DEF ClearValues
<1>12. CASE ClearCount
  <2>1. upd # "count" BY <1>12 DEF ClearCount, LockOK, UpdHolds, FlHolds
  <2>2. \A k \in Key : count'[k] = IF k = timers[el] THEN 0 ELSE count[k]
    BY <1>0, <1>12 DEF ClearCount
  <2> QED BY <1>0, <1>12, <2>1, <2>2 DEF ClearCount
<1>13. CASE PostTimersLock BY <1>13 DEF PostTimersLock
<1>14. CASE ReportGraphite BY <1>14 DEF ReportGraphite
<1>15. CASE ReportGmetric BY <1>15 DEF ReportGmetric
<1>16. CASE NextTimer BY <1>16 DEF NextTimer
<1>17. CASE EndPass BY <1>17 DEF EndPass
<1>18. CASE UNCHANGED vars BY <1>18 DEF vars
<1> QED
  BY <1>1, <1>2, <1>3, <1>4, <1>5, <1>6, <1>7, <1>8, <1>9, <1>10, <1>11, <1>12,
     <1>13, <1>14, <1>15, <1>16, <1>17, <1>18 DEF Next, Updating, Flushing

(* The initial state satisfies the inductive invariant. *)
LEMMA InitIInv == Init => IInv
<1> SUFFICES ASSUME Init PROVE IInv
  OBVIOUS
<1>1. TypeOK BY TimerAssumption DEF Init, TypeOK
<1>2. LockOK BY DEF Init, LockOK, UpdHolds, FlHolds
<1>3. PcOK BY DEF Init, PcOK
<1>4. LookupOK BY DEF Init, LookupOK
<1>5. CountOK BY DEF Init, CountOK
<1>6. TestedOK BY DEF Init, TestedOK
<1> QED BY <1>1, <1>2, <1>3, <1>4, <1>5, <1>6 DEF IInv

(* The inductive invariant holds in every state of TimerTable. *)
THEOREM Invariance == Spec => []IInv
<1>1. IInv /\ [Next]_vars => IInv'
  BY TypeStep, LockStep, LookupStep, CountStep DEF IInv
<1> QED BY InitIInv, <1>1, PTL DEF Spec

(* Every variable keeps its type and the cursors of HASH_ITER stay in the    *)
(* list.                                                                     *)
THEOREM TypeCorrect == Spec => []TypeOK
<1>1. IInv => TypeOK BY DEF IInv
<1> QED BY Invariance, <1>1, PTL

(* The count field is the length of the array whenever the lock is free,     *)
(* although update_timer and the flush change the two one after the other.   *)
THEOREM CountAgrees == Spec => []CountMatchesValues
<1>1. IInv => CountMatchesValues
  <2> SUFFICES ASSUME IInv, timers_lock = 1, NEW k \in Key
               PROVE  count[k] = Len(values[k])
    BY DEF CountMatchesValues
  <2>1. upd # "count" /\ fl # "clear_count"
    BY DEF IInv, LockOK, UpdHolds, FlHolds
  <2> QED BY <2>1 DEF IInv, CountOK
<1> QED BY Invariance, <1>1, PTL

(* The flush tests the count before it takes the lock and still never        *)
(* summarises an empty array.                                                *)
THEOREM NothingEmptySummarised == Spec => SummaryNotEmpty
<1>1. IInv /\ [Next]_vars => [Summarise => values[timers[el]] # <<>>]_vars
  <2> SUFFICES ASSUME IInv, Summarise PROVE values[timers[el]] # <<>>
    OBVIOUS
  <2>1. /\ fl = "summarise" /\ timers[el] \in Key
        /\ count[timers[el]] > 0 /\ upd # "count"
    BY DEF Summarise, IInv, TypeOK, PcOK, TestedOK, LockOK, UpdHolds, FlHolds
  <2>2. Len(values[timers[el]]) = count[timers[el]]
    BY <2>1 DEF IInv, CountOK
  <2>3. Len(<<>>) = 0 OBVIOUS
  <2> QED BY <2>1, <2>2, <2>3
<1> QED BY Invariance, <1>1, PTL DEF Spec, SummaryNotEmpty

------------------------------------------------------------------------------
(* Every sample is reported exactly once.                                    *)

(* The samples that are still to be added. *)
Fresh(u) == u > calls \/ (u = calls /\ upd \notin {"idle", "count", "post"})

(* Where the flush is once the summary at hand has gone to b. *)
After(b) == IF b = "graphite" THEN {"gmetric", "next"} ELSE {"next"}

FreshOK ==
  \A u \in Update : Fresh(u) =>
    /\ u \notin applied
    /\ u \notin summary
    /\ \A k \in Key : u \notin SamplesOf(k)
    /\ \A b \in Backend : reported[b][u] = 0

SamplesDisjoint ==
  \A k, l \in Key : k # l => SamplesOf(k) \intersect SamplesOf(l) = {}

(* What is summarised and what is in the timers, along the pass. *)
SummaryOK ==
  /\ fl \in {"sleep", "test", "wait", "summarise"} => summary = {}
  /\ fl = "clear_values" => summary = SamplesOf(timers[el])
  /\ fl \in {"clear_count", "post", "graphite", "gmetric", "next"} =>
       \A k \in Key : summary \intersect SamplesOf(k) = {}

(* A reported sample has left its timer, and the summary at hand has been    *)
(* reported only to the back ends the pass has been at.                      *)
SentOK ==
  \A b \in Backend, u \in Update : reported[b][u] > 0 =>
    /\ \A k \in Key : u \notin SamplesOf(k)
    /\ u \in summary => fl \in After(b)

RInv ==
  /\ FreshOK /\ SamplesDisjoint /\ SummaryOK /\ SentOK
  /\ EverySampleReported

(* What a step that changes neither samples nor reports must keep. *)
LEMMA QuietStep ==
  ASSUME RInv, UNCHANGED <<values, applied, reported, summary>>,
         \A u \in Update : Fresh(u)' => Fresh(u),
         \/ UNCHANGED fl /\ (fl = "clear_values" => timers'[el'] = timers[el])
         \/ summary = {} /\ fl' \in {"sleep", "test", "wait", "summarise", "next"}
         \/ fl = "clear_count" /\ fl' = "post"
         \/ fl = "post" /\ fl' = "graphite"
  PROVE  RInv'
<1>1. \A k \in Key : SamplesOf(k)' = SamplesOf(k) BY DEF SamplesOf
<1>2. FreshOK' BY <1>1 DEF RInv, FreshOK
<1>3. SamplesDisjoint' BY <1>1 DEF RInv, SamplesDisjoint
<1>4. SummaryOK'
  <2>1. SamplesOf(timers[el])' = SamplesOf(timers'[el']) BY DEF SamplesOf
  <2> QED BY <1>1, <2>1 DEF RInv, SummaryOK
<1>5. SentOK' BY <1>1 DEF RInv, SentOK, After
<1>6. EverySampleReported'
  BY <1>1 DEF RInv, EverySampleReported, BeingReported
<1> QED BY <1>2, <1>3, <1>4, <1>5, <1>6 DEF RInv

(* Adding a fresh sample keeps the invariant. *)
LEMMA AddStep ==
  ASSUME TypeOK, RInv, UNCHANGED <<calls, reported, summary, fl>>,
         upd \notin {"idle", "count", "post"}, upd' \in {"count", "post"},
         fl # "clear_values", calls > 0,
         applied' = applied \union {calls},
         \A k \in Key : SamplesOf(k)' = IF k = key THEN SamplesOf(k) \union {calls}
                                                   ELSE SamplesOf(k)
  PROVE  RInv'
<1>1. key \in Key /\ calls \in Update /\ Fresh(calls)
  BY TimerAssumption DEF TypeOK, Update, Fresh
<1>2. /\ calls \notin applied /\ calls \notin summary
      /\ \A k \in Key : calls \notin SamplesOf(k)
      /\ \A b \in Backend : reported[b][calls] = 0
  BY <1>1 DEF RInv, FreshOK
<1>3. \A u \in Update : Fresh(u)' => Fresh(u) /\ u # calls
  BY <1>1 DEF Fresh, Update
<1>4. FreshOK' BY <1>3 DEF RInv, FreshOK
<1>5. SamplesDisjoint' BY <1>2 DEF RInv, SamplesDisjoint
<1>6. SummaryOK' BY <1>2 DEF RInv, SummaryOK
<1>7. SentOK' BY <1>2 DEF RInv, SentOK, After
<1>8. EverySampleReported'
  <2> SUFFICES ASSUME NEW b \in Backend,
                      \/ b = "graphite" /\ EnableGraphite
                      \/ b = "gmetric" /\ EnableGmetric,
                      NEW u \in applied'
               PROVE  \/ reported[b][u] = 1
                      \/ reported[b][u] = 0 /\ BeingReported(b, u)
                      \/ reported[b][u] = 0 /\ \E k \in Key : u \in SamplesOf(k)'
    BY DEF EverySampleReported, BeingReported
  <2>1. CASE u = calls BY <1>1, <1>2, <2>1
  <2>2. CASE u # calls
    <3>1. u \in applied BY <2>2
    <3> QED BY <3>1 DEF RInv, EverySampleReported
  <2> QED BY <2>1, <2>2
<1> QED BY <1>4, <1>5, <1>6, <1>7, <1>8 DEF RInv

(* Sending the summary to a back end keeps the invariant. *)
LEMMA ReportingStep ==
  ASSUME TypeOK, el # 0, RInv, NEW b \in Backend, Report(b),
         fl = b, fl' \in After(b),
         b = "graphite" => fl' = "gmetric",
         UNCHANGED <<timers, values, upd, calls, el, summary, applied>>
  PROVE  RInv'
<1>1. \A c \in Backend, u \in Update :
        reported'[c][u] = IF c = b /\ u \in summary THEN reported[c][u] + 1
                                                     ELSE reported[c][u]
  BY ReportStep
<1>2. \A k \in Key : SamplesOf(k)' = SamplesOf(k) BY DEF SamplesOf
<1>3. \A u \in summary : u \in Update /\ reported[b][u] = 0
  <2>1. \A u \in Update : reported[b][u] \in Nat BY DEF TypeOK
  <2>2. fl \notin After(b) BY DEF After, Backend
  <2> QED BY <2>1, <2>2 DEF TypeOK, RInv, SentOK
<1>4. FreshOK' BY <1>1, <1>2 DEF RInv, FreshOK, Fresh
<1>5. SamplesDisjoint' BY <1>2 DEF RInv, SamplesDisjoint
<1>6. /\ \A k \in Key : summary \intersect SamplesOf(k) = {}
      /\ fl' \in {"gmetric", "next"}
  BY DEF RInv, SummaryOK, Backend, After
<1>7. SummaryOK' BY <1>2, <1>6 DEF SummaryOK
<1>8. SentOK'
  <2>1. \A c \in Backend : fl \in After(c) => fl' \in After(c)
    BY DEF After, Backend
  <2> QED BY <1>1, <1>2, <1>6, <2>1 DEF RInv, SentOK, After
<1>9. EverySampleReported'
  <2> SUFFICES ASSUME NEW c \in Backend,
                      \/ c = "graphite" /\ EnableGraphite
                      \/ c = "gmetric" /\ EnableGmetric,
                      NEW u \in applied
               PROVE  \/ reported'[c][u] = 1
                      \/ reported'[c][u] = 0 /\ BeingReported(c, u)'
                      \/ reported'[c][u] = 0 /\ \E k \in Key : u \in SamplesOf(k)
    BY <1>2 DEF EverySampleReported
  <2>0. u \in Update BY DEF TypeOK
  <2>1. \/ reported[c][u] = 1
        \/ reported[c][u] = 0 /\ BeingReported(c, u)
        \/ reported[c][u] = 0 /\ \E k \in Key : u \in SamplesOf(k)
    BY DEF RInv, EverySampleReported
  <2>2. CASE c = b /\ u \in summary
    BY <1>1, <1>3, <2>0, <2>2
  <2>3. CASE ~(c = b /\ u \in summary)
    <3>1. reported'[c][u] = reported[c][u] BY <1>1, <2>0, <2>3
    <3>2. BeingReported(c, u) => BeingReported(c, u)'
      BY <2>3 DEF BeingReported, Backend
    <3> QED BY <2>1, <3>1, <3>2
  <2> QED BY <2>2, <2>3
<1> QED BY <1>4, <1>5, <1>7, <1>8, <1>9 DEF RInv

(* Passing by a back end that is not in use keeps the invariant. *)
LEMMA IdleReportStep ==
  ASSUME TypeOK, RInv,
         \/ fl = "graphite" /\ fl' = "gmetric" /\ ~EnableGraphite
         \/ fl = "gmetric" /\ fl' = "next" /\ ~EnableGmetric,
         UNCHANGED <<timers, values, upd, calls, el, summary, applied, reported>>
  PROVE  RInv'
<1>1. \A k \in Key : SamplesOf(k)' = SamplesOf(k) BY DEF SamplesOf
<1>2. FreshOK' BY <1>1 DEF RInv, FreshOK, Fresh
<1>3. SamplesDisjoint' BY <1>1 DEF RInv, SamplesDisjoint
<1>4. SummaryOK' BY <1>1 DEF RInv, SummaryOK
<1>5. SentOK'
  <2>1. \A b \in Backend : fl \in After(b) => fl' \in After(b)
    BY DEF After, Backend
  <2> QED BY <1>1, <2>1 DEF RInv, SentOK, After
<1>6. EverySampleReported'
  BY <1>1 DEF RInv, EverySampleReported, BeingReported, Backend
<1> QED BY <1>2, <1>3, <1>4, <1>5, <1>6 DEF RInv

(* Taking and clearing the samples under the lock keeps the invariant: what  *)
(* is cleared is what was summarised.                                        *)
LEMMA TakingStep ==
  ASSUME TypeOK, PcOK, RInv, Summarise \/ ClearValues
  PROVE  RInv'
<1> USE DEF updVars
<1>1. CASE Summarise
  <2>1. /\ fl = "summarise" /\ fl' = "clear_values" /\ timers[el] \in Key
        /\ summary = {} /\ summary' = SamplesOf(timers[el])
        /\ UNCHANGED <<timers, values, upd, calls, applied, el, reported>>
    <3>1. fl = "summarise" BY <1>1 DEF Summarise
    <3>2. timers[el] \in Key BY <3>1, Typed
    <3>3. summary = {} BY <3>1 DEF RInv, SummaryOK
    <3> QED BY <1>1, <3>2, <3>3 DEF Summarise, tableVars
  <2>2. \A k \in Key : SamplesOf(k)' = SamplesOf(k) BY <2>1 DEF SamplesOf
  <2>3. FreshOK' BY <2>1, <2>2 DEF RInv, FreshOK, Fresh
  <2>4. SamplesDisjoint' BY <2>2 DEF RInv, SamplesDisjoint
  <2>5. SummaryOK' BY <2>1, <2>2 DEF SummaryOK
  <2>6. SentOK' BY <2>1, <2>2 DEF RInv, SentOK
  <2>7. EverySampleReported'
    BY <2>1, <2>2 DEF RInv, EverySampleReported, BeingReported
  <2> QED BY <2>3, <2>4, <2>5, <2>6, <2>7 DEF RInv
<1>2. CASE ClearValues
  <2>1. /\ fl = "clear_values" /\ fl' = "clear_count" /\ timers[el] \in Key
        /\ summary = SamplesOf(timers[el])
        /\ values' = [values EXCEPT ![timers[el]] = <<>>]
        /\ UNCHANGED <<timers, upd, calls, applied, el, summary, reported>>
    BY <1>2 DEF ClearValues, TypeOK, PcOK, RInv, SummaryOK
  <2>2. \A k \in Key : SamplesOf(k)' = IF k = timers[el] THEN {}
                                                         ELSE SamplesOf(k)
    BY <2>1 DEF SamplesOf, TypeOK
  <2>3. FreshOK' BY <2>1, <2>2 DEF RInv, FreshOK, Fresh
  <2>4. SamplesDisjoint' BY <2>2 DEF RInv, SamplesDisjoint
  <2>5. SummaryOK' BY <2>1, <2>2 DEF RInv, SummaryOK, SamplesDisjoint
  <2>6. SentOK' BY <2>1, <2>2 DEF RInv, SentOK
  <2>7. EverySampleReported'
    <3> SUFFICES ASSUME NEW b \in Backend,
                        \/ b = "graphite" /\ EnableGraphite
                        \/ b = "gmetric" /\ EnableGmetric,
                        NEW u \in applied
                 PROVE  \/ reported[b][u] = 1
                        \/ reported[b][u] = 0 /\ BeingReported(b, u)'
                        \/ /\ reported[b][u] = 0
                           /\ \E k \in Key : u \in SamplesOf(k)'
      BY <2>1 DEF EverySampleReported
    <3>1. u \in summary => BeingReported(b, u)'
      BY <2>1 DEF BeingReported
    <3>2. u \notin summary => ~BeingReported(b, u) BY DEF BeingReported
    <3> QED BY <2>1, <2>2, <3>1, <3>2 DEF RInv, EverySampleReported
  <2> QED BY <2>3, <2>4, <2>5, <2>6, <2>7 DEF RInv
<1> QED BY <1>1, <1>2

(* The samples at hand are let go when every back end in use has them. *)
LEMMA LettingGoStep ==
  ASSUME RInv, NextTimer
  PROVE  RInv'
<1>1. /\ fl = "next" /\ fl' = "test" /\ summary' = {}
      /\ UNCHANGED <<timers, values, upd, calls, applied, reported>>
  BY DEF NextTimer, tableVars, updVars
<1>2. \A k \in Key : SamplesOf(k)' = SamplesOf(k) BY <1>1 DEF SamplesOf
<1>3. FreshOK' BY <1>1, <1>2 DEF RInv, FreshOK, Fresh
<1>4. SamplesDisjoint' BY <1>2 DEF RInv, SamplesDisjoint
<1>5. SummaryOK' BY <1>1 DEF SummaryOK
<1>6. SentOK' BY <1>1, <1>2 DEF RInv, SentOK
<1>7. EverySampleReported'
  BY <1>1, <1>2 DEF RInv, EverySampleReported, BeingReported
<1> QED BY <1>3, <1>4, <1>5, <1>6, <1>7 DEF RInv

(* Every step keeps the invariant. *)
LEMMA RStep ==
  ASSUME TypeOK, LockOK, PcOK, LookupOK, RInv, [Next]_vars
  PROVE  RInv'
<1> USE DEF tableVars, updVars, flVars
<1>1. ASSUME NEW k \in Key, FindTimer(k) PROVE RInv'
  <2>1. \A u \in Update : Fresh(u)' => Fresh(u)
    BY <1>1 DEF FindTimer, Fresh, Update, TypeOK
  <2> QED BY <1>1, <2>1, QuietStep DEF FindTimer
<1>2. CASE WaitTimersLock BY <1>2, QuietStep DEF WaitTimersLock, Fresh
<1>3. CASE PushSample
  <2>1. /\ upd = "push" /\ fl # "clear_values" /\ calls > 0 /\ calls \in Update
    BY <1>3, TimerAssumption
    DEF PushSample, LockOK, UpdHolds, FlHolds, PcOK, TypeOK, Update
  <2>2. \A k \in Key : SamplesOf(k)' = IF k = key THEN SamplesOf(k) \union {calls}
                                                  ELSE SamplesOf(k)
    <3> SUFFICES ASSUME NEW k \in Key
                 PROVE  SamplesOf(k)' = IF k = key
                                        THEN SamplesOf(k) \union {calls}
                                        ELSE SamplesOf(k)
      OBVIOUS
    <3>1. values[k] \in Seq(Update) /\ values \in [Key -> Seq(Update)]
      BY DEF TypeOK
    <3>2. values'[k] = IF k = key THEN Append(values[k], calls) ELSE values[k]
      BY <1>3, <3>1 DEF PushSample
    <3>3. CASE k # key BY <3>2, <3>3 DEF SamplesOf
    <3>4. CASE k = key
      <4>1. /\ DOMAIN values'[k] = 1 .. Len(values[k]) + 1
            /\ DOMAIN values[k] = 1 .. Len(values[k])
            /\ Len(values[k]) \in Nat
            /\ \A i \in DOMAIN values[k] : values'[k][i] = values[k][i]
            /\ values'[k][Len(values[k]) + 1] = calls
        BY <2>1, <3>1, <3>2, <3>4
      <4>2. DOMAIN values'[k] = DOMAIN values[k] \union {Len(values[k]) + 1}
        BY <4>1
      <4> QED BY <3>4, <4>1, <4>2 DEF SamplesOf
    <3> QED BY <3>3, <3>4
  <2> QED BY <1>3, <2>1, <2>2, AddStep DEF PushSample
<1>4. CASE CountSample BY <1>4, QuietStep DEF CountSample, Fresh
<1>5. CASE LinkTimer
  <2>1. /\ upd = "link" /\ fl # "clear_values" /\ calls > 0
        /\ values[key] = <<>> /\ key \in Key
        /\ values \in [Key -> Seq(Update)]
        /\ values' = [values EXCEPT ![key] = <<calls>>]
    BY <1>5
    DEF LinkTimer, LockOK, UpdHolds, FlHolds, PcOK, LookupOK, TypeOK
  <2>2. \A k \in Key : SamplesOf(k)' = IF k = key THEN SamplesOf(k) \union {calls}
                                                  ELSE SamplesOf(k)
    <3> SUFFICES ASSUME NEW k \in Key
                 PROVE  SamplesOf(k)' = IF k = key
                                        THEN SamplesOf(k) \union {calls}
                                        ELSE SamplesOf(k)
      OBVIOUS
    <3>1. CASE k # key
      <4>1. values'[k] = values[k] BY <2>1, <3>1
      <4> QED BY <3>1, <4>1 DEF SamplesOf
    <3>2. CASE k = key
      <4>1. values'[k] = <<calls>> BY <2>1, <3>2
      <4>2. SamplesOf(k)' = {calls} BY <4>1 DEF SamplesOf
      <4>3. SamplesOf(k) = {} BY <2>1, <3>2 DEF SamplesOf
      <4> QED BY <3>2, <4>2, <4>3
    <3> QED BY <3>1, <3>2
  <2> QED BY <1>5, <2>1, <2>2, AddStep DEF LinkTimer
<1>6. CASE RemoveTimersLock BY <1>6, QuietStep DEF RemoveTimersLock, Fresh
<1>7. CASE StartPass
  <2>1. summary = {} BY <1>7 DEF StartPass, RInv, SummaryOK
  <2> QED BY <1>7, <2>1, QuietStep DEF StartPass, Fresh
<1>8. CASE TestCount
  <2>1. summary = {} BY <1>8 DEF TestCount, RInv, SummaryOK
  <2> QED BY <1>8, <2>1, QuietStep DEF TestCount, Fresh
<1>9. CASE WaitToSummarise
  <2>1. summary = {} BY <1>9 DEF WaitToSummarise, RInv, SummaryOK
  <2> QED BY <1>9, <2>1, QuietStep DEF WaitToSummarise, Fresh
<1>10. CASE Summarise BY <1>10, TakingStep
<1>11. CASE ClearValues BY <1>11, TakingStep
<1>12. CASE ClearCount BY <1>12, QuietStep DEF ClearCount, Fresh
<1>13. CASE PostTimersLock BY <1>13, QuietStep DEF PostTimersLock, Fresh
<1>14. CASE ReportGraphite
  <2>1. CASE EnableGraphite
    BY <1>14, <2>1, ReportingStep DEF ReportGraphite, After, Backend, PcOK
  <2>2. CASE ~EnableGraphite
    BY <1>14, <2>2, IdleReportStep DEF ReportGraphite
  <2> QED BY <2>1, <2>2
<1>15. CASE ReportGmetric
  <2>1. CASE EnableGmetric
    BY <1>15, <2>1, ReportingStep DEF ReportGmetric, After, Backend, PcOK
  <2>2. CASE ~EnableGmetric
    BY <1>15, <2>2, IdleReportStep DEF ReportGmetric
  <2> QED BY <2>1, <2>2
<1>16. CASE NextTimer BY <1>16, LettingGoStep
<1>17. CASE EndPass
  <2>1. summary = {} BY <1>17 DEF EndPass, RInv, SummaryOK
  <2> QED BY <1>17, <2>1, QuietStep DEF EndPass, Fresh
<1>18. CASE UNCHANGED vars BY <1>18, QuietStep DEF vars, Fresh
<1> QED
  BY <1>1, <1>2, <1>3, <1>4, <1>5, <1>6, <1>7, <1>8, <1>9, <1>10, <1>11, <1>12,
     <1>13, <1>14, <1>15, <1>16, <1>17, <1>18 DEF Next, Updating, Flushing

(* Each sample is reported exactly once to each back end in use, whatever    *)
(* update_timer does while the flush is in its pass.                         *)
THEOREM SamplesReported == Spec => []EverySampleReported
<1>1. Init => RInv
  <2> SUFFICES ASSUME Init PROVE RInv
    OBVIOUS
  <2>1. /\ \A b \in Backend, u \in Update : reported[b][u] = 0
        /\ \A k \in Key : SamplesOf(k) = {}
        /\ applied = {} /\ summary = {} /\ fl = "sleep"
    BY DEF Init, SamplesOf
  <2> QED BY <2>1 DEF RInv, FreshOK, SamplesDisjoint, SummaryOK, SentOK,
                      EverySampleReported
<1>2. IInv /\ RInv /\ [Next]_vars => RInv' BY RStep DEF IInv
<1>3. RInv => EverySampleReported BY DEF RInv
<1> QED BY Invariance, <1>1, <1>2, <1>3, PTL DEF Spec

==============================================================================
