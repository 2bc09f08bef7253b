--------------------------- MODULE ShutdownProofs ---------------------------
(***************************************************************************)
(* Proofs about Shutdown, for a daemon or not and any number of signals    *)
(* and updates.                                                            *)
(***************************************************************************)
EXTENDS Shutdown, FiniteSetTheorems, SequenceTheorems, TLAPS

(* The variables that cleanup reads. *)
TypesOK ==
  /\ cleanups \in [Runner -> Seq(Frame)]
  /\ content \in [Kept -> SUBSET Nat]
  /\ calls \in Nat /\ cancelled \in SUBSET Thread
  /\ signals \in Nat /\ Len(cleanups["main"]) <= signals

(* What is in the tables and not in the copy is the update during which the  *)
(* queue thread was cancelled: it cannot begin another one.                  *)
Misses(copy, t) == content[t] \ copy[t] \subseteq {calls}

(* One call of cleanup.  It has copied the tables before its next one.       *)
FrameOK(f) ==
  /\ f.at \in {"cancel", "close"} => f.next = 1
  /\ f.at # "cancel" => cancelled = Thread
  /\ f.at \in {"wait", "save"} => f.next <= 4
  /\ f.at \in {"open", "write", "buffered", "begun", "exit", "unsaved"} =>
       f.next = 5
  /\ f.next > 2 => Misses(f.copy, "timers")
  /\ f.next > 3 => Misses(f.copy, "counters")
FramesOK ==
  \A r \in Runner : \A i \in DOMAIN cleanups[r] : FrameOK(cleanups[r][i])

(* The UDP thread cancels itself and gets no further than to the log.        *)
UdpStuck ==
  \A i \in DOMAIN cleanups["udp"] :
    cleanups["udp"][i].at \in {"cancel", "close"}

(* What fclose or the exit of a nested handler leaves in the file.           *)
Saved ==
  \/ file.is = "cut"
  \/ file.is = "mixed" /\ signals > 1
  \/ file.is = "whole" /\ \A t \in Kept : Misses(file.copy, t)
SavedOK ==
  /\ cleanups["main"] # <<>> /\ Top("main").at = "exit" => Saved
  /\ how = "exit" => Saved

SaveInv == TypesOK /\ FramesOK /\ UdpStuck /\ SavedOK

------------------------------------------------------------------------------
LEMMA SavedEnough ==
  ASSUME SaveInv PROVE AtMostOneUpdateMissed
<1> SUFFICES ASSUME how = "exit" PROVE AtMostOneUpdateMissed
  BY DEF AtMostOneUpdateMissed
<1>1. Saved BY DEF SaveInv, SavedOK
<1> SUFFICES ASSUME file.is = "whole" PROVE AtMostOneUpdateMissed
  BY <1>1 DEF Saved, AtMostOneUpdateMissed
<1> DEFINE missed == UNION {content[t] \ file.copy[t] : t \in Kept}
<1>2. missed \subseteq {calls} BY <1>1 DEF Saved, Misses
<1>3. IsFiniteSet({calls}) /\ Cardinality({calls}) = 1 BY FS_Singleton
<1>4. Cardinality(missed) <= 1 BY <1>2, <1>3, FS_Subset
<1> QED BY <1>1, <1>4 DEF AtMostOneUpdateMissed, Saved

(* The last frame of a runner. *)
LEMMA TopIs ==
  ASSUME TypesOK, NEW r \in Runner, cleanups[r] # <<>>
  PROVE  /\ Len(cleanups[r]) \in 1 .. Len(cleanups[r])
         /\ Top(r) \in Frame /\ DOMAIN cleanups[r] = 1 .. Len(cleanups[r])
<1>1. cleanups[r] \in Seq(Frame) BY DEF TypesOK
<1>2. Len(cleanups[r]) \in Nat \ {0} BY <1>1
<1> QED BY <1>1, <1>2, ElementOfSeq DEF Top

(* A step within cleanup replaces the last frame of its runner. *)
LEMMA GoOnIs ==
  ASSUME TypesOK, NEW r \in Runner, cleanups[r] # <<>>, NEW f \in Frame,
         GoOn(r, f)
  PROVE  /\ cleanups' \in [Runner -> Seq(Frame)]
         /\ cleanups'[r] # <<>> /\ Len(cleanups'[r]) = Len(cleanups[r])
         /\ DOMAIN cleanups'[r] = DOMAIN cleanups[r]
         /\ cleanups'[r][Len(cleanups[r])] = f
         /\ \A i \in DOMAIN cleanups[r] : i # Len(cleanups[r]) =>
              cleanups'[r][i] = cleanups[r][i]
         /\ \A s \in Runner \ {r} : cleanups'[s] = cleanups[s]
<1> DEFINE c == [cleanups[r] EXCEPT ![Len(cleanups[r])] = f]
<1>1. cleanups[r] \in Seq(Frame) BY DEF TypesOK
<1>2. /\ c \in Seq(Frame) /\ Len(c) = Len(cleanups[r])
      /\ DOMAIN c = DOMAIN cleanups[r] /\ c[Len(cleanups[r])] = f
      /\ \A i \in DOMAIN cleanups[r] : i # Len(cleanups[r]) =>
           c[i] = cleanups[r][i]
  BY <1>1, TopIs
<1>3. c # <<>> BY <1>1, <1>2
<1>4. cleanups' = [cleanups EXCEPT ![r] = c] BY DEF GoOn
<1> HIDE DEF c
<1> QED BY <1>2, <1>3, <1>4 DEF TypesOK

LEMMA FrameStep ==
  ASSUME SaveInv, NEW r \in Runner, cleanups[r] # <<>>, NEW f \in Frame,
         GoOn(r, f), UNCHANGED <<content, calls, signals>>, how' = "running",
         cancelled' = cancelled \/ cancelled' = Thread,
         f.at \in {"cancel", "close"} => f.next = 1,
         f.at # "cancel" => cancelled' = Thread,
         f.at \in {"wait", "save"} => f.next <= 4,
         f.at \in {"open", "write", "buffered", "begun", "exit", "unsaved"} =>
           f.next = 5,
         f.next > 2 => Misses(f.copy, "timers"),
         f.next > 3 => Misses(f.copy, "counters"),
         r = "udp" => f.at \in {"cancel", "close"} /\ file' = file,
         r = "main" /\ f.at = "exit" => Saved'
  PROVE  SaveInv'
<1>1. /\ cleanups' \in [Runner -> Seq(Frame)]
      /\ cleanups'[r] # <<>> /\ Len(cleanups'[r]) = Len(cleanups[r])
      /\ DOMAIN cleanups'[r] = DOMAIN cleanups[r]
      /\ cleanups'[r][Len(cleanups[r])] = f
      /\ \A i \in DOMAIN cleanups[r] : i # Len(cleanups[r]) =>
           cleanups'[r][i] = cleanups[r][i]
      /\ \A s \in Runner \ {r} : cleanups'[s] = cleanups[s]
  BY GoOnIs DEF SaveInv
<1>2. TypesOK'
  <2>1. Len(cleanups'["main"]) = Len(cleanups["main"]) BY <1>1 DEF Runner
  <2> QED BY <1>1, <2>1 DEF SaveInv, TypesOK
<1>3. ASSUME NEW g, FrameOK(g) PROVE FrameOK(g)'
  BY <1>3 DEF FrameOK, Misses
<1>4. FrameOK(f)' BY DEF FrameOK, Misses
<1>5. FramesOK' BY <1>1, <1>3, <1>4 DEF SaveInv, FramesOK
<1>6. UdpStuck' BY <1>1 DEF SaveInv, UdpStuck, Runner
<1>7. SavedOK'
  <2>1. CASE r = "main"
    <3>1. Top("main")' = f BY <1>1, <2>1 DEF Top
    <3> QED BY <2>1, <3>1 DEF SavedOK
  <2>2. CASE r = "udp"
    <3>1. cleanups'["main"] = cleanups["main"] BY <1>1, <2>2 DEF Runner
    <3>2. Top("main")' = Top("main") BY <3>1 DEF Top
    <3>3. Saved' <=> Saved BY <2>2 DEF Saved, Misses
    <3> QED BY <3>1, <3>2, <3>3 DEF SaveInv, SavedOK
  <2> QED BY <2>1, <2>2 DEF Runner
<1> QED BY <1>2, <1>5, <1>6, <1>7 DEF SaveInv

(* What the top frame of a runner is, where it takes a step.                 *)
LEMMA CleaningIs ==
  ASSUME SaveInv, NEW r \in Runner, NEW step, Cleaning(r, step)
  PROVE  /\ how = "running" /\ cleanups[r] # <<>> /\ Top(r) \in Frame
         /\ Top(r).at = step /\ FrameOK(Top(r))
         /\ step \notin {"cancel", "close"} => r = "main"
<1>1. how = "running" /\ cleanups[r] # <<>> /\ Top(r).at = step
  BY DEF Cleaning
<1>2. /\ Len(cleanups[r]) \in DOMAIN cleanups[r] /\ Top(r) \in Frame
  BY <1>1, TopIs DEF SaveInv
<1>3. FrameOK(Top(r)) BY <1>2 DEF SaveInv, FramesOK, Top
<1>4. r = "udp" => step \in {"cancel", "close"}
  BY <1>1, <1>2 DEF SaveInv, UdpStuck, Top
<1> QED BY <1>1, <1>2, <1>3, <1>4 DEF Runner

(* A step that leaves the calls of cleanup, the tables and the file alone.   *)
LEMMA Unmoved ==
  ASSUME SaveInv,
         UNCHANGED <<cleanups, content, calls, cancelled, file, signals>>,
         how' = "exit" => how = "exit" \/ Saved
  PROVE  SaveInv'
<1>1. TypesOK' /\ UdpStuck' BY DEF SaveInv, TypesOK, UdpStuck
<1>2. \A f : FrameOK(f)' <=> FrameOK(f) BY DEF FrameOK, Misses
<1>3. FramesOK' BY <1>2 DEF SaveInv, FramesOK
<1>4. Saved' <=> Saved BY DEF Saved, Misses
<1>5. SavedOK' BY <1>4 DEF SaveInv, SavedOK, Top
<1> QED BY <1>1, <1>3, <1>5 DEF SaveInv

(* exit: what an interrupted handler had in its FILE is a copy like its own, *)
(* and it is there because there was another signal.                         *)
LEMMA ExitStep ==
  ASSUME SaveInv, NEW r \in Runner, ExitProcess(r) PROVE SaveInv'
<1>1. PICK at \in {"exit", "unsaved"} :
        Cleaning(r, at) /\ (at = "unsaved" => how' = "exit_unsaved")
  BY DEF ExitProcess
<1>2. r = "main" /\ cleanups[r] # <<>> /\ Top(r).at = at
  BY <1>1, CleaningIs
<1>3. UNCHANGED <<cleanups, content, calls, cancelled, signals>>
  BY DEF ExitProcess, dataVars
<1>4. TypesOK' /\ UdpStuck' BY <1>3 DEF SaveInv, TypesOK, UdpStuck
<1>5. \A f : FrameOK(f)' <=> FrameOK(f) BY <1>3 DEF FrameOK, Misses
<1>6. FramesOK' BY <1>3, <1>5 DEF SaveInv, FramesOK
<1>7. ASSUME at = "exit" PROVE Saved'
  <2>1. Saved BY <1>2, <1>7 DEF SaveInv, SavedOK
  <2>2. ASSUME NEW f \in Interrupted(r)
        PROVE  /\ signals > 1
               /\ \A t \in Kept : Misses(f.copy, t)
    <3>1. PICK i \in 1 .. Len(cleanups[r]) - 1 :
            f = cleanups[r][i] /\ f.at \in {"buffered", "begun"}
      BY DEF Interrupted
    <3>2. /\ DOMAIN cleanups[r] = 1 .. Len(cleanups[r])
          /\ Len(cleanups[r]) \in 1 .. Len(cleanups[r])
      BY <1>2, TopIs DEF SaveInv
    <3>3. i \in DOMAIN cleanups[r] /\ Len(cleanups[r]) > 1 BY <3>1, <3>2
    <3>4. FrameOK(f) BY <3>1, <3>3 DEF SaveInv, FramesOK
    <3>5. f.next = 5 BY <3>1, <3>4 DEF FrameOK
    <3>6. Misses(f.copy, "timers") /\ Misses(f.copy, "counters")
      BY <3>4, <3>5 DEF FrameOK
    <3>7. signals \in Nat /\ Len(cleanups["main"]) <= signals
      BY DEF SaveInv, TypesOK
    <3> QED BY <1>2, <3>2, <3>3, <3>6, <3>7 DEF Kept
  <2>3. CASE file' = file
    <3> QED BY <1>3, <2>1, <2>3 DEF Saved, Misses
  <2>4. CASE \E f \in Interrupted(r) :
               file' = [is |-> "whole", copy |-> f.copy]
    <3>1. PICK f \in Interrupted(r) :
            file' = [is |-> "whole", copy |-> f.copy]
      BY <2>4
    <3>2. file'.is = "whole" /\ file'.copy = f.copy BY <3>1
    <3>3. \A t \in Kept : Misses(f.copy, t) BY <2>2
    <3> QED BY <1>3, <3>2, <3>3 DEF Saved, Misses
  <2>5. CASE \E f \in Interrupted(r) :
               file' = [is |-> "mixed", copy |-> Nothing]
    <3>1. signals > 1 /\ file'.is = "mixed" BY <2>2, <2>5
    <3> QED BY <1>3, <3>1 DEF Saved
  <2> QED BY <2>3, <2>4, <2>5 DEF ExitProcess, FlushFiles
<1>8. SavedOK'
  <2>1. Top("main")' = Top("main") BY <1>3 DEF Top
  <2>2. how' = "exit" => at = "exit" BY <1>1
  <2> QED BY <1>2, <1>3, <1>7, <2>1, <2>2 DEF SavedOK
<1> QED BY <1>4, <1>6, <1>8 DEF SaveInv

LEMMA CleanupStep ==
  ASSUME SaveInv, NEW r \in Runner, Cleanup(r) PROVE SaveInv'
<1> USE DEF dataVars
<1>1. CASE CancelThreads(r) /\ how' = how
  <2>1. Cleaning(r, "cancel") BY <1>1 DEF CancelThreads
  <2>2. /\ how = "running" /\ cleanups[r] # <<>> /\ Top(r) \in Frame
        /\ Top(r).at = "cancel" /\ FrameOK(Top(r))
    BY <2>1, CleaningIs
  <2> DEFINE f == [Top(r) EXCEPT !.at = "close"]
  <2>3. f \in Frame /\ f.at = "close" /\ f.next = 1
    BY <2>2 DEF Frame, Stage, FrameOK
  <2>4. CASE created = Len(CreateOrder)
    <3>1. /\ GoOn(r, f) /\ cancelled' = Thread
          /\ UNCHANGED <<content, calls, file, signals>>
      BY <1>1, <2>4 DEF CancelThreads
    <3> HIDE DEF f
    <3> QED BY <1>1, <2>2, <2>3, <3>1, FrameStep
  <2>5. CASE created # Len(CreateOrder)
    BY <1>1, <2>2, <2>5 DEF CancelThreads
  <2> QED BY <2>4, <2>5
<1>2. CASE CancelThreads(r) /\ how' = "crash"
  <2>1. Cleaning(r, "cancel") /\ how = "running"
    BY <1>2 DEF CancelThreads, Cleaning
  <2>2. UNCHANGED <<cleanups, content, calls, cancelled, file, signals>>
    BY <1>2, <2>1 DEF CancelThreads
  <2> QED BY <1>2, <2>2, Unmoved
<1>3. CASE CloseSocket(r)
  <2>1. Cleaning(r, "close") BY <1>3 DEF CloseSocket
  <2>2. /\ how = "running" /\ cleanups[r] # <<>> /\ Top(r) \in Frame
        /\ Top(r).at = "close" /\ FrameOK(Top(r))
    BY <2>1, CleaningIs
  <2>3. r = "main" BY <1>3, <2>2 DEF CloseSocket, FrameOK, Runner, Thread
  <2> DEFINE f == [Top(r) EXCEPT !.at = "wait"]
  <2>4. /\ f \in Frame /\ f.at = "wait" /\ f.next = Top(r).next
        /\ f.copy = Top(r).copy
    BY <2>2 DEF Frame, Stage
  <2>5. GoOn(r, f) /\ UNCHANGED <<content, calls, file, cancelled, signals, how>>
    BY <1>3 DEF CloseSocket
  <2> HIDE DEF f
  <2> QED BY <2>2, <2>3, <2>4, <2>5, FrameStep DEF FrameOK
<1>4. CASE WaitToSave(r)
  <2>1. Cleaning(r, "wait") BY <1>4 DEF WaitToSave
  <2>2. /\ how = "running" /\ cleanups[r] # <<>> /\ Top(r) \in Frame
        /\ Top(r).at = "wait" /\ FrameOK(Top(r)) /\ r = "main"
    BY <2>1, CleaningIs
  <2> DEFINE f == [Top(r) EXCEPT !.at = "save"]
  <2>4. /\ f \in Frame /\ f.at = "save" /\ f.next = Top(r).next
        /\ f.copy = Top(r).copy
    BY <2>2 DEF Frame, Stage
  <2>5. GoOn(r, f) /\ UNCHANGED <<content, calls, file, cancelled, signals, how>>
    BY <1>4 DEF WaitToSave
  <2> HIDE DEF f
  <2> QED BY <2>2, <2>4, <2>5, FrameStep DEF FrameOK
<1>5. CASE SaveTable(r)
  <2>1. Cleaning(r, "save") BY <1>5 DEF SaveTable
  <2>2. /\ how = "running" /\ cleanups[r] # <<>> /\ Top(r) \in Frame
        /\ Top(r).at = "save" /\ FrameOK(Top(r)) /\ r = "main"
    BY <2>1, CleaningIs
  <2> DEFINE t == SaveOrder[Top(r).next]
             f == [at   |-> IF Top(r).next = Len(SaveOrder) THEN "open"
                            ELSE "wait",
                   next |-> Top(r).next + 1,
                   copy |-> IF t \in Kept
                            THEN [Top(r).copy EXCEPT ![t] = content[t]]
                            ELSE Top(r).copy]
  <2>3. Top(r).next \in 1 .. 4 /\ Top(r).copy \in [Kept -> SUBSET Nat]
    BY <2>2 DEF Frame, FrameOK
  <2>4. content \in [Kept -> SUBSET Nat] BY DEF SaveInv, TypesOK
  <2>5. f.copy \in [Kept -> SUBSET Nat] BY <2>3, <2>4
  <2>6. Len(SaveOrder) = 4 BY DEF SaveOrder
  <2>7. /\ f.at \in {"open", "wait"} /\ f.next \in 2 .. 5
        /\ f.at = "wait" => f.next <= 4
        /\ f.at = "open" => f.next = 5
    BY <2>3, <2>6
  <2>8. f \in Frame BY <2>5, <2>7 DEF Frame, Stage
  <2>9. f.next > 2 => Misses(f.copy, "timers")
    <3>1. CASE t = "timers"
      <4>1. f.copy["timers"] = content["timers"] BY <2>3, <3>1 DEF Kept
      <4> QED BY <4>1 DEF Misses
    <3>2. CASE t # "timers"
      <4>1. Top(r).next # 2 BY <3>2 DEF SaveOrder
      <4>2. f.copy["timers"] = Top(r).copy["timers"] BY <2>3, <3>2 DEF Kept
      <4>3. f.next > 2 => Top(r).next > 2 BY <2>3, <4>1
      <4> QED BY <2>2, <4>2, <4>3 DEF FrameOK, Misses
    <3> QED BY <3>1, <3>2
  <2>10. f.next > 3 => Misses(f.copy, "counters")
    <3>1. CASE t = "counters"
      <4>1. f.copy["counters"] = content["counters"] BY <2>3, <3>1 DEF Kept
      <4> QED BY <4>1 DEF Misses
    <3>2. CASE t # "counters"
      <4>1. Top(r).next # 3 BY <3>2 DEF SaveOrder
      <4>2. f.copy["counters"] = Top(r).copy["counters"]
        BY <2>3, <3>2 DEF Kept
      <4>3. f.next > 3 => Top(r).next > 3 BY <2>3, <4>1
      <4> QED BY <2>2, <4>2, <4>3 DEF FrameOK, Misses
    <3> QED BY <3>1, <3>2
  <2>11. GoOn(r, f) /\ UNCHANGED <<content, calls, file, cancelled, signals, how>>
    BY <1>5 DEF SaveTable
  <2>12. cancelled = Thread BY <2>2 DEF FrameOK
  <2> HIDE DEF f
  <2> QED
    BY <2>2, <2>7, <2>8, <2>9, <2>10, <2>11, <2>12, FrameStep
<1>6. CASE OpenFile(r)
  <2>1. Cleaning(r, "open") BY <1>6 DEF OpenFile
  <2>2. /\ how = "running" /\ cleanups[r] # <<>> /\ Top(r) \in Frame
        /\ Top(r).at = "open" /\ FrameOK(Top(r)) /\ r = "main"
    BY <2>1, CleaningIs
  <2> DEFINE f == [Top(r) EXCEPT !.at = "write"]
  <2>4. /\ f \in Frame /\ f.at = "write" /\ f.next = Top(r).next
        /\ f.copy = Top(r).copy
    BY <2>2 DEF Frame, Stage
  <2>5. GoOn(r, f) /\ UNCHANGED <<content, calls, cancelled, signals, how>>
    BY <1>6 DEF OpenFile
  <2> HIDE DEF f
  <2> QED BY <2>2, <2>4, <2>5, FrameStep DEF FrameOK
<1>7. CASE OpenFails(r)
  <2>1. Cleaning(r, "open") BY <1>7 DEF OpenFails
  <2>2. /\ how = "running" /\ cleanups[r] # <<>> /\ Top(r) \in Frame
        /\ Top(r).at = "open" /\ FrameOK(Top(r)) /\ r = "main"
    BY <2>1, CleaningIs
  <2> DEFINE f == [Top(r) EXCEPT !.at = "unsaved"]
  <2>4. /\ f \in Frame /\ f.at = "unsaved" /\ f.next = Top(r).next
        /\ f.copy = Top(r).copy
    BY <2>2 DEF Frame, Stage
  <2>5. GoOn(r, f) /\ UNCHANGED <<content, calls, file, cancelled, signals, how>>
    BY <1>7 DEF OpenFails
  <2> HIDE DEF f
  <2> QED BY <2>2, <2>4, <2>5, FrameStep DEF FrameOK
<1>8. CASE PutText(r)
  <2>1. Cleaning(r, "write") BY <1>8 DEF PutText
  <2>2. /\ how = "running" /\ cleanups[r] # <<>> /\ Top(r) \in Frame
        /\ Top(r).at = "write" /\ FrameOK(Top(r)) /\ r = "main"
    BY <2>1, CleaningIs
  <2>3. PICK at \in {"buffered", "begun"} : GoOn(r, [Top(r) EXCEPT !.at = at])
    BY <1>8 DEF PutText
  <2> DEFINE f == [Top(r) EXCEPT !.at = at]
  <2>4. /\ f \in Frame /\ f.at \in {"buffered", "begun"}
        /\ f.next = Top(r).next /\ f.copy = Top(r).copy
    BY <2>2 DEF Frame, Stage
  <2>5. GoOn(r, f) /\ UNCHANGED <<content, calls, cancelled, signals, how>>
    BY <1>8, <2>3 DEF PutText
  <2> HIDE DEF f
  <2> QED BY <2>2, <2>4, <2>5, FrameStep DEF FrameOK
<1>9. CASE CloseFile(r)
  <2>1. PICK at \in {"buffered", "begun"} : Cleaning(r, at)
    BY <1>9 DEF CloseFile
  <2>2. /\ how = "running" /\ cleanups[r] # <<>> /\ Top(r) \in Frame
        /\ Top(r).at = at /\ FrameOK(Top(r)) /\ r = "main"
    BY <2>1, CleaningIs
  <2> DEFINE f == [Top(r) EXCEPT !.at = "exit"]
  <2>4. /\ f \in Frame /\ f.at = "exit" /\ f.next = Top(r).next
        /\ f.copy = Top(r).copy
    BY <2>2 DEF Frame, Stage
  <2>5. GoOn(r, f) /\ UNCHANGED <<content, calls, cancelled, signals, how>>
    BY <1>9 DEF CloseFile
  <2>3. \/ file' = [is |-> "whole", copy |-> Top(r).copy]
        \/ file' = [is |-> "cut", copy |-> Nothing]
    BY <1>9 DEF CloseFile
  <2>6. file'.is = "cut" \/ (file'.is = "whole" /\ file'.copy = Top(r).copy)
    BY <2>3
  <2>7. Top(r).next = 5 /\ cancelled = Thread BY <2>1, <2>2 DEF FrameOK
  <2>8. Misses(Top(r).copy, "timers") /\ Misses(Top(r).copy, "counters")
    BY <2>2, <2>7 DEF FrameOK
  <2>9. Saved' BY <2>5, <2>6, <2>8 DEF Saved, Misses, Kept
  <2> HIDE DEF f
  <2> QED BY <2>2, <2>4, <2>5, <2>7, <2>8, <2>9, FrameStep
<1>11. CASE ExitProcess(r) BY <1>11, ExitStep
<1>10. CancelThreads(r) => how' = how \/ how' = "crash" BY DEF CancelThreads
<1> QED
  BY <1>1, <1>2, <1>3, <1>4, <1>5, <1>6, <1>7, <1>8, <1>9, <1>10, <1>11
  DEF Cleanup

(* Updates and flushes: what comes to a table is the last update.            *)
LEMMA ContentStep ==
  ASSUME SaveInv, UNCHANGED <<cleanups, cancelled, calls, file, signals, how>>,
         content' \in [Kept -> SUBSET Nat],
         \A t \in Kept : content'[t] \subseteq content[t] \union {calls}
  PROVE  SaveInv'
<1>1. TypesOK' /\ UdpStuck' BY DEF SaveInv, TypesOK, UdpStuck
<1>2. ASSUME NEW copy, NEW t \in Kept, Misses(copy, t) PROVE Misses(copy, t)'
  BY <1>2 DEF Misses
<1>3. "timers" \in Kept /\ "counters" \in Kept BY DEF Kept
<1>4. ASSUME NEW f, FrameOK(f) PROVE FrameOK(f)'
  BY <1>2, <1>3, <1>4 DEF FrameOK
<1>5. FramesOK' BY <1>4 DEF SaveInv, FramesOK
<1>6. Saved => Saved' BY <1>2 DEF Saved
<1>7. SavedOK' BY <1>6 DEF SaveInv, SavedOK, Top
<1> QED BY <1>1, <1>5, <1>7 DEF SaveInv

(* The queue thread begins an update only when nothing is copied yet.        *)
LEMMA TakeStep ==
  ASSUME SaveInv, NEW t \in Table, QueueTakes(t) PROVE SaveInv'
<1>1. /\ "queue" \notin cancelled /\ calls' = calls + 1 /\ how = "running"
      /\ UNCHANGED <<cleanups, cancelled, file, content, signals, how>>
  BY DEF QueueTakes, Goto
<1>2. \A r \in Runner : \A i \in DOMAIN cleanups[r] :
        cleanups[r][i].at = "cancel" /\ cleanups[r][i].next = 1
  BY <1>1 DEF SaveInv, FramesOK, FrameOK, Thread
<1>3. TypesOK' /\ UdpStuck' BY <1>1 DEF SaveInv, TypesOK, UdpStuck
<1>4. FramesOK' BY <1>1, <1>2 DEF FramesOK, FrameOK
<1>5. SavedOK'
  <2>1. ASSUME cleanups["main"] # <<>> PROVE Top("main").at = "cancel"
    <3>1. "main" \in Runner BY DEF Runner
    <3>2. Len(cleanups["main"]) \in DOMAIN cleanups["main"]
      BY <2>1, <3>1, TopIs DEF SaveInv
    <3> QED BY <1>2, <3>1, <3>2 DEF Top
  <2> QED BY <1>1, <2>1 DEF SavedOK, Top
<1> QED BY <1>3, <1>4, <1>5 DEF SaveInv

LEMMA EntryOK == Entry \in Frame /\ FrameOK(Entry) /\ Entry.at = "cancel"
BY DEF Entry, Frame, FrameOK, Stage, Nothing

(* A signal. *)
LEMMA SignalStep ==
  ASSUME SaveInv, Signal PROVE SaveInv'
<1>1. /\ UNCHANGED <<content, calls, cancelled, file, how>> /\ how = "running"
      /\ signals' = signals + 1
      /\ cleanups' = [cleanups EXCEPT !["main"] = Append(@, Entry)]
  BY DEF Signal, dataVars
<1>2. cleanups["main"] \in Seq(Frame) /\ cleanups \in [Runner -> Seq(Frame)]
  BY DEF SaveInv, TypesOK, Runner
<1>3. /\ cleanups'["main"] = Append(cleanups["main"], Entry)
      /\ cleanups'["udp"] = cleanups["udp"]
  BY <1>1, <1>2 DEF Runner
<1> DEFINE c == Append(cleanups["main"], Entry)
<1>4. /\ cleanups'["main"] = c
      /\ c \in Seq(Frame) /\ Len(c) = Len(cleanups["main"]) + 1
      /\ Len(cleanups["main"]) \in Nat
      /\ DOMAIN c = 1 .. Len(cleanups["main"]) + 1
      /\ DOMAIN cleanups["main"] = 1 .. Len(cleanups["main"])
      /\ c[Len(cleanups["main"]) + 1] = Entry
      /\ \A i \in 1 .. Len(cleanups["main"]) : c[i] = cleanups["main"][i]
  BY <1>2, <1>3, EntryOK
<1> HIDE DEF c
<1>5. TypesOK'
  <2>1. Append(cleanups["main"], Entry) \in Seq(Frame) BY <1>2, EntryOK
  <2>2. cleanups' \in [Runner -> Seq(Frame)] BY <1>1, <1>2, <2>1
  <2>3. Len(cleanups'["main"]) <= signals' /\ signals' \in Nat
    BY <1>1, <1>4 DEF SaveInv, TypesOK
  <2> QED BY <1>1, <2>2, <2>3 DEF SaveInv, TypesOK
<1>6. UdpStuck' BY <1>3 DEF SaveInv, UdpStuck
<1>7. \A f : FrameOK(f)' <=> FrameOK(f) BY <1>1 DEF FrameOK, Misses
<1>8. \A i \in DOMAIN c : FrameOK(c[i])
  BY <1>4, EntryOK DEF SaveInv, FramesOK, Runner
<1>9. FramesOK'
  BY <1>3, <1>4, <1>7, <1>8 DEF SaveInv, FramesOK, Runner
<1>10. Top("main")' = Entry BY <1>4 DEF Top
<1>11. SavedOK' BY <1>1, <1>10, EntryOK DEF SavedOK
<1> QED BY <1>5, <1>6, <1>9, <1>11 DEF SaveInv

(* The UDP thread enters cleanup, or ends and takes its frame with it.       *)
LEMMA UdpStep ==
  ASSUME SaveInv, UNCHANGED <<content, calls, cancelled, file, signals, how>>,
         NEW frames \in {<<>>, <<Entry>>},
         cleanups' = [cleanups EXCEPT !["udp"] = frames]
  PROVE  SaveInv'
<1>1. cleanups \in [Runner -> Seq(Frame)] BY DEF SaveInv, TypesOK
<1>2. cleanups'["main"] = cleanups["main"] /\ cleanups'["udp"] = frames
  BY <1>1 DEF Runner
<1>3. frames \in Seq(Frame) /\ \A i \in DOMAIN frames : frames[i] = Entry
  <2>1. CASE frames = <<>> BY <2>1
  <2>2. CASE frames = <<Entry>>
    <3>1. frames \in Seq(Frame) /\ DOMAIN frames = {1} /\ frames[1] = Entry
      BY <2>2, EntryOK
    <3> QED BY <3>1
  <2> QED BY <2>1, <2>2
<1>4. TypesOK' BY <1>1, <1>2, <1>3 DEF SaveInv, TypesOK
<1>5. UdpStuck' BY <1>2, <1>3, EntryOK DEF UdpStuck
<1>6. \A f : FrameOK(f)' <=> FrameOK(f) BY DEF FrameOK, Misses
<1>7. FramesOK'
  BY <1>2, <1>3, <1>6, EntryOK DEF SaveInv, FramesOK, Runner
<1>8. Saved' <=> Saved BY DEF Saved, Misses
<1>9. SavedOK' BY <1>2, <1>8 DEF SaveInv, SavedOK, Top
<1> QED BY <1>4, <1>5, <1>7, <1>9 DEF SaveInv

LEMMA SaveInvStep ==
  ASSUME SaveInv, [Next]_vars PROVE SaveInv'
<1> USE DEF dataVars
<1>1. ASSUME NEW r \in Runner, Cleanup(r) PROVE SaveInv' BY <1>1, CleanupStep
<1>2. CASE CreateThread \/ MainReturns \/ MgmtFails
  BY <1>2, Unmoved DEF CreateThread, MainReturns, MgmtFails
<1>3. CASE Signal BY <1>3, SignalStep
<1>4. ASSUME NEW t, ThreadStarts(t) PROVE SaveInv'
  BY <1>4, Unmoved DEF ThreadStarts
<1>5. CASE UdpDies BY <1>5, UdpStep DEF UdpDies
<1>6. CASE UdpEnds BY <1>6, Unmoved DEF UdpEnds
<1>7. ASSUME NEW t \in Table, QueueTakes(t) PROVE SaveInv' BY <1>7, TakeStep
<1>8. ASSUME NEW t, NEW from, NEW to, CallWait(t, from, to) PROVE SaveInv'
  BY <1>8, Unmoved DEF CallWait
<1>9. CASE QueueLocks BY <1>9, Unmoved DEF QueueLocks
<1>10. CASE QueueUpdates
  <2>1. UNCHANGED <<cleanups, cancelled, calls, file, signals, how>>
    BY <1>10 DEF QueueUpdates
  <2>2. content \in [Kept -> SUBSET Nat] /\ calls \in Nat
    BY DEF SaveInv, TypesOK
  <2>3. content' \in [Kept -> SUBSET Nat]
    BY <1>10, <2>2 DEF QueueUpdates
  <2>4. \A t \in Kept : content'[t] \subseteq content[t] \union {calls}
    BY <1>10, <2>2 DEF QueueUpdates
  <2> QED BY <2>1, <2>3, <2>4, ContentStep
<1>11. CASE \/ FlushReportsCounters \/ FlushSkipsTimers \/ FlushPrints
            \/ FlushSends
  BY <1>11, Unmoved
  DEF FlushReportsCounters, FlushSkipsTimers, FlushPrints, FlushSends
<1>12. ASSUME NEW t, FlushLocks(t) PROVE SaveInv'
  BY <1>12, Unmoved DEF FlushLocks
<1>13. ASSUME NEW t, NEW to, FlushClears(t, to) PROVE SaveInv'
  <2>1. UNCHANGED <<cleanups, cancelled, calls, file, signals, how>>
    BY <1>13 DEF FlushClears
  <2>2. content \in [Kept -> SUBSET Nat] BY DEF SaveInv, TypesOK
  <2>3. content' \in [Kept -> SUBSET Nat]
    BY <1>13, <2>2 DEF FlushClears
  <2>4. \A s \in Kept : content'[s] \subseteq content[s] \union {calls}
    BY <1>13, <2>2 DEF FlushClears
  <2> QED BY <2>1, <2>3, <2>4, ContentStep
<1>14. ASSUME NEW t \in Thread, EndCancelled(t) PROVE SaveInv'
  <2>1. UNCHANGED <<content, calls, cancelled, file, signals, how>>
    BY <1>14 DEF EndCancelled
  <2>2. CASE t = "udp" BY <1>14, <2>1, <2>2, UdpStep DEF EndCancelled
  <2>3. CASE t # "udp" BY <1>14, <2>1, <2>3, Unmoved DEF EndCancelled
  <2> QED BY <2>2, <2>3
<1>15. CASE UNCHANGED vars BY <1>15, Unmoved DEF vars
<1>16. CASE Main \/ Udp \/ Queue
  BY <1>1, <1>2, <1>4, <1>5, <1>8, <1>9, <1>10, <1>16
  DEF Main, Udp, Queue, QueueCallsWait, Runner
<1>17. CASE Flush
  BY <1>4, <1>8, <1>11, <1>12, <1>13, <1>17 DEF Flush, FlushCallsWait
<1> QED
  BY <1>2, <1>3, <1>4, <1>6, <1>7, <1>14, <1>15, <1>16, <1>17 DEF Next

LEMMA SaveInvInit == Init => SaveInv
<1>1. ASSUME Init PROVE SaveInv
  <2>1. TypesOK
    <3>1. <<>> \in Seq(Frame) /\ Len(<<>>) = 0 OBVIOUS
    <3>2. cleanups["main"] = <<>> /\ signals = 0 BY <1>1 DEF Init, Runner
    <3>3. Len(cleanups["main"]) <= signals BY <3>1, <3>2
    <3> QED BY <1>1, <3>1, <3>3 DEF Init, TypesOK, Nothing
  <2>2. FramesOK /\ UdpStuck
    BY <1>1 DEF Init, FramesOK, UdpStuck, Runner
  <2>3. SavedOK BY <1>1 DEF Init, SavedOK, Runner
  <2> QED BY <2>1, <2>2, <2>3 DEF SaveInv
<1> QED BY <1>1

------------------------------------------------------------------------------
(* When cleanup has saved the tables and ended the process, the file is cut  *)
(* by a failed write that statsd_serialize (src/src/serialize.c:195) does    *)
(* not look at, or mixed by a signal that came while it was written, or it   *)
(* misses at most one update of the tables: cleanup cancels the threads      *)
(* (src/src/statsd.c:129) before it copies, though it does not wait for them.*)
THEOREM OneUpdateMissed == Spec => []AtMostOneUpdateMissed
<1>1. SaveInv /\ [Next]_vars => SaveInv' BY SaveInvStep
<1>2. SaveInv => AtMostOneUpdateMissed BY SavedEnough
<1> QED BY SaveInvInit, <1>1, <1>2, PTL DEF Spec

------------------------------------------------------------------------------
(* The types of the other variables. *)

ThreadsOK ==
  /\ created \in 0 .. Len(CreateOrder) /\ pc \in [Thread -> Place]
  /\ sem \in [Table -> Nat] /\ left \in SUBSET Table
  /\ tab \in Table /\ calls \in 0 .. MaxUpdates
  /\ signals \in 0 .. MaxSignals
  /\ how \in {"running", "returned", "exit", "exit_unsaved",
              "exit_without_cleanup", "crash"}
FileOK == file.is \in FileIs /\ file.copy \in [Kept -> SUBSET Nat]

LEMMA FlushPlaces ==
  ASSUME NEW t \in FlushTable
  PROVE  /\ Call[t] \in Place /\ Take[t] \in Place /\ Hold[t] \in Place
         /\ t \in Table
BY DEF FlushTable, Call, Take, Hold, Place, Table, SaveOrder

LEMMA GotoTyped ==
  ASSUME ThreadsOK, NEW t \in Thread, NEW from, NEW to \in Place,
         Goto(t, from, to)
  PROVE  pc' \in [Thread -> Place]
BY DEF ThreadsOK, Goto

LEMMA SemTyped ==
  ASSUME ThreadsOK, NEW t \in Table, Lower(t) \/ Raise(t)
  PROVE  sem' \in [Table -> Nat]
<1>1. sem \in [Table -> Nat] /\ sem[t] \in Nat BY DEF ThreadsOK
<1>2. CASE Lower(t)
  <2>1. sem[t] > 0 /\ sem' = [sem EXCEPT ![t] = sem[t] - 1] BY <1>2 DEF Lower
  <2>2. sem[t] - 1 \in Nat BY <1>1, <2>1
  <2> QED BY <1>1, <2>1, <2>2
<1>3. CASE Raise(t)
  <2>1. sem' = [sem EXCEPT ![t] = sem[t] + 1] BY <1>3 DEF Raise
  <2>2. sem[t] + 1 \in Nat BY <1>1
  <2> QED BY <1>1, <2>1, <2>2
<1> QED BY <1>2, <1>3

LEMMA CleanupTyped ==
  ASSUME SaveInv, ThreadsOK, FileOK, NEW r \in Runner, Cleanup(r)
  PROVE  ThreadsOK' /\ FileOK'
<1> USE DEF dataVars
<1>1. CASE CancelThreads(r) BY <1>1 DEF CancelThreads, ThreadsOK, FileOK
<1>2. CASE CloseSocket(r) BY <1>2 DEF CloseSocket, ThreadsOK, FileOK
<1>3. CASE WaitToSave(r) \/ SaveTable(r)
  <2>1. \E step \in {"wait", "save"} : Cleaning(r, step)
    BY <1>3 DEF WaitToSave, SaveTable
  <2>2. Top(r) \in Frame /\ FrameOK(Top(r)) /\ Top(r).at \in {"wait", "save"}
    BY <2>1, CleaningIs
  <2>3. Top(r).next \in 1 .. 4 BY <2>2 DEF Frame, FrameOK
  <2>4. SaveOrder[Top(r).next] \in Table BY <2>3 DEF SaveOrder, Table
  <2>5. Lower(SaveOrder[Top(r).next]) \/ Raise(SaveOrder[Top(r).next])
    BY <1>3 DEF WaitToSave, SaveTable
  <2>6. sem' \in [Table -> Nat] BY <2>4, <2>5, SemTyped
  <2>7. UNCHANGED <<created, pc, left, dataVars, file, signals, how>>
    BY <1>3 DEF WaitToSave, SaveTable
  <2> QED BY <2>6, <2>7 DEF ThreadsOK, FileOK
<1>4. CASE OpenFile(r)
  <2>1. UNCHANGED <<created, pc, sem, left, dataVars, signals, how>>
    BY <1>4 DEF OpenFile
  <2>2. FileOK' BY <1>4 DEF OpenFile, FileOK, FileIs, Nothing
  <2> QED BY <2>1, <2>2 DEF ThreadsOK
<1>5. CASE OpenFails(r) BY <1>5 DEF OpenFails, ThreadsOK, FileOK
<1>6. CASE PutText(r)
  <2>1. UNCHANGED <<created, pc, sem, left, dataVars, signals, how>>
    BY <1>6 DEF PutText
  <2>2. FileOK' BY <1>6 DEF PutText, FileOK, FileIs, Nothing
  <2> QED BY <2>1, <2>2 DEF ThreadsOK
<1>8. CASE CloseFile(r)
  <2>1. \E at \in {"buffered", "begun"} : Cleaning(r, at)
    BY <1>8 DEF CloseFile
  <2>2. Top(r) \in Frame BY <2>1, CleaningIs
  <2>3. Top(r).copy \in [Kept -> SUBSET Nat] /\ Nothing \in [Kept -> SUBSET Nat]
    BY <2>2 DEF Frame, Nothing
  <2>4. FileOK' BY <1>8, <2>3 DEF CloseFile, FileOK, FileIs
  <2>5. UNCHANGED <<created, pc, sem, left, dataVars, signals, how>>
    BY <1>8 DEF CloseFile
  <2> QED BY <2>4, <2>5 DEF ThreadsOK
<1>7. CASE ExitProcess(r)
  <2>1. PICK at \in {"exit", "unsaved"} : Cleaning(r, at)
    BY <1>7 DEF ExitProcess
  <2>2. cleanups[r] # <<>> BY <2>1, CleaningIs
  <2>3. /\ DOMAIN cleanups[r] = 1 .. Len(cleanups[r])
        /\ Len(cleanups[r]) \in 1 .. Len(cleanups[r])
    BY <2>2, TopIs DEF SaveInv
  <2>4. \A f \in Interrupted(r) : f \in Frame
    <3>1. \A i \in DOMAIN cleanups[r] : cleanups[r][i] \in Frame
      BY ElementOfSeq DEF SaveInv, TypesOK
    <3> QED BY <2>3, <3>1 DEF Interrupted
  <2>5. \A f \in Interrupted(r) : f.copy \in [Kept -> SUBSET Nat]
    BY <2>4 DEF Frame
  <2>6. FlushFiles(r) BY <1>7 DEF ExitProcess
  <2>7. FileOK' BY <2>5, <2>6 DEF FlushFiles, FileOK, FileIs, Nothing
  <2>8. /\ UNCHANGED <<created, pc, sem, left, dataVars, signals>>
        /\ how' \in {"exit", "exit_unsaved"}
    BY <1>7 DEF ExitProcess
  <2> QED BY <2>7, <2>8 DEF ThreadsOK
<1> QED BY <1>1, <1>2, <1>3, <1>4, <1>5, <1>6, <1>7, <1>8 DEF Cleanup

LEMMA ThreadsStep ==
  ASSUME SaveInv, ThreadsOK, FileOK, [Next]_vars PROVE ThreadsOK' /\ FileOK'
<1> USE DEF dataVars
<1>1. CASE CreateThread
  <2>1. CreateOrder[created + 1] \in Thread /\ created' \in 0 .. Len(CreateOrder)
    BY <1>1 DEF CreateThread, ThreadsOK, CreateOrder, Thread
  <2>2. pc' \in [Thread -> Place]
    BY <1>1, <2>1 DEF CreateThread, ThreadsOK, Place
  <2>3. UNCHANGED <<sem, left, dataVars, file, signals, how>>
    BY <1>1 DEF CreateThread
  <2> QED BY <2>1, <2>2, <2>3 DEF ThreadsOK, FileOK
<1>2. CASE MainReturns BY <1>2 DEF MainReturns, ThreadsOK, FileOK
<1>3. CASE Signal BY <1>3, ShutdownAssumption DEF Signal, ThreadsOK, FileOK
<1>4. ASSUME NEW r \in Runner, Cleanup(r) PROVE ThreadsOK' /\ FileOK'
  BY <1>4, CleanupTyped
<1>5. ASSUME NEW t \in Thread, NEW from, NEW to \in Place, Goto(t, from, to),
             UNCHANGED <<created, sem, left, dataVars, file, signals>>,
             how' = how \/ how' = "exit_without_cleanup"
      PROVE  ThreadsOK' /\ FileOK'
  BY <1>5, GotoTyped DEF ThreadsOK, FileOK
<1>6. CASE MgmtFails
  BY <1>5, <1>6 DEF MgmtFails, Thread, Place
<1>7. ASSUME NEW t \in Thread, ThreadStarts(t) PROVE ThreadsOK' /\ FileOK'
  <2>1. PICK to \in {"sleep", "idle", "run"} : Goto(t, "start", to)
    BY <1>7 DEF ThreadStarts
  <2> QED BY <1>5, <1>7, <2>1 DEF ThreadStarts, Place
<1>8. CASE UdpDies BY <1>5, <1>8 DEF UdpDies, Thread, Place
<1>9. CASE UdpEnds BY <1>5, <1>9 DEF UdpEnds, Thread, Place
<1>10. ASSUME NEW t \in Table, QueueTakes(t) PROVE ThreadsOK' /\ FileOK'
  <2>1. pc' \in [Thread -> Place]
    BY <1>10, GotoTyped DEF QueueTakes, Thread, Place
  <2>2. calls' \in 0 .. MaxUpdates
    BY <1>10, ShutdownAssumption DEF QueueTakes, ThreadsOK
  <2>3. tab' = t /\ UNCHANGED <<created, sem, left, file, signals, how>>
    BY <1>10 DEF QueueTakes
  <2> QED BY <2>1, <2>2, <2>3 DEF ThreadsOK, FileOK
<1>11. CASE QueueCallsWait
  BY <1>5, <1>11 DEF QueueCallsWait, CallWait, Thread, Place
<1>12. ASSUME NEW t \in Thread, NEW from, NEW to \in Place, Goto(t, from, to),
              NEW s \in Table, Lower(s) \/ Raise(s),
              UNCHANGED <<created, left, tab, calls, file, signals, how>>
       PROVE  ThreadsOK' /\ FileOK'
  BY <1>12, GotoTyped, SemTyped DEF ThreadsOK, FileOK
<1>13. CASE QueueLocks \/ QueueUpdates
  <2>1. tab \in Table BY DEF ThreadsOK
  <2> QED BY <1>12, <1>13, <2>1 DEF QueueLocks, QueueUpdates, Thread, Place
<1>14. CASE FlushReportsCounters \/ FlushSkipsTimers \/ FlushPrints \/ FlushSends
  BY <1>5, <1>14
  DEF FlushReportsCounters, FlushSkipsTimers, FlushPrints, FlushSends, Thread,
      Place, FlushTable, Call, Take, Hold
<1>15. ASSUME NEW t \in FlushTable, FlushCallsWait(t)
       PROVE  ThreadsOK' /\ FileOK'
  BY <1>5, <1>15, FlushPlaces DEF FlushCallsWait, CallWait, Thread
<1>16. ASSUME NEW t \in FlushTable, FlushLocks(t) PROVE ThreadsOK' /\ FileOK'
  <2>1. PICK to \in {"print", Hold[t]} : Goto("flush", Take[t], to)
    BY <1>16 DEF FlushLocks
  <2>2. to \in Place /\ t \in Table BY <2>1, FlushPlaces DEF Place
  <2> QED BY <1>12, <1>16, <2>1, <2>2 DEF FlushLocks, Thread
<1>17. ASSUME NEW t \in FlushTable, NEW to \in {Call["timers"], "send", "sleep"},
              FlushClears(t, to)
       PROVE  ThreadsOK' /\ FileOK'
  <2>1. to \in Place /\ t \in Table
    BY FlushPlaces DEF Place, FlushTable, Call, Take
  <2> QED BY <1>12, <1>17, <2>1 DEF FlushClears, Thread
<1>18. ASSUME NEW t \in Thread, EndCancelled(t) PROVE ThreadsOK' /\ FileOK'
  <2>1. left' \in SUBSET Table
    BY <1>18 DEF EndCancelled, ThreadsOK, Table, SaveOrder
  <2>2. pc' \in [Thread -> Place] BY <1>18 DEF EndCancelled, ThreadsOK, Place
  <2>3. UNCHANGED <<created, sem, dataVars, file, signals, how>>
    BY <1>18 DEF EndCancelled
  <2> QED BY <2>1, <2>2, <2>3 DEF ThreadsOK, FileOK
<1>19. CASE UNCHANGED vars BY <1>19 DEF vars, ThreadsOK, FileOK
<1>20. CASE Flush
  <2>1. "counters" \in FlushTable /\ "timers" \in FlushTable
        /\ "stats" \in FlushTable /\ Call["timers"] = "call_timers"
    BY DEF FlushTable, Call, Take
  <2> QED
    BY <1>7, <1>14, <1>15, <1>16, <1>17, <1>20, <2>1 DEF Flush, Thread
<1>21. CASE Main \/ Udp \/ Queue
  BY <1>1, <1>2, <1>4, <1>7, <1>8, <1>11, <1>13, <1>21
  DEF Main, Udp, Queue, Runner, Thread
<1>22. CASE ThreadStarts("mgmt") BY <1>7, <1>22 DEF Thread
<1> QED
  BY <1>3, <1>6, <1>9, <1>10, <1>18, <1>19, <1>20, <1>21, <1>22 DEF Next

(* Shutdown is type-correct: however signals, cancellations and the calls of *)
(* cleanup nest (src/src/statsd.c:128), cleanup saves the four tables in      *)
(* their order and never reaches past them, and no semaphore goes below 0.   *)
THEOREM TypeCorrect == Spec => []TypeOK
<1> DEFINE Inv == SaveInv /\ ThreadsOK /\ FileOK
<1>1. Init => ThreadsOK /\ FileOK
  <2> SUFFICES ASSUME Init PROVE ThreadsOK /\ FileOK OBVIOUS
  <2>1. pc \in [Thread -> Place] BY DEF Init, Place
  <2>2. created \in 0 .. Len(CreateOrder) /\ tab \in Table
    BY DEF Init, CreateOrder, Table, SaveOrder
  <2>3. sem \in [Table -> Nat] /\ left \in SUBSET Table /\ FileOK
    BY DEF Init, FileOK, FileIs, Nothing
  <2>4. calls = 0 /\ signals = 0 /\ how = "running" BY DEF Init
  <2> QED BY <2>1, <2>2, <2>3, <2>4, ShutdownAssumption DEF ThreadsOK
<1>2. Inv /\ [Next]_vars => Inv' BY SaveInvStep, ThreadsStep
<1>3. Inv => TypeOK BY DEF SaveInv, TypesOK, ThreadsOK, FileOK, TypeOK
<1> QED BY SaveInvInit, <1>1, <1>2, <1>3, PTL DEF Spec
=============================================================================
