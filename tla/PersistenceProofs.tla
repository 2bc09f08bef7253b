-------------------------- MODULE PersistenceProofs --------------------------
(***************************************************************************)
(* Proofs about Persistence, for every set of daemons and every number of  *)
(* updates, starts and faults; and in the second half about LinkHash, the  *)
(* table of the objects that the state file is made of, for every hash     *)
(* function, every size and any keys and values.                           *)
(***************************************************************************)
EXTENDS Persistence, LinkHash, FiniteSetTheorems, SequenceTheorems,
        WellFoundedInduction, TLAPS

Pc == {"off", "load", "lock", "locked", "bind", "run", "counters", "clear",
       "timer", "stuck", "save", "write", "rest", "unlink"}

TypeOK ==
  /\ pc \in [Daemon -> Pc]
  /\ mem \in [Daemon -> SUBSET Update] /\ entry \in [Daemon -> SUBSET Update]
  /\ text \in [Daemon -> SUBSET Update]
  /\ backend \in {"graphite", "gmetric"}
  /\ file \in [head : FilePiece \union {NULL}, tail : FilePiece \union {NULL}]
  /\ accepted \in SUBSET Update
  /\ reported \in [Update -> Nat]
  /\ lost \in SUBSET Update /\ again \in SUBSET Update
  /\ faults \in Nat

(* Nothing is in a table before the state is loaded, in a text but during a *)
(* flush for graphite, or in the flush's hands but between the two steps    *)
(* that report and clear an entry.                                          *)
PlacesOK ==
  \A d \in Daemon :
    /\ pc[d] \in {"off", "load"} => mem[d] = {}
    /\ pc[d] \notin Flushing \/ backend = "gmetric" => text[d] = {}
    /\ pc[d] \notin {"clear", "timer"} => entry[d] = {}
    /\ pc[d] = "timer" => mem[d] \intersect entry[d] = {}

(* A daemon that runs, or has run and has not ended its saving: what it     *)
(* holds is not dropped without a fault.                                    *)
Holds(d) == pc[d] \in {"run", "save", "write", "rest"} \union Flushing

(* A counter that is about to be cleared has been reported.                 *)
ClearOK ==
  \A d \in Daemon :
    pc[d] = "clear" =>
      entry[d] \subseteq text[d] \union Reported \union Unheard(d)

(* A daemon that has opened the file finds none of its own bytes in it but  *)
(* those it has written since.                                              *)
WriterOK ==
  \A d \in Daemon :
    /\ pc[d] = "write" => file.head = NULL \/ file.head.by # d
    /\ pc[d] \in {"write", "rest"} => file.tail = NULL \/ file.tail.by # d
    /\ pc[d] = "rest" =>
         file.head = NULL \/ file.head.by # d \/ file.head = Piece(d, TRUE)

(* What a daemon writes over is in its own tables, or was, unless another   *)
(* one has saved since it loaded.                                           *)
LoadedOK ==
  \A d \in Daemon :
    pc[d] \notin {"off", "load"} /\ d \notin stale =>
      Says(file) \subseteq HeldBy(d) \union Reported \union lost

(* The stronger form of EveryUpdateKept: what a daemon holds that has not   *)
(* begun to run is not counted on.                                          *)
KeptOK ==
  \A u \in accepted :
    \/ u \in Says(file) \union Reported \union lost
    \/ \E d \in Daemon : Holds(d) /\ u \in HeldBy(d)

(* Updates are numbered as they come, and only they are anywhere.           *)
NumberedOK == \E m \in Nat : accepted = 1 .. m
AcceptedOK ==
  /\ Contents(file) \subseteq accepted /\ Reported \subseteq accepted
  /\ \A d \in Daemon : HeldBy(d) \subseteq accepted

(* An update that two daemons hold was loaded by the second beside the      *)
(* first.                                                                   *)
SharedOK ==
  \A d, e \in Daemon : d # e => HeldBy(d) \intersect HeldBy(e) \subseteq again

(* What was reported and is still held can be reported again, but for the   *)
(* counter that is about to be cleared.                                     *)
PendingOK ==
  \A d \in Daemon :
    /\ (mem[d] \ entry[d]) \intersect Reported \subseteq again
    /\ text[d] \intersect Reported \subseteq again
    /\ pc[d] = "timer" => entry[d] \intersect Reported \subseteq again

(* So can what is in the file, where no daemon is left that would write     *)
(* over it.                                                                 *)
FileOK ==
  (\A d \in Daemon : pc[d] \notin {"run", "save"} \union Flushing) =>
    Contents(file) \intersect Reported \subseteq again

(* A file without a head will get one, and a head without a tail its own,   *)
(* unless a fault is in the way.                                            *)
LeftOK ==
  faults = 0 =>
    /\ /\ file.head = NULL
       /\ file.tail # NULL \/ \E d \in Daemon : pc[d] = "rest"
       => \E d \in Daemon : pc[d] = "write"
    /\ file.head # NULL /\ file.head.long =>
         \/ pc[file.head.by] = "rest" \/ file.tail = file.head
         \/ file.tail # NULL /\ file.tail.by # file.head.by

------------------------------------------------------------------------------
LEMMA CountAdds ==
  ASSUME TypeOK, NEW us \in SUBSET Update, Count(us)
  PROVE  /\ reported' \in [Update -> Nat]
         /\ \A u \in Update : reported'[u] = reported[u] + IF u \in us THEN 1 ELSE 0
         /\ Reported' = Reported \union us
<1>1. reported \in [Update -> Nat] BY DEF TypeOK
<1>2. \A u \in Update : reported'[u] = reported[u] + IF u \in us THEN 1 ELSE 0
  BY DEF Count
<1>3. \A u \in Update : reported'[u] \in Nat BY <1>1, <1>2
<1>4. reported' = [u \in Update |-> reported'[u]] BY DEF Count
<1>5. reported' \in [Update -> Nat] BY <1>3, <1>4
<1>6. Reported' = Reported \union us BY <1>1, <1>2 DEF Reported
<1> QED BY <1>2, <1>5, <1>6

LEMMA NextUpdate ==
  ASSUME TypeOK, Cardinality(accepted) < MaxUpdates
  PROVE  Cardinality(accepted) + 1 \in Update
<1>1. IsFiniteSet(Update)
  BY FS_Interval, PersistenceAssumption DEF Update
<1>2. IsFiniteSet(accepted) BY <1>1, FS_Subset DEF TypeOK
<1>3. Cardinality(accepted) \in Nat BY <1>2, FS_CardinalityType
<1> QED BY <1>3, PersistenceAssumption DEF Update

FileSet == [head : FilePiece \union {NULL}, tail : FilePiece \union {NULL}]

LEMMA PieceType ==
  ASSUME TypeOK, NEW d \in Daemon, NEW long \in BOOLEAN
  PROVE  /\ Piece(d, long) \in FilePiece /\ Piece(d, long) # NULL
         /\ Piece(d, long).by = d /\ Piece(d, long).updates = mem[d]
         /\ Piece(d, TRUE).long /\ ~Piece(d, FALSE).long
<1>1. mem[d] \in SUBSET Update BY DEF TypeOK
<1>2. Piece(d, long) \in FilePiece BY <1>1 DEF Piece, FilePiece
<1> QED BY <1>2, PersistenceAssumption DEF Piece

(* What is read from a file is in one of its pieces. *)
LEMMA FileType ==
  ASSUME NEW f \in FileSet
  PROVE  /\ Contents(f) \in SUBSET Update /\ Says(f) \in SUBSET Contents(f)
         /\ \A us \in CanRead(f) : us \in SUBSET Contents(f)
<1>1. \A p \in Pieces(f) : p \in FilePiece BY DEF Pieces, FileSet
<1>2. \A p \in FilePiece : p.updates \in SUBSET Update BY DEF FilePiece
<1>3. \A p \in Pieces(f) : p.updates \in SUBSET Contents(f)
  BY DEF Contents
<1>4. Contents(f) \in SUBSET Update BY <1>1, <1>2 DEF Contents
<1>5. Says(f) \in SUBSET Contents(f)
  <2>1. CASE Whole(f)
    <3>1. f.head \in Pieces(f) BY <2>1 DEF Whole, Pieces
    <3> QED BY <2>1, <3>1, <1>3 DEF Says
  <2>2. CASE ~Whole(f) BY <2>2 DEF Says
  <2> QED BY <2>1, <2>2
<1>6. \A us \in CanRead(f) : us \in SUBSET Contents(f)
  BY <1>5 DEF CanRead
<1> QED BY <1>4, <1>5, <1>6

LEMMA FileSays ==
  ASSUME TypeOK
  PROVE  Says(file) \subseteq Contents(file) /\ Contents(file) \subseteq Update
BY FileType DEF TypeOK, FileSet

LEMMA NothingWritten == Contents(NoFile) = {} /\ Says(NoFile) = {}
  BY DEF Contents, Says, Pieces, Whole, NoFile

(* A piece that is written adds to the file what its writer holds. *)
LEMMA ContentsWritten ==
  ASSUME TypeOK, NEW d \in Daemon, WriteHead(d) \/ WriteRest(d)
  PROVE  Contents(file') \subseteq Contents(file) \union mem[d]
<1>1. file \in FileSet BY DEF TypeOK, FileSet
<1>2. PICK long \in BOOLEAN :
        \/ file' = [file EXCEPT !.head = Piece(d, long)]
        \/ file' = [file EXCEPT !.tail = Piece(d, long)]
  BY DEF WriteHead, WriteRest
<1>3. \A p \in Pieces(file') : p \in Pieces(file) \/ p = Piece(d, long)
  BY <1>1, <1>2 DEF Pieces, FileSet
<1>4. ASSUME NEW u \in Contents(file') PROVE u \in Contents(file) \union mem[d]
  <2>1. PICK p \in Pieces(file') : u \in p.updates BY <1>4 DEF Contents
  <2>2. CASE p \in Pieces(file) BY <2>1, <2>2 DEF Contents
  <2>3. CASE p = Piece(d, long) BY <2>1, <2>3, PieceType
  <2> QED BY <1>3, <2>2, <2>3
<1> QED BY <1>4

(* A head alone says nothing ... *)
LEMMA HeadSays ==
  ASSUME TypeOK, WriterOK, NEW d \in Daemon, WriteHead(d)
  PROVE  Says(file') = {}
<1>1. file'.head = Piece(d, TRUE) /\ file'.tail = file.tail
  BY DEF WriteHead, TypeOK
<1>2. file.tail = NULL \/ file.tail.by # d BY DEF WriterOK, WriteHead, Goto
<1>3. file.tail # Piece(d, TRUE) BY <1>2, PieceType
<1>4. ~Whole(file') BY <1>1, <1>3, PieceType DEF Whole
<1> QED BY <1>4 DEF Says

(* ... and with the last piece the file says what its writer holds, or what *)
(* it said before, or nothing.                                              *)
LEMMA RestSays ==
  ASSUME TypeOK, WriterOK, NEW d \in Daemon, WriteRest(d)
  PROVE  Says(file') \in {mem[d], Says(file), {}}
<1>1. CASE /\ pc[d] = "write" /\ file' = [file EXCEPT !.head = Piece(d, FALSE)]
  <2>1. file'.head = Piece(d, FALSE) BY <1>1 DEF TypeOK
  <2> QED BY <2>1, PieceType DEF Says, Whole
<1>2. CASE /\ pc[d] = "rest" /\ file' = [file EXCEPT !.tail = Piece(d, TRUE)]
  <2>1. file'.tail = Piece(d, TRUE) /\ file'.head = file.head
    BY <1>2 DEF TypeOK
  <2>2. CASE file.head = NULL BY <2>1, <2>2 DEF Says, Whole
  <2>3. CASE file.head # NULL /\ ~file.head.long
    BY <2>1, <2>3 DEF Says, Whole
  <2>4. CASE file.head # NULL /\ file.head.long
    <3>1. CASE Whole(file')
      <4>1. file.head = Piece(d, TRUE) BY <2>1, <2>4, <3>1 DEF Whole
      <4>2. file'.head.updates = mem[d] BY <2>1, <4>1, PieceType
      <4> QED BY <3>1, <4>2 DEF Says
    <3> QED BY <3>1 DEF Says
  <2> QED BY <2>2, <2>3, <2>4
<1> QED BY <1>1, <1>2 DEF WriteRest, Goto

LEMMA TypeInit == Init => TypeOK
  BY PersistenceAssumption DEF Init, TypeOK, NoFile, Pc, Update

LEMMA TypeStep ==
  ASSUME TypeOK, [Next]_vars PROVE TypeOK'
<1> USE PersistenceAssumption DEF TypeOK, Goto, Pc, tableVars, portVars,
        ghostVars
<1>2. ASSUME NEW d \in Daemon, Begin(d) PROVE TypeOK'
  <2>1. CASE Start(d) BY <2>1 DEF Start
  <2>2. CASE Load(d)
    <3>1. \A us \in CanRead(file) : us \in SUBSET Update BY FileType DEF FileSet
    <3> QED BY <2>2, <3>1 DEF Load, Exit, Gone
  <2>3. CASE TakeLock(d) BY <2>3 DEF TakeLock, Exit, Gone
  <2>4. CASE CloseLockFile(d) BY <2>4 DEF CloseLockFile
  <2>5. CASE Bind(d) BY <2>5 DEF Bind
  <2>6. CASE Listen(d) BY <2>6 DEF Listen, Exit, Gone, HeldBy, Reported
  <2> QED BY <1>2, <2>1, <2>2, <2>3, <2>4, <2>5, <2>6 DEF Begin
<1>3. ASSUME NEW d \in Daemon, Run(d) PROVE TypeOK'
  <2>1. CASE Accept(d)
    <3>1. Cardinality(accepted) + 1 \in Update BY <2>1, NextUpdate DEF Accept
    <3>2. accepted' \in SUBSET Update /\ mem' \in [Daemon -> SUBSET Update]
      BY <2>1, <3>1 DEF Accept
    <3> QED BY <2>1, <3>2 DEF Accept
  <2>2. CASE Wake(d) BY <2>2 DEF Wake, Fault
  <2>3. CASE ReportCounter(d)
    <3>1. reported' \in [Update -> Nat]
      BY <2>3, CountAdds DEF ReportCounter, Report
    <3> QED BY <2>3, <3>1 DEF ReportCounter, Report
  <2>4. CASE ClearCounter(d) BY <2>4 DEF ClearCounter, Unheard
  <2>5. CASE ClearTimer(d) BY <2>5 DEF ClearTimer
  <2>6. CASE ReportTimer(d)
    <3>1. reported' \in [Update -> Nat]
      BY <2>6, CountAdds DEF ReportTimer, Report
    <3> QED BY <2>6, <3>1 DEF ReportTimer, Report, Unheard
  <2>7. CASE SendText(d)
    <3>1. reported' \in [Update -> Nat]
      BY <2>7, CountAdds DEF SendText
    <3> QED BY <2>7, <3>1 DEF SendText, Fault
  <2> QED BY <1>3, <2>1, <2>2, <2>3, <2>4, <2>5, <2>6, <2>7 DEF Run
<1>4. ASSUME NEW d \in Daemon, End(d) PROVE TypeOK'
  <2>1. CASE Stop(d) BY <2>1 DEF Stop, Reported
  <2>2. CASE OpenFile(d)
    BY <2>2, FileSays DEF OpenFile, NoFile, Fault, Overwritten, Reported
  <2>3. CASE WriteHead(d)
    BY <2>3, PieceType, FileSays DEF WriteHead, Overwritten
  <2>4. CASE WriteRest(d)
    BY <2>4, PieceType, FileSays DEF WriteRest, Overwritten
  <2>5. CASE WriteFails(d) BY <2>5 DEF WriteFails, Fault
  <2>6. CASE Unlink(d) BY <2>6 DEF Unlink, Gone
  <2> QED BY <1>4, <2>1, <2>2, <2>3, <2>4, <2>5, <2>6 DEF End
<1>5. ASSUME NEW d \in Daemon, Kill(d) PROVE TypeOK'
  BY <1>5 DEF Kill, Exit, Gone, Fault, HeldBy, Reported
<1>6. CASE UNCHANGED vars BY <1>6 DEF vars
<1> QED BY <1>2, <1>3, <1>4, <1>5, <1>6 DEF Next

LEMMA PlacesStep ==
  ASSUME TypeOK, PlacesOK, [Next]_vars PROVE PlacesOK'
<1> USE DEF TypeOK, PlacesOK, Flushing, Running, Goto, tableVars, portVars,
        ghostVars
<1>2. ASSUME NEW d \in Daemon, Begin(d) PROVE PlacesOK'
  <2>1. CASE Start(d) BY <2>1 DEF Start
  <2>2. CASE Load(d) BY <2>2 DEF Load, Exit, Gone
  <2>3. CASE TakeLock(d) BY <2>3 DEF TakeLock, Exit, Gone
  <2>4. CASE CloseLockFile(d) BY <2>4 DEF CloseLockFile
  <2>5. CASE Bind(d) BY <2>5 DEF Bind
  <2>6. CASE Listen(d) BY <2>6 DEF Listen, Exit, Gone
  <2> QED BY <1>2, <2>1, <2>2, <2>3, <2>4, <2>5, <2>6 DEF Begin
<1>3. ASSUME NEW d \in Daemon, Run(d) PROVE PlacesOK'
  <2>1. CASE Accept(d) BY <2>1 DEF Accept
  <2>2. CASE Wake(d) BY <2>2 DEF Wake
  <2>3. CASE ReportCounter(d) BY <2>3 DEF ReportCounter, Report
  <2>4. CASE ClearCounter(d) BY <2>4 DEF ClearCounter
  <2>5. CASE ClearTimer(d) BY <2>5 DEF ClearTimer
  <2>6. CASE ReportTimer(d) BY <2>6 DEF ReportTimer, Report
  <2>7. CASE SendText(d) BY <2>7 DEF SendText
  <2> QED BY <1>3, <2>1, <2>2, <2>3, <2>4, <2>5, <2>6, <2>7 DEF Run
<1>4. ASSUME NEW d \in Daemon, End(d) PROVE PlacesOK'
  <2>1. CASE Stop(d) BY <2>1 DEF Stop
  <2>2. CASE OpenFile(d) BY <2>2 DEF OpenFile
  <2>3. CASE WriteHead(d) BY <2>3 DEF WriteHead
  <2>4. CASE WriteRest(d) BY <2>4 DEF WriteRest
  <2>5. CASE WriteFails(d) BY <2>5 DEF WriteFails, Fault
  <2>6. CASE Unlink(d) BY <2>6 DEF Unlink, Gone
  <2> QED BY <1>4, <2>1, <2>2, <2>3, <2>4, <2>5, <2>6 DEF End
<1>5. ASSUME NEW d \in Daemon, Kill(d) PROVE PlacesOK'
  BY <1>5 DEF Kill, Exit, Gone, Fault
<1>6. CASE UNCHANGED vars BY <1>6 DEF vars
<1> QED BY <1>2, <1>3, <1>4, <1>5, <1>6 DEF Next

(* What was reported or lost stays so. *)
LEMMA Grows ==
  ASSUME TypeOK, [Next]_vars
  PROVE  Reported \subseteq Reported' /\ lost \subseteq lost'
<1> DEFINE Grown == Reported \subseteq Reported' /\ lost \subseteq lost'
<1> USE DEF ghostVars
<1>1. ASSUME NEW us \in SUBSET Update, Count(us)
      PROVE Reported \subseteq Reported'
  BY <1>1, CountAdds
<1>2. ASSUME UNCHANGED reported PROVE Reported \subseteq Reported'
  BY <1>2 DEF Reported
<1>3. ASSUME NEW d \in Daemon, NEW us \in SUBSET Update, Report(d, us)
      PROVE Reported \subseteq Reported'
  BY <1>1, <1>2, <1>3 DEF Report
<1>4. ASSUME NEW d \in Daemon, Begin(d) PROVE Grown
  BY <1>2, <1>4 DEF Begin, Start, Load, TakeLock, CloseLockFile, Bind, Listen
<1>5. ASSUME NEW d \in Daemon, Run(d) PROVE Grown
  <2>1. /\ mem[d] \in SUBSET Update /\ entry[d] \in SUBSET Update
        /\ text[d] \in SUBSET Update
    BY DEF TypeOK
  <2>2. CASE ReportCounter(d)
    <3>1. PICK us \in SUBSET Update : Report(d, us)
      BY <2>1, <2>2 DEF ReportCounter
    <3> QED BY <1>3, <2>2, <3>1 DEF ReportCounter
  <2>3. CASE ReportTimer(d) BY <1>3, <2>1, <2>3 DEF ReportTimer
  <2>4. CASE SendText(d) BY <1>1, <1>2, <2>1, <2>4 DEF SendText
  <2> QED BY <1>2, <1>5, <2>2, <2>3, <2>4
          DEF Run, Accept, Wake, ClearCounter, ClearTimer
<1>6. ASSUME NEW d \in Daemon, End(d) PROVE Grown
  BY <1>2, <1>6 DEF End, Stop, OpenFile, WriteHead, WriteRest, WriteFails, Unlink
<1>7. ASSUME NEW d \in Daemon, Kill(d) PROVE Grown
  BY <1>2, <1>7 DEF Kill
<1>8. CASE UNCHANGED vars BY <1>2, <1>8 DEF vars
<1> QED BY <1>4, <1>5, <1>6, <1>7, <1>8 DEF Next

LEMMA ClearStep ==
  ASSUME TypeOK, PlacesOK, ClearOK, [Next]_vars PROVE ClearOK'
<1>1. Reported \subseteq Reported' BY Grows
<1> USE <1>1 DEF TypeOK, ClearOK, Unheard, Goto, tableVars, portVars, ghostVars
<1>2. ASSUME NEW d \in Daemon, Begin(d) PROVE ClearOK'
  <2>1. CASE Start(d) BY <2>1 DEF Start
  <2>2. CASE Load(d) BY <2>2 DEF Load, Exit, Gone
  <2>3. CASE TakeLock(d) BY <2>3 DEF TakeLock, Exit, Gone
  <2>4. CASE CloseLockFile(d) BY <2>4 DEF CloseLockFile
  <2>5. CASE Bind(d) BY <2>5 DEF Bind
  <2>6. CASE Listen(d) BY <2>6 DEF Listen, Exit, Gone
  <2> QED BY <1>2, <2>1, <2>2, <2>3, <2>4, <2>5, <2>6 DEF Begin
<1>3. ASSUME NEW d \in Daemon, Run(d) PROVE ClearOK'
  <2>1. CASE Accept(d) BY <2>1 DEF Accept
  <2>2. CASE Wake(d) BY <2>2 DEF Wake
  <2>3. CASE ReportCounter(d)
    <3>1. entry'[d] \subseteq text'[d] \union Reported' \union Unheard(d)'
      BY <2>3, CountAdds DEF ReportCounter, Report
    <3> QED BY <2>3, <3>1 DEF ReportCounter, Report
  <2>4. CASE ClearCounter(d) BY <2>4 DEF ClearCounter
  <2>5. CASE ClearTimer(d) BY <2>5 DEF ClearTimer
  <2>6. CASE ReportTimer(d) BY <2>6 DEF ReportTimer, Report
  <2>7. CASE SendText(d) BY <2>7 DEF SendText
  <2> QED BY <1>3, <2>1, <2>2, <2>3, <2>4, <2>5, <2>6, <2>7 DEF Run
<1>4. ASSUME NEW d \in Daemon, End(d) PROVE ClearOK'
  <2>1. CASE Stop(d) BY <2>1 DEF Stop
  <2>2. CASE OpenFile(d) BY <2>2 DEF OpenFile
  <2>3. CASE WriteHead(d) BY <2>3 DEF WriteHead
  <2>4. CASE WriteRest(d) BY <2>4 DEF WriteRest
  <2>5. CASE WriteFails(d) BY <2>5 DEF WriteFails, Fault
  <2>6. CASE Unlink(d) BY <2>6 DEF Unlink, Gone
  <2> QED BY <1>4, <2>1, <2>2, <2>3, <2>4, <2>5, <2>6 DEF End
<1>5. ASSUME NEW d \in Daemon, Kill(d) PROVE ClearOK'
  BY <1>5 DEF Kill, Exit, Gone, Fault
<1>6. CASE UNCHANGED vars BY <1>6 DEF vars
<1> QED BY <1>2, <1>3, <1>4, <1>5, <1>6 DEF Next

LEMMA WriterStep ==
  ASSUME TypeOK, WriterOK, [Next]_vars PROVE WriterOK'
<1> USE DEF TypeOK, WriterOK, Goto, Piece, tableVars, portVars, ghostVars
<1>2. ASSUME NEW d \in Daemon, Begin(d) PROVE WriterOK'
  <2>1. CASE Start(d) BY <2>1 DEF Start
  <2>2. CASE Load(d) BY <2>2 DEF Load, Exit, Gone
  <2>3. CASE TakeLock(d) BY <2>3 DEF TakeLock, Exit, Gone
  <2>4. CASE CloseLockFile(d) BY <2>4 DEF CloseLockFile
  <2>5. CASE Bind(d) BY <2>5 DEF Bind
  <2>6. CASE Listen(d) BY <2>6 DEF Listen, Exit, Gone
  <2> QED BY <1>2, <2>1, <2>2, <2>3, <2>4, <2>5, <2>6 DEF Begin
<1>3. ASSUME NEW d \in Daemon, Run(d) PROVE WriterOK'
  <2>1. CASE Accept(d) BY <2>1 DEF Accept
  <2>2. CASE Wake(d) BY <2>2 DEF Wake
  <2>3. CASE ReportCounter(d) BY <2>3 DEF ReportCounter, Report
  <2>4. CASE ClearCounter(d) BY <2>4 DEF ClearCounter
  <2>5. CASE ClearTimer(d) BY <2>5 DEF ClearTimer
  <2>6. CASE ReportTimer(d) BY <2>6 DEF ReportTimer, Report
  <2>7. CASE SendText(d) BY <2>7 DEF SendText
  <2> QED BY <1>3, <2>1, <2>2, <2>3, <2>4, <2>5, <2>6, <2>7 DEF Run
<1>4. ASSUME NEW d \in Daemon, End(d) PROVE WriterOK'
  <2>1. CASE Stop(d) BY <2>1 DEF Stop
  <2>2. CASE OpenFile(d)
    <3>1. CASE file' = NoFile BY <3>1 DEF NoFile
    <3>2. CASE Goto(d, "save", "unlink") /\ UNCHANGED file
      BY <2>2, <3>2 DEF OpenFile
    <3> QED BY <2>2, <3>1, <3>2 DEF OpenFile
  <2>3. CASE WriteHead(d) BY <2>3, PieceType DEF WriteHead
  <2>4. CASE WriteRest(d)
    <3>1. /\ file'.head = file.head \/ file'.head.by = d
          /\ file'.tail = file.tail \/ file'.tail.by = d
          /\ pc' = [pc EXCEPT ![d] = "unlink"] /\ UNCHANGED mem
      BY <2>4, PieceType DEF WriteRest
    <3> QED BY <3>1
  <2>5. CASE WriteFails(d) BY <2>5 DEF WriteFails, Fault
  <2>6. CASE Unlink(d) BY <2>6 DEF Unlink, Gone
  <2> QED BY <1>4, <2>1, <2>2, <2>3, <2>4, <2>5, <2>6 DEF End
<1>5. ASSUME NEW d \in Daemon, Kill(d) PROVE WriterOK'
  BY <1>5 DEF Kill, Exit, Gone, Fault
<1>6. CASE UNCHANGED vars BY <1>6 DEF vars
<1> QED BY <1>2, <1>3, <1>4, <1>5, <1>6 DEF Next

LEMMA LoadedStep ==
  ASSUME TypeOK, PlacesOK, ClearOK, WriterOK, LoadedOK, [Next]_vars
  PROVE  LoadedOK'
<1>1. Reported \subseteq Reported' /\ lost \subseteq lost' BY Grows
<1> USE <1>1 DEF TypeOK, LoadedOK, HeldBy, Goto, tableVars, portVars, ghostVars
<1>2. ASSUME NEW d \in Daemon, Begin(d) PROVE LoadedOK'
  <2>1. CASE Start(d) BY <2>1 DEF Start
  <2>2. CASE Load(d)
    <3>1. \A us \in CanRead(file) : Whole(file) => us = Says(file)
      BY NothingWritten DEF CanRead, Whole, NoFile
    <3>2. ~Whole(file) => Says(file) = {} BY DEF Says
    <3> QED BY <2>2, <3>1, <3>2 DEF Load, Exit, Gone
  <2>3. CASE TakeLock(d) BY <2>3 DEF TakeLock, Exit, Gone
  <2>4. CASE CloseLockFile(d) BY <2>4 DEF CloseLockFile
  <2>5. CASE Bind(d) BY <2>5 DEF Bind
  <2>6. CASE Listen(d) BY <2>6 DEF Listen, Exit, Gone
  <2> QED BY <1>2, <2>1, <2>2, <2>3, <2>4, <2>5, <2>6 DEF Begin
<1>3. ASSUME NEW d \in Daemon, Run(d) PROVE LoadedOK'
  <2>1. CASE Accept(d) BY <2>1 DEF Accept
  <2>2. CASE Wake(d) BY <2>2 DEF Wake
  <2>3. CASE ReportCounter(d)
    BY <2>3, CountAdds DEF ReportCounter, Report, PlacesOK
  <2>4. CASE ClearCounter(d) BY <2>4 DEF ClearCounter, ClearOK
  <2>5. CASE ClearTimer(d) BY <2>5 DEF ClearTimer, PlacesOK
  <2>6. CASE ReportTimer(d) BY <2>6, CountAdds DEF ReportTimer, Report, Unheard
  <2>7. CASE SendText(d) BY <2>7, CountAdds DEF SendText
  <2> QED BY <1>3, <2>1, <2>2, <2>3, <2>4, <2>5, <2>6, <2>7 DEF Run
<1>4. ASSUME NEW d \in Daemon, End(d) PROVE LoadedOK'
  <2>1. CASE Stop(d) BY <2>1 DEF Stop, Running, Flushing
  <2>2. CASE OpenFile(d) BY <2>2, NothingWritten DEF OpenFile
  <2>3. CASE WriteHead(d) BY <2>3, HeadSays DEF WriteHead
  <2>4. CASE WriteRest(d) BY <2>4, RestSays DEF WriteRest, Others
  <2>5. CASE WriteFails(d) BY <2>5 DEF WriteFails, Fault
  <2>6. CASE Unlink(d) BY <2>6 DEF Unlink, Gone
  <2> QED BY <1>4, <2>1, <2>2, <2>3, <2>4, <2>5, <2>6 DEF End
<1>5. ASSUME NEW d \in Daemon, Kill(d) PROVE LoadedOK'
  BY <1>5 DEF Kill, Exit, Gone, Fault
<1>6. CASE UNCHANGED vars BY <1>6 DEF vars
<1> QED BY <1>2, <1>3, <1>4, <1>5, <1>6 DEF Next

LEMMA KeptStep ==
  ASSUME TypeOK, PlacesOK, ClearOK, LoadedOK, KeptOK, [Next]_vars
  PROVE  KeptOK'
<1>1. Reported \subseteq Reported' /\ lost \subseteq lost' BY Grows
<1> USE <1>1 DEF TypeOK, KeptOK, Holds, Flushing, Running, HeldBy, Goto,
        tableVars, portVars, ghostVars
<1>2. ASSUME NEW d \in Daemon, Begin(d) PROVE KeptOK'
  <2>1. CASE Start(d) BY <2>1 DEF Start
  <2>2. CASE Load(d) BY <2>2 DEF Load, Exit, Gone, PlacesOK
  <2>3. CASE TakeLock(d) BY <2>3 DEF TakeLock, Exit, Gone
  <2>4. CASE CloseLockFile(d) BY <2>4 DEF CloseLockFile
  <2>5. CASE Bind(d) BY <2>5 DEF Bind
  <2>6. CASE Listen(d) BY <2>6 DEF Listen, Exit, Gone
  <2> QED BY <1>2, <2>1, <2>2, <2>3, <2>4, <2>5, <2>6 DEF Begin
<1>3. ASSUME NEW d \in Daemon, Run(d) PROVE KeptOK'
  <2>1. CASE Accept(d) BY <2>1 DEF Accept
  <2>2. CASE Wake(d) BY <2>2 DEF Wake
  <2>3. CASE ReportCounter(d)
    BY <2>3, CountAdds DEF ReportCounter, Report, PlacesOK
  <2>4. CASE ClearCounter(d) BY <2>4 DEF ClearCounter, ClearOK
  <2>5. CASE ClearTimer(d) BY <2>5 DEF ClearTimer, PlacesOK
  <2>6. CASE ReportTimer(d) BY <2>6, CountAdds DEF ReportTimer, Report, Unheard
  <2>7. CASE SendText(d) BY <2>7, CountAdds DEF SendText
  <2> QED BY <1>3, <2>1, <2>2, <2>3, <2>4, <2>5, <2>6, <2>7 DEF Run
<1>4. ASSUME NEW d \in Daemon, End(d) PROVE KeptOK'
  <2>1. CASE Stop(d) BY <2>1 DEF Stop
  <2>2. CASE OpenFile(d)
    BY <2>2 DEF OpenFile, Overwritten, LoadedOK, PlacesOK, Flushing
  <2>3. CASE WriteHead(d)
    BY <2>3 DEF WriteHead, Overwritten, LoadedOK, PlacesOK
  <2>4. CASE WriteRest(d)
    BY <2>4 DEF WriteRest, Overwritten, LoadedOK, PlacesOK
  <2>5. CASE WriteFails(d) BY <2>5 DEF WriteFails, Fault, PlacesOK
  <2>6. CASE Unlink(d) BY <2>6 DEF Unlink, Gone
  <2> QED BY <1>4, <2>1, <2>2, <2>3, <2>4, <2>5, <2>6 DEF End
<1>5. ASSUME NEW d \in Daemon, Kill(d) PROVE KeptOK'
  BY <1>5 DEF Kill, Exit, Gone, Fault
<1>6. CASE UNCHANGED vars BY <1>6 DEF vars
<1> QED BY <1>2, <1>3, <1>4, <1>5, <1>6 DEF Next

LEMMA AgainGrows == ASSUME [Next]_vars PROVE again \subseteq again'
  BY DEF Next, Begin, Run, End, Accept, Start, Load, TakeLock, CloseLockFile,
     Bind, Listen, Wake, ReportCounter, ClearCounter, ClearTimer, ReportTimer,
     SendText, Stop, OpenFile, WriteHead, WriteRest, WriteFails, Unlink, Kill,
     vars, ghostVars

(* The next update is a new one. *)
LEMMA AcceptNumbers ==
  ASSUME NumberedOK, NEW d \in Daemon, Accept(d)
  PROVE  Cardinality(accepted) + 1 \notin accepted /\ NumberedOK'
<1>1. PICK m \in Nat : accepted = 1 .. m BY DEF NumberedOK
<1>2. Cardinality(accepted) = m BY <1>1, FS_Interval
<1>3. accepted' = 1 .. m + 1 BY <1>1, <1>2 DEF Accept
<1> QED BY <1>1, <1>2, <1>3 DEF NumberedOK

LEMMA NumberedStep == ASSUME NumberedOK, [Next]_vars PROVE NumberedOK'
<1>1. ASSUME NEW d \in Daemon, Accept(d) PROVE NumberedOK'
  BY <1>1, AcceptNumbers
<1>2. ASSUME UNCHANGED accepted PROVE NumberedOK' BY <1>2 DEF NumberedOK
<1>3. UNCHANGED accepted \/ \E d \in Daemon : Accept(d)
  BY DEF Next, Begin, Run, End, Start, Load, TakeLock, CloseLockFile, Bind,
     Listen, Wake, ReportCounter, ClearCounter, ClearTimer, ReportTimer,
     SendText, Stop, OpenFile, WriteHead, WriteRest, WriteFails, Unlink, Kill,
     vars, ghostVars
<1> QED BY <1>1, <1>2, <1>3

LEMMA AcceptedStep ==
  ASSUME TypeOK, AcceptedOK, [Next]_vars PROVE AcceptedOK'
<1>1. ASSUME UNCHANGED reported PROVE Reported' = Reported
  BY <1>1 DEF Reported
<1> USE <1>1 DEF TypeOK, AcceptedOK, HeldBy, Goto, tableVars, portVars,
        ghostVars
<1>2. ASSUME NEW d \in Daemon, Begin(d) PROVE AcceptedOK'
  <2>1. CASE Start(d) BY <2>1 DEF Start
  <2>2. CASE Load(d) BY <2>2, FileType DEF Load, Exit, Gone, FileSet
  <2>3. CASE TakeLock(d) BY <2>3 DEF TakeLock, Exit, Gone
  <2>4. CASE CloseLockFile(d) BY <2>4 DEF CloseLockFile
  <2>5. CASE Bind(d) BY <2>5 DEF Bind
  <2>6. CASE Listen(d) BY <2>6 DEF Listen, Exit, Gone
  <2> QED BY <1>2, <2>1, <2>2, <2>3, <2>4, <2>5, <2>6 DEF Begin
<1>3. ASSUME NEW d \in Daemon, Run(d) PROVE AcceptedOK'
  <2>1. CASE Accept(d)
    <3>1. /\ accepted \subseteq accepted' /\ mem'[d] \subseteq accepted'
          /\ UNCHANGED <<file, entry, text, reported>>
          /\ \A e \in Daemon : e # d => mem'[e] = mem[e]
      BY <2>1 DEF Accept
    <3> QED BY <3>1
  <2>2. CASE Wake(d) BY <2>2 DEF Wake
  <2>3. CASE ReportCounter(d) BY <2>3, CountAdds DEF ReportCounter, Report
  <2>4. CASE ClearCounter(d) BY <2>4 DEF ClearCounter
  <2>5. CASE ClearTimer(d) BY <2>5 DEF ClearTimer
  <2>6. CASE ReportTimer(d) BY <2>6, CountAdds DEF ReportTimer, Report
  <2>7. CASE SendText(d) BY <2>7, CountAdds DEF SendText
  <2> QED BY <1>3, <2>1, <2>2, <2>3, <2>4, <2>5, <2>6, <2>7 DEF Run
<1>4. ASSUME NEW d \in Daemon, End(d) PROVE AcceptedOK'
  <2>1. CASE Stop(d) BY <2>1 DEF Stop
  <2>2. CASE OpenFile(d) BY <2>2, NothingWritten DEF OpenFile
  <2>3. CASE WriteHead(d) BY <2>3, ContentsWritten DEF WriteHead
  <2>4. CASE WriteRest(d) BY <2>4, ContentsWritten DEF WriteRest
  <2>5. CASE WriteFails(d) BY <2>5 DEF WriteFails, Fault
  <2>6. CASE Unlink(d) BY <2>6 DEF Unlink, Gone
  <2> QED BY <1>4, <2>1, <2>2, <2>3, <2>4, <2>5, <2>6 DEF End
<1>5. ASSUME NEW d \in Daemon, Kill(d) PROVE AcceptedOK'
  BY <1>5 DEF Kill, Exit, Gone, Fault
<1>6. CASE UNCHANGED vars BY <1>6 DEF vars
<1> QED BY <1>2, <1>3, <1>4, <1>5, <1>6 DEF Next

LEMMA SharedStep ==
  ASSUME TypeOK, PlacesOK, NumberedOK, AcceptedOK, SharedOK, [Next]_vars
  PROVE  SharedOK'
<1>1. again \subseteq again' BY AgainGrows
<1> USE <1>1 DEF TypeOK, SharedOK, HeldBy, Goto, tableVars, portVars, ghostVars
<1>2. ASSUME NEW d \in Daemon, Begin(d) PROVE SharedOK'
  <2>1. CASE Start(d) BY <2>1 DEF Start
  <2>2. CASE Load(d) BY <2>2 DEF Load, Exit, Gone, Others, PlacesOK, Flushing
  <2>3. CASE TakeLock(d) BY <2>3 DEF TakeLock, Exit, Gone
  <2>4. CASE CloseLockFile(d) BY <2>4 DEF CloseLockFile
  <2>5. CASE Bind(d) BY <2>5 DEF Bind
  <2>6. CASE Listen(d) BY <2>6 DEF Listen, Exit, Gone
  <2> QED BY <1>2, <2>1, <2>2, <2>3, <2>4, <2>5, <2>6 DEF Begin
<1>3. ASSUME NEW d \in Daemon, Run(d) PROVE SharedOK'
  <2>1. CASE Accept(d)
    <3>1. Cardinality(accepted) + 1 \notin accepted BY <2>1, AcceptNumbers
    <3> DEFINE u == Cardinality(accepted) + 1
    <3>2. \A e \in Daemon : u \notin HeldBy(e)
      BY <3>1 DEF AcceptedOK
    <3>3. /\ \A e \in Daemon : e # d => mem'[e] = mem[e]
          /\ mem'[d] = mem[d] \union {u}
          /\ UNCHANGED <<entry, text, again>>
      BY <2>1 DEF Accept
    <3> HIDE DEF u
    <3>4. ASSUME NEW e \in Daemon, NEW f \in Daemon, e # f
          PROVE HeldBy(e)' \intersect HeldBy(f)' \subseteq again'
      <4>1. /\ mem'[e] \subseteq mem[e] \union {u}
            /\ mem'[f] \subseteq mem[f] \union {u}
        BY <3>3
      <4>2. (e = d \/ mem'[e] = mem[e]) /\ (f = d \/ mem'[f] = mem[f])
        BY <3>3
      <4> QED BY <3>2, <3>3, <3>4, <4>1, <4>2
    <3> QED BY <3>4
  <2>2. CASE Wake(d) BY <2>2 DEF Wake
  <2>3. CASE ReportCounter(d) BY <2>3 DEF ReportCounter, Report
  <2>4. CASE ClearCounter(d) BY <2>4 DEF ClearCounter
  <2>5. CASE ClearTimer(d) BY <2>5 DEF ClearTimer
  <2>6. CASE ReportTimer(d) BY <2>6 DEF ReportTimer, Report
  <2>7. CASE SendText(d) BY <2>7 DEF SendText
  <2> QED BY <1>3, <2>1, <2>2, <2>3, <2>4, <2>5, <2>6, <2>7 DEF Run
<1>4. ASSUME NEW d \in Daemon, End(d) PROVE SharedOK'
  <2>1. CASE Stop(d) BY <2>1 DEF Stop
  <2>2. CASE OpenFile(d) BY <2>2 DEF OpenFile
  <2>3. CASE WriteHead(d) BY <2>3 DEF WriteHead
  <2>4. CASE WriteRest(d) BY <2>4 DEF WriteRest
  <2>5. CASE WriteFails(d) BY <2>5 DEF WriteFails, Fault
  <2>6. CASE Unlink(d) BY <2>6 DEF Unlink, Gone
  <2> QED BY <1>4, <2>1, <2>2, <2>3, <2>4, <2>5, <2>6 DEF End
<1>5. ASSUME NEW d \in Daemon, Kill(d) PROVE SharedOK'
  BY <1>5 DEF Kill, Exit, Gone, Fault
<1>6. CASE UNCHANGED vars BY <1>6 DEF vars
<1> QED BY <1>2, <1>3, <1>4, <1>5, <1>6 DEF Next

LEMMA PendingStep ==
  ASSUME TypeOK, PlacesOK, NumberedOK, AcceptedOK, SharedOK, PendingOK, FileOK,
         [Next]_vars
  PROVE  PendingOK'
<1>1. again \subseteq again' BY AgainGrows
<1>7. ASSUME UNCHANGED reported PROVE Reported' = Reported
  BY <1>7 DEF Reported
<1> USE <1>1, <1>7 DEF TypeOK, PendingOK, HeldBy, Goto, tableVars, portVars,
        ghostVars
<1>2. ASSUME NEW d \in Daemon, Begin(d) PROVE PendingOK'
  <2>1. CASE Start(d) BY <2>1 DEF Start
  <2>2. CASE Load(d)
    BY <2>2, FileType DEF Load, Exit, Gone, FileSet, Others, PlacesOK, FileOK,
       Flushing
  <2>3. CASE TakeLock(d) BY <2>3 DEF TakeLock, Exit, Gone
  <2>4. CASE CloseLockFile(d) BY <2>4 DEF CloseLockFile
  <2>5. CASE Bind(d) BY <2>5 DEF Bind
  <2>6. CASE Listen(d) BY <2>6 DEF Listen, Exit, Gone
  <2> QED BY <1>2, <2>1, <2>2, <2>3, <2>4, <2>5, <2>6 DEF Begin
<1>3. ASSUME NEW d \in Daemon, Run(d) PROVE PendingOK'
  <2>1. CASE Accept(d)
    <3>1. Cardinality(accepted) + 1 \notin Reported
      BY <2>1, AcceptNumbers DEF AcceptedOK
    <3> QED BY <2>1, <3>1 DEF Accept
  <2>2. CASE Wake(d) BY <2>2 DEF Wake
  <2>3. CASE ReportCounter(d)
    BY <2>3, CountAdds DEF ReportCounter, Report, SharedOK, PlacesOK, Flushing
  <2>4. CASE ClearCounter(d) BY <2>4 DEF ClearCounter, PlacesOK
  <2>5. CASE ClearTimer(d) BY <2>5 DEF ClearTimer, PlacesOK
  <2>6. CASE ReportTimer(d)
    BY <2>6, CountAdds DEF ReportTimer, Report, SharedOK, PlacesOK, Flushing
  <2>7. CASE SendText(d)
    BY <2>7, CountAdds DEF SendText, SharedOK, PlacesOK, Flushing
  <2> QED BY <1>3, <2>1, <2>2, <2>3, <2>4, <2>5, <2>6, <2>7 DEF Run
<1>4. ASSUME NEW d \in Daemon, End(d) PROVE PendingOK'
  <2>1. CASE Stop(d) BY <2>1 DEF Stop, PlacesOK
  <2>2. CASE OpenFile(d) BY <2>2 DEF OpenFile
  <2>3. CASE WriteHead(d) BY <2>3 DEF WriteHead
  <2>4. CASE WriteRest(d) BY <2>4 DEF WriteRest
  <2>5. CASE WriteFails(d) BY <2>5 DEF WriteFails, Fault
  <2>6. CASE Unlink(d) BY <2>6 DEF Unlink, Gone
  <2> QED BY <1>4, <2>1, <2>2, <2>3, <2>4, <2>5, <2>6 DEF End
<1>5. ASSUME NEW d \in Daemon, Kill(d) PROVE PendingOK'
  BY <1>5 DEF Kill, Exit, Gone, Fault
<1>6. CASE UNCHANGED vars BY <1>6 DEF vars
<1> QED BY <1>2, <1>3, <1>4, <1>5, <1>6 DEF Next

LEMMA FileStep ==
  ASSUME TypeOK, PlacesOK, PendingOK, FileOK, [Next]_vars PROVE FileOK'
<1>1. again \subseteq again' BY AgainGrows
<1>7. ASSUME UNCHANGED reported PROVE Reported' = Reported
  BY <1>7 DEF Reported
<1> USE <1>1, <1>7 DEF TypeOK, FileOK, Flushing, Running, Goto, tableVars,
        portVars, ghostVars
<1>2. ASSUME NEW d \in Daemon, Begin(d) PROVE FileOK'
  <2>1. CASE Start(d) BY <2>1 DEF Start
  <2>2. CASE Load(d) BY <2>2 DEF Load, Exit, Gone
  <2>3. CASE TakeLock(d) BY <2>3 DEF TakeLock, Exit, Gone
  <2>4. CASE CloseLockFile(d) BY <2>4 DEF CloseLockFile
  <2>5. CASE Bind(d) BY <2>5 DEF Bind
  <2>6. CASE Listen(d) BY <2>6 DEF Listen, Exit, Gone
  <2> QED BY <1>2, <2>1, <2>2, <2>3, <2>4, <2>5, <2>6 DEF Begin
<1>3. ASSUME NEW d \in Daemon, Run(d) PROVE FileOK'
  <2>1. CASE Accept(d) BY <2>1 DEF Accept
  <2>2. CASE Wake(d) BY <2>2 DEF Wake
  <2>3. CASE ReportCounter(d) BY <2>3 DEF ReportCounter, Report
  <2>4. CASE ClearCounter(d) BY <2>4 DEF ClearCounter
  <2>5. CASE ClearTimer(d) BY <2>5 DEF ClearTimer
  <2>6. CASE ReportTimer(d) BY <2>6 DEF ReportTimer, Report
  <2>7. CASE SendText(d) BY <2>7 DEF SendText
  <2> QED BY <1>3, <2>1, <2>2, <2>3, <2>4, <2>5, <2>6, <2>7 DEF Run
<1>4. ASSUME NEW d \in Daemon, End(d) PROVE FileOK'
  <2>1. CASE Stop(d) BY <2>1 DEF Stop
  <2>2. CASE OpenFile(d) BY <2>2, NothingWritten DEF OpenFile
  <2>3. CASE WriteHead(d)
    BY <2>3, ContentsWritten DEF WriteHead, PendingOK, PlacesOK
  <2>4. CASE WriteRest(d)
    BY <2>4, ContentsWritten DEF WriteRest, PendingOK, PlacesOK
  <2>5. CASE WriteFails(d) BY <2>5 DEF WriteFails, Fault
  <2>6. CASE Unlink(d) BY <2>6 DEF Unlink, Gone
  <2> QED BY <1>4, <2>1, <2>2, <2>3, <2>4, <2>5, <2>6 DEF End
<1>5. ASSUME NEW d \in Daemon, Kill(d) PROVE FileOK'
  BY <1>5 DEF Kill, Exit, Gone, Fault
<1>6. CASE UNCHANGED vars BY <1>6 DEF vars
<1> QED BY <1>2, <1>3, <1>4, <1>5, <1>6 DEF Next

LEMMA TwiceStep ==
  ASSUME TypeOK, PlacesOK, PendingOK, TwiceNeedsFault, [Next]_vars
  PROVE  TwiceNeedsFault'
<1>1. again \subseteq again' BY AgainGrows
<1>7. ASSUME UNCHANGED reported PROVE TwiceNeedsFault'
  BY <1>1, <1>7 DEF TwiceNeedsFault
<1> USE <1>1, <1>7 DEF TypeOK, Goto, tableVars, portVars, ghostVars
<1>2. ASSUME NEW d \in Daemon, Begin(d) PROVE TwiceNeedsFault'
  <2>1. CASE Start(d) BY <2>1 DEF Start
  <2>2. CASE Load(d) BY <2>2 DEF Load, Exit, Gone
  <2>3. CASE TakeLock(d) BY <2>3 DEF TakeLock, Exit, Gone
  <2>4. CASE CloseLockFile(d) BY <2>4 DEF CloseLockFile
  <2>5. CASE Bind(d) BY <2>5 DEF Bind
  <2>6. CASE Listen(d) BY <2>6 DEF Listen, Exit, Gone
  <2> QED BY <1>2, <2>1, <2>2, <2>3, <2>4, <2>5, <2>6 DEF Begin
<1>3. ASSUME NEW d \in Daemon, Run(d) PROVE TwiceNeedsFault'
  <2>1. CASE Accept(d) BY <2>1 DEF Accept
  <2>2. CASE Wake(d) BY <2>2 DEF Wake
  <2>3. CASE ReportCounter(d)
    BY <2>3, CountAdds DEF ReportCounter, Report, PlacesOK, PendingOK,
       TwiceNeedsFault, Reported
  <2>4. CASE ClearCounter(d) BY <2>4 DEF ClearCounter
  <2>5. CASE ClearTimer(d) BY <2>5 DEF ClearTimer
  <2>6. CASE ReportTimer(d)
    BY <2>6, CountAdds DEF ReportTimer, Report, PendingOK, TwiceNeedsFault,
       Reported
  <2>7. CASE SendText(d)
    BY <2>7, CountAdds DEF SendText, PendingOK, TwiceNeedsFault, Reported
  <2> QED BY <1>3, <2>1, <2>2, <2>3, <2>4, <2>5, <2>6, <2>7 DEF Run
<1>4. ASSUME NEW d \in Daemon, End(d) PROVE TwiceNeedsFault'
  <2>1. CASE Stop(d) BY <2>1 DEF Stop
  <2>2. CASE OpenFile(d) BY <2>2 DEF OpenFile
  <2>3. CASE WriteHead(d) BY <2>3 DEF WriteHead
  <2>4. CASE WriteRest(d) BY <2>4 DEF WriteRest
  <2>5. CASE WriteFails(d) BY <2>5 DEF WriteFails, Fault
  <2>6. CASE Unlink(d) BY <2>6 DEF Unlink, Gone
  <2> QED BY <1>4, <2>1, <2>2, <2>3, <2>4, <2>5, <2>6 DEF End
<1>5. ASSUME NEW d \in Daemon, Kill(d) PROVE TwiceNeedsFault'
  BY <1>5 DEF Kill, Exit, Gone, Fault
<1>6. CASE UNCHANGED vars BY <1>6 DEF vars
<1> QED BY <1>2, <1>3, <1>4, <1>5, <1>6 DEF Next

LEMMA LeftStep ==
  ASSUME TypeOK, WriterOK, LeftOK, [Next]_vars PROVE LeftOK'
<1>1. file.head = NULL \/ file.head.by \in Daemon
  BY DEF TypeOK, FilePiece
<1> USE <1>1, PersistenceAssumption DEF TypeOK, LeftOK, Fault, Goto, tableVars,
        portVars, ghostVars
<1>2. ASSUME NEW d \in Daemon, Begin(d) PROVE LeftOK'
  <2>1. CASE Start(d) BY <2>1 DEF Start
  <2>2. CASE Load(d) BY <2>2 DEF Load, Exit, Gone
  <2>3. CASE TakeLock(d) BY <2>3 DEF TakeLock, Exit, Gone
  <2>4. CASE CloseLockFile(d) BY <2>4 DEF CloseLockFile
  <2>5. CASE Bind(d) BY <2>5 DEF Bind
  <2>6. CASE Listen(d) BY <2>6 DEF Listen, Exit, Gone, Running, Flushing
  <2> QED BY <1>2, <2>1, <2>2, <2>3, <2>4, <2>5, <2>6 DEF Begin
<1>3. ASSUME NEW d \in Daemon, Run(d) PROVE LeftOK'
  <2>1. CASE Accept(d) BY <2>1 DEF Accept
  <2>2. CASE Wake(d) BY <2>2 DEF Wake
  <2>3. CASE ReportCounter(d) BY <2>3 DEF ReportCounter, Report
  <2>4. CASE ClearCounter(d) BY <2>4 DEF ClearCounter
  <2>5. CASE ClearTimer(d) BY <2>5 DEF ClearTimer
  <2>6. CASE ReportTimer(d) BY <2>6 DEF ReportTimer, Report
  <2>7. CASE SendText(d) BY <2>7 DEF SendText
  <2> QED BY <1>3, <2>1, <2>2, <2>3, <2>4, <2>5, <2>6, <2>7 DEF Run
<1>4. ASSUME NEW d \in Daemon, End(d) PROVE LeftOK'
  <2>1. CASE Stop(d) BY <2>1 DEF Stop, Running, Flushing
  <2>2. CASE OpenFile(d) BY <2>2 DEF OpenFile, NoFile
  <2>3. CASE WriteHead(d)
    <3>1. file'.head # NULL /\ file'.head.by = d /\ pc'[d] = "rest"
      BY <2>3, PieceType DEF WriteHead
    <3> QED BY <2>3, <3>1 DEF WriteHead
  <2>4. CASE WriteRest(d)
    <3>1. ASSUME pc[d] = "rest", file' = [file EXCEPT !.tail = Piece(d, TRUE)]
          PROVE  LeftOK'
      <4>1. /\ file'.head = file.head /\ file'.tail = Piece(d, TRUE)
            /\ file'.tail # NULL /\ file'.tail.by = d
        BY <3>1, PieceType
      <4>2. file.head # NULL /\ file.head.by = d => file.head = file'.tail
        BY <3>1, <4>1 DEF WriterOK
      <4> QED BY <2>4, <3>1, <4>1, <4>2 DEF WriteRest
    <3>2. ASSUME file' = [file EXCEPT !.head = Piece(d, FALSE)] PROVE LeftOK'
      BY <3>2, PieceType
    <3> QED BY <2>4, <3>1, <3>2 DEF WriteRest
  <2>5. CASE WriteFails(d) BY <2>5 DEF WriteFails, Fault
  <2>6. CASE Unlink(d) BY <2>6 DEF Unlink, Gone
  <2> QED BY <1>4, <2>1, <2>2, <2>3, <2>4, <2>5, <2>6 DEF End
<1>5. ASSUME NEW d \in Daemon, Kill(d) PROVE LeftOK'
  BY <1>5 DEF Kill, Exit, Gone, Fault
<1>6. CASE UNCHANGED vars BY <1>6 DEF vars
<1> QED BY <1>2, <1>3, <1>4, <1>5, <1>6 DEF Next

------------------------------------------------------------------------------
KInv == TypeOK /\ PlacesOK /\ ClearOK /\ WriterOK /\ LoadedOK /\ KeptOK
TInv ==
  /\ TypeOK /\ PlacesOK /\ NumberedOK /\ AcceptedOK /\ SharedOK
  /\ PendingOK /\ FileOK /\ TwiceNeedsFault
PInv == TypeOK /\ WriterOK /\ LeftOK

LEMMA KInit == Init => KInv
<1> SUFFICES ASSUME Init PROVE KInv OBVIOUS
<1>1. TypeOK BY TypeInit
<1>2. PlacesOK /\ ClearOK /\ WriterOK /\ LoadedOK
  BY DEF Init, PlacesOK, ClearOK, WriterOK, LoadedOK, Flushing
<1>3. KeptOK BY DEF Init, KeptOK
<1> QED BY <1>1, <1>2, <1>3 DEF KInv

LEMMA TInit == Init => TInv
<1> SUFFICES ASSUME Init PROVE TInv OBVIOUS
<1>1. TypeOK BY TypeInit
<1>2. PlacesOK BY DEF Init, PlacesOK, Flushing
<1>3. NumberedOK
  <2>1. accepted = 1 .. 0 BY DEF Init
  <2> QED BY <2>1 DEF NumberedOK
<1>4. Reported = {} BY DEF Init, Reported
<1>5. Contents(file) = {} BY NothingWritten DEF Init
<1>6. AcceptedOK /\ SharedOK /\ PendingOK /\ FileOK
  BY <1>4, <1>5 DEF Init, AcceptedOK, SharedOK, PendingOK, FileOK, HeldBy
<1>7. TwiceNeedsFault BY DEF Init, TwiceNeedsFault
<1> QED BY <1>1, <1>2, <1>3, <1>6, <1>7 DEF TInv

LEMMA PInit == Init => PInv
<1> SUFFICES ASSUME Init PROVE PInv OBVIOUS
<1>1. TypeOK BY TypeInit
<1>2. file.head = NULL /\ file.tail = NULL BY DEF Init, NoFile
<1>3. \A d \in Daemon : pc[d] = "off" BY DEF Init
<1>4. WriterOK /\ LeftOK BY <1>2, <1>3 DEF WriterOK, LeftOK
<1> QED BY <1>1, <1>4 DEF PInv

(* The tables, what a flush has in its hands, the text, the two pieces of   *)
(* the state file and the counts are what their names say, over any         *)
(* sequence of starts, ends and kills.                                      *)
THEOREM TypeCorrect == Spec => []TypeOK
<1>1. TypeOK /\ [Next]_vars => TypeOK' BY TypeStep
<1> QED BY TypeInit, <1>1, PTL DEF Spec

(* No update disappears over any sequence of starts and ends (cleanup,      *)
(* statsd_serialize, statsd_deserialize), but for the timer or text that a  *)
(* flush had in its hands when a signal came, what is cleared after a       *)
(* failed gmetric_open, a kill, an exit at the management port, a failed    *)
(* save, and two saves that wrote over each other or mixed.                 *)
THEOREM UpdatesKept == Spec => []EveryUpdateKept
<1>1. KInv /\ [Next]_vars => KInv'
  BY TypeStep, PlacesStep, ClearStep, WriterStep, LoadedStep, KeptStep DEF KInv
<1>2. KInv => EveryUpdateKept
  BY DEF KInv, KeptOK, EveryUpdateKept, Held
<1> QED BY KInit, <1>1, <1>2, PTL DEF Spec

(* A backend gets an update twice only where the state that the daemon      *)
(* loaded or saved named it beside another report of it.                    *)
THEOREM ReportedTwice == Spec => []TwiceNeedsFault
<1>1. TInv /\ [Next]_vars => TInv'
  BY TypeStep, PlacesStep, NumberedStep, AcceptedStep, SharedStep, PendingStep,
     FileStep, TwiceStep DEF TInv
<1>2. TInv => TwiceNeedsFault BY DEF TInv
<1> QED BY TInit, <1>1, <1>2, PTL DEF Spec

(* When nobody writes and no fault has been, statsd_serialize has left a    *)
(* whole text, or one daemon's head with another one's tail: no save of     *)
(* several at once, each with a FILE of its own, leaves a text that is cut  *)
(* short or has lost its head.                                              *)
THEOREM FileReadable == Spec => []PartialNeedsFault
<1>1. PInv /\ [Next]_vars => PInv'
  BY TypeStep, WriterStep, LeftStep DEF PInv
<1>2. ASSUME PInv, faults = 0, file # NoFile,
             \A d \in Daemon : pc[d] \notin {"write", "rest"}
      PROVE  Whole(file) \/ (Mixed(file) /\ file.head.by # file.tail.by)
  <2>1. file \in FileSet BY <1>2 DEF PInv, TypeOK, FileSet
  <2>2. file.head # NULL \/ file.tail # NULL
    BY <1>2, <2>1 DEF NoFile, FileSet
  <2>3. file.head # NULL BY <1>2, <2>2 DEF PInv, LeftOK
  <2>4. file.head.by \in Daemon BY <2>1, <2>3 DEF FileSet, FilePiece
  <2>5. pc[file.head.by] # "rest" BY <1>2, <2>4
  <2>6. ASSUME file.head.long
        PROVE  file.tail = file.head
                 \/ (file.tail # NULL /\ file.tail.by # file.head.by)
    BY <1>2, <2>3, <2>5, <2>6 DEF PInv, LeftOK
  <2> QED BY <2>3, <2>6 DEF Whole, Mixed
<1>3. PInv => faults \in Nat BY DEF PInv, TypeOK
<1>4. PInv => PartialNeedsFault BY <1>2, <1>3 DEF PartialNeedsFault
<1> QED BY PInit, <1>1, <1>4, PTL DEF Spec

------------------------------------------------------------------------------
(***************************************************************************)
(* statsd_serialize adds the fields of its objects to lh_tables, and the   *)
(* parser that statsd_deserialize calls adds them again.                   *)
(***************************************************************************)
(* The places from s up to but without p, and with p, going round a table of *)
(* z places.                                                                 *)
Passed(s, p, z) == IF s <= p THEN s .. p - 1 ELSE (0 .. z - 1) \ (p .. s - 1)
Path(s, p, z) == IF s <= p THEN s .. p ELSE (0 .. z - 1) \ (p + 1 .. s - 1)

Entry == [k : Key \union {EMPTY, FREED}, v : Value \union {NoValue}]

TableType(tb) ==
  /\ SizeOf(tb) \in Nat /\ SizeOf(tb) >= 3
  /\ tb.at \in [0 .. SizeOf(tb) - 1 -> Entry]
  /\ tb.list \in Seq(0 .. SizeOf(tb) - 1)

(* The list goes through the places in use. *)
ListSound(tb) ==
  \A p \in DOMAIN tb.at :
    tb.at[p].k \in Key <=> \E i \in DOMAIN tb.list : tb.list[i] = p

(* A key has one place. *)
KeySound(tb) ==
  \A i, j \in DOMAIN tb.list :
    tb.at[tb.list[i]].k = tb.at[tb.list[j]].k => i = j

(* No place on a key's way was never used. *)
PathSound(tb) ==
  \A p \in DOMAIN tb.at :
    tb.at[p].k \in Key =>
      \A q \in Path(FirstPlace(tb, tb.at[p].k), p, SizeOf(tb)) :
        tb.at[q].k # EMPTY

EmptySound(tb) ==
  \A p \in DOMAIN tb.at : tb.at[p].k = EMPTY => tb.at[p].v = NoValue

Sound(tb) == /\ TableType(tb) /\ ListSound(tb) /\ KeySound(tb)
             /\ PathSound(tb) /\ EmptySound(tb)

Lacks(tb, k) == \A p \in DOMAIN tb.at : tb.at[p].k # k

StateType ==
  /\ hash \in Hashes
  /\ call \in {"idle", "delete", "insert", "resize", "get"}
  /\ call # "idle" => key \in Key
  /\ call \in {"delete", "insert", "resize"} => val \in Value
  /\ n \in 0 .. size - 1

(* Only between a deletion and the insertion that follows is a place freed, *)
(* and only one; the insertion meets it before a place that was never used. *)
FreedOK ==
  \A p \in DOMAIN t.at : t.at[p].k = FREED =>
    /\ call \in {"insert", "resize"}
    /\ \A q \in DOMAIN t.at : t.at[q].k = FREED => q = p
    /\ call = "insert" =>
         \A q \in Path(FirstPlace(t, key), p, size) : t.at[q].k # EMPTY

(* An insertion that follows puts the table above two thirds by one entry  *)
(* at most, the freed place counted as used.                               *)
RoomOK ==
  /\ 100 * count <= 66 * size + 100
  /\ call = "insert" \/ ~Lacks(t, FREED) => 100 * count <= 66 * size

(* What a loop has gone past is not the key, or not a place to insert at.  *)
ProbeOK ==
  /\ call \in {"delete", "get"} =>
       \A q \in Passed(FirstPlace(t, key), n, size) : t.at[q].k # key
  /\ call = "insert" =>
       \A q \in Passed(FirstPlace(t, key), n, size) : t.at[q].k \in Key
  /\ call \in {"insert", "resize"} => Lacks(t, key)

(* The new table has the first n entries of the old one.                   *)
MoveOK ==
  call = "resize" =>
    /\ Sound(new) /\ Lacks(new, FREED)
    /\ SizeOf(new) = 2 * size
    /\ Len(new.list) = n /\ n <= count
    /\ \A i \in 1 .. n : new.at[new.list[i]] = t.at[t.list[i]]

IInv == Sound(t) /\ StateType /\ FreedOK /\ RoomOK /\ ProbeOK /\ MoveOK

------------------------------------------------------------------------------
(* Places going round the table. *)

LEMMA PathBound ==
  ASSUME NEW z \in Nat, NEW s \in 0 .. z - 1, NEW p \in 0 .. z - 1
  PROVE  /\ Passed(s, p, z) \subseteq 0 .. z - 1
         /\ Path(s, p, z) \subseteq 0 .. z - 1
BY DEF Passed, Path

LEMMA PathIsPassed ==
  ASSUME NEW z \in Nat, NEW s \in 0 .. z - 1, NEW p \in 0 .. z - 1
  PROVE  \A q \in Path(s, p, z) : q \in Passed(s, p, z) \/ q = p
BY DEF Passed, Path

LEMMA NothingPassed ==
  ASSUME NEW z \in Nat, NEW s \in 0 .. z - 1 PROVE Passed(s, s, z) = {}
BY DEF Passed

LEMMA PassedGrows ==
  ASSUME NEW z \in Nat, NEW s \in 0 .. z - 1, NEW p \in 0 .. z - 1
  PROVE  \A q \in Passed(s, IF p + 1 = z THEN 0 ELSE p + 1, z) :
           q \in Passed(s, p, z) \/ q = p
BY DEF Passed

LEMMA OffPath ==
  ASSUME NEW z \in Nat, NEW s \in 0 .. z - 1, NEW p \in 0 .. z - 1,
         NEW m \in 0 .. z - 1, m \notin Path(s, p, z)
  PROVE  p \in Passed(s, m, z)
BY DEF Passed, Path

(* The e-th place from s. *)
LEMMA Wrap ==
  ASSUME NEW z \in Nat, NEW s \in 0 .. z - 1, NEW e \in 0 .. z - 1
  PROVE  (s + e) % z = IF s + e < z THEN s + e ELSE s + e - z
OBVIOUS

LEMMA PassedIsBefore ==
  ASSUME NEW z \in Nat, NEW s \in 0 .. z - 1, NEW d \in 0 .. z - 1,
         NEW q \in Passed(s, (s + d) % z, z)
  PROVE  \E e \in 0 .. d - 1 : q = (s + e) % z
<1>1. (s + d) % z = IF s + d < z THEN s + d ELSE s + d - z BY Wrap
<1>2. CASE q >= s
  <2>1. q - s \in 0 .. d - 1 BY <1>1, <1>2 DEF Passed
  <2>2. PICK e \in 0 .. d - 1 : e = q - s BY <2>1
  <2>3. s + e = q /\ q < z /\ e \in 0 .. z - 1 BY <2>2, <1>1, <1>2 DEF Passed
  <2>4. (s + e) % z = q BY <2>3, Wrap
  <2> QED BY <2>4
<1>3. CASE q < s
  <2>1. q - s + z \in 0 .. d - 1 BY <1>1, <1>3 DEF Passed
  <2>2. PICK e \in 0 .. d - 1 : e = q - s + z BY <2>1
  <2>3. ~(s + e < z) /\ s + e - z = q /\ e \in 0 .. z - 1
    BY <2>2, <1>1, <1>3 DEF Passed
  <2>4. (s + e) % z = q BY <2>3, <1>3, Wrap
  <2> QED BY <2>4
<1> QED BY <1>2, <1>3 DEF Passed

(* A set of numbers that is not empty has a least one. *)
LEMMA Least ==
  ASSUME NEW S \in SUBSET Nat, S # {}
  PROVE  \E d \in S : \A e \in S : d <= e
<1>1. \E d \in S : \A e \in S : <<e, d>> \notin OpToRel(<, Nat)
  BY NatLessThanWellFounded, WFMin, Zenon
<1>2. PICK d \in S : \A e \in S : <<e, d>> \notin OpToRel(<, Nat) BY <1>1
<1>3. \A e \in S : ~(e < d) BY <1>2 DEF OpToRel
<1> QED BY <1>3

(* A list that is shorter than the table leaves a place out. *)
LEMMA PlaceLeft ==
  ASSUME NEW z \in Nat, NEW list \in Seq(0 .. z - 1), Len(list) < z
  PROVE  \E p \in 0 .. z - 1 : \A i \in DOMAIN list : list[i] # p
<1> SUFFICES ASSUME \A p \in 0 .. z - 1 : \E i \in DOMAIN list : list[i] = p
             PROVE  FALSE
  OBVIOUS
<1>1. list \in [1 .. Len(list) -> 0 .. z - 1] /\ Len(list) \in Nat
  BY LenProperties
<1>2. list \in Surjection(1 .. Len(list), 0 .. z - 1)
  BY <1>1 DEF Surjection
<1>3. ExistsSurjection(1 .. Len(list), 0 .. z - 1)
  BY <1>2 DEF ExistsSurjection
<1>4. Cardinality(0 .. z - 1) <= Len(list)
  BY <1>1, <1>3, FS_SurjCardinalityBound
<1>5. Cardinality(0 .. z - 1) = z BY FS_Interval
<1> QED BY <1>1, <1>4, <1>5

(* What is left of a sequence without one of its elements. *)
LEMMA Removed ==
  ASSUME NEW S, NEW seq \in Seq(S), NEW l \in 1 .. Len(seq)
  PROVE  /\ RemoveAt(seq, l) \in Seq(S)
         /\ Len(RemoveAt(seq, l)) = Len(seq) - 1
         /\ \A i \in 1 .. Len(seq) - 1 :
              RemoveAt(seq, l)[i] = IF i < l THEN seq[i] ELSE seq[i + 1]
<1> DEFINE a == SubSeq(seq, 1, l - 1)
           b == SubSeq(seq, l + 1, Len(seq))
<1>1. /\ a \in Seq(S) /\ Len(a) = l - 1
      /\ \A i \in 1 .. l - 1 : a[i] = seq[i]
  BY SubSeqProperties
<1>2. /\ b \in Seq(S) /\ Len(b) = Len(seq) - l
      /\ \A i \in 1 .. Len(seq) - l : b[i] = seq[i + l]
  BY SubSeqProperties
<1> HIDE DEF a, b
<1>3. /\ a \o b \in Seq(S)
      /\ Len(a \o b) = Len(a) + Len(b)
      /\ \A i \in 1 .. Len(a) + Len(b) :
           (a \o b)[i] = IF i <= Len(a) THEN a[i] ELSE b[i - Len(a)]
  BY <1>1, <1>2, ConcatProperties
<1>5. Len(seq) \in Nat /\ Len(a) + Len(b) = Len(seq) - 1 BY <1>1, <1>2
<1>6. ASSUME NEW i \in 1 .. Len(seq) - 1
      PROVE  (a \o b)[i] = IF i < l THEN seq[i] ELSE seq[i + 1]
  <2>1. CASE i < l
    <3>1. (a \o b)[i] = a[i] BY <1>1, <1>3, <1>5, <2>1
    <3> QED BY <1>1, <2>1, <3>1
  <2>2. CASE i >= l
    <3>1. PICK m \in 1 .. Len(seq) - l : m = i - (l - 1) BY <1>5, <2>2
    <3>2. (a \o b)[i] = b[m] BY <1>1, <1>3, <1>5, <2>2, <3>1
    <3>3. m + l = i + 1 BY <1>5, <3>1
    <3> QED BY <1>2, <2>2, <3>1, <3>2, <3>3
  <2> QED BY <2>1, <2>2, <1>5
<1>4. RemoveAt(seq, l) = a \o b BY DEF RemoveAt, a, b
<1> QED BY <1>3, <1>4, <1>5, <1>6

------------------------------------------------------------------------------
(* One table. *)

LEMMA TableFacts ==
  ASSUME NEW tb, TableType(tb)
  PROVE  /\ SizeOf(tb) \in Nat /\ SizeOf(tb) >= 3
         /\ DOMAIN tb.at = 0 .. SizeOf(tb) - 1
         /\ \A p \in 0 .. SizeOf(tb) - 1 : tb.at[p] \in Entry
         /\ tb.list \in Seq(0 .. SizeOf(tb) - 1) /\ Len(tb.list) \in Nat
         /\ DOMAIN tb.list = 1 .. Len(tb.list)
         /\ \A i \in 1 .. Len(tb.list) : tb.list[i] \in 0 .. SizeOf(tb) - 1
<1> USE DEF TableType
<1>1. /\ SizeOf(tb) \in Nat /\ SizeOf(tb) >= 3
      /\ DOMAIN tb.at = 0 .. SizeOf(tb) - 1
      /\ \A p \in 0 .. SizeOf(tb) - 1 : tb.at[p] \in Entry
  OBVIOUS
<1>2. /\ tb.list \in Seq(0 .. SizeOf(tb) - 1) /\ Len(tb.list) \in Nat
      /\ DOMAIN tb.list = 1 .. Len(tb.list)
  BY LenProperties
<1>3. \A i \in 1 .. Len(tb.list) : tb.list[i] \in 0 .. SizeOf(tb) - 1
  BY <1>2, ElementOfSeq
<1> QED BY <1>1, <1>2, <1>3

LEMMA StartType ==
  ASSUME hash \in Hashes, NEW tb, TableType(tb),
         NEW k \in Key
  PROVE  FirstPlace(tb, k) \in 0 .. SizeOf(tb) - 1
<1>1. hash[k] \in Nat BY LinkHashAssumption
<1>2. SizeOf(tb) \in Nat /\ SizeOf(tb) >= 3 BY TableFacts
<1> QED BY <1>1, <1>2 DEF FirstPlace

LEMMA SizeFromDomain ==
  ASSUME NEW tb, NEW z \in Nat, DOMAIN tb.at = 0 .. z - 1
  PROVE  SizeOf(tb) = z
<1>1. Cardinality(0 .. z - 1) = z BY FS_Interval
<1> QED BY <1>1 DEF SizeOf

LEMMA NewTableSound ==
  ASSUME NEW z \in Nat, z >= 3
  PROVE  /\ Sound(lh_table_new(z)) /\ SizeOf(lh_table_new(z)) = z
         /\ Len(lh_table_new(z).list) = 0
         /\ Lacks(lh_table_new(z), FREED)
         /\ \A k \in Key : Lacks(lh_table_new(z), k)
<1> DEFINE tb == lh_table_new(z)
<1>1. /\ DOMAIN tb.at = 0 .. z - 1
      /\ \A p \in 0 .. z - 1 : tb.at[p] = [k |-> EMPTY, v |-> NoValue]
      /\ tb.at \in [0 .. z - 1 -> Entry]
      /\ tb.list = <<>>
  BY DEF lh_table_new, Unused, Entry
<1>2. SizeOf(tb) = z BY <1>1, SizeFromDomain
<1> HIDE DEF tb
<1>3. \A p \in 0 .. z - 1 : tb.at[p].k = EMPTY /\ tb.at[p].v = NoValue BY <1>1
<1>4. Lacks(tb, FREED) /\ \A k \in Key : Lacks(tb, k)
  BY <1>1, <1>3, LinkHashAssumption DEF Lacks
<1>5. tb.list \in Seq(0 .. z - 1) /\ Len(tb.list) = 0 /\ DOMAIN tb.list = {}
  BY <1>1
<1>6. TableType(tb) BY <1>1, <1>2, <1>5 DEF TableType
<1>7. ListSound(tb) /\ KeySound(tb) /\ PathSound(tb) /\ EmptySound(tb)
  BY <1>1, <1>3, <1>5, LinkHashAssumption
  DEF ListSound, KeySound, PathSound, EmptySound
<1> QED BY <1>2, <1>4, <1>5, <1>6, <1>7 DEF Sound, tb

LEMMA PutFacts ==
  ASSUME NEW tb, TableType(tb), NEW i \in 0 .. SizeOf(tb) - 1,
         NEW k \in Key, NEW v \in Value \union {NoValue}
  PROVE  LET u == Put(tb, i, k, v)
         IN /\ TableType(u) /\ SizeOf(u) = SizeOf(tb)
            /\ Len(u.list) = Len(tb.list) + 1
            /\ \A j \in 1 .. Len(tb.list) : u.list[j] = tb.list[j]
            /\ u.list[Len(tb.list) + 1] = i
            /\ u.at[i] = [k |-> k, v |-> v]
            /\ \A p \in 0 .. SizeOf(tb) - 1 : p # i => u.at[p] = tb.at[p]
            /\ \A x : FirstPlace(u, x) = FirstPlace(tb, x)
<1> DEFINE z == SizeOf(tb)
           e == [k |-> k, v |-> v]
           u == Put(tb, i, k, v)
<1>1. /\ z \in Nat /\ z >= 3 /\ DOMAIN tb.at = 0 .. z - 1
      /\ tb.list \in Seq(0 .. z - 1)
      /\ tb.at \in [0 .. z - 1 -> Entry]
  BY TableFacts DEF TableType
<1>2. u.at = [tb.at EXCEPT ![i] = e] /\ u.list = Append(tb.list, i)
  BY DEF Put
<1>3. e \in Entry BY DEF Entry
<1> HIDE DEF e, u
<1>4. /\ u.at \in [0 .. z - 1 -> Entry] /\ u.at[i] = e
      /\ \A p \in 0 .. z - 1 : p # i => u.at[p] = tb.at[p]
  BY <1>1, <1>2, <1>3
<1>5. /\ u.list \in Seq(0 .. z - 1) /\ Len(u.list) = Len(tb.list) + 1
      /\ \A j \in 1 .. Len(tb.list) : u.list[j] = tb.list[j]
      /\ u.list[Len(tb.list) + 1] = i
  BY <1>1, <1>2, AppendProperties
<1>6. SizeOf(u) = z
  <2>1. DOMAIN u.at = 0 .. z - 1 BY <1>4
  <2> QED BY <1>1, <2>1, SizeFromDomain
<1>7. TableType(u) BY <1>1, <1>4, <1>5, <1>6 DEF TableType
<1>8. \A x : FirstPlace(u, x) = FirstPlace(tb, x) BY <1>6 DEF FirstPlace
<1> QED BY <1>4, <1>5, <1>6, <1>7, <1>8 DEF e, u

(* lh_table_insert leaves the table sound if it puts a new key to a place    *)
(* that is free and all of whose places before it on the way were used.      *)
LEMMA PutSound ==
  ASSUME hash \in Hashes, NEW tb, Sound(tb),
         NEW i \in 0 .. SizeOf(tb) - 1,
         NEW k \in Key, NEW v \in Value \union {NoValue},
         tb.at[i].k \notin Key, Lacks(tb, k),
         \A q \in Passed(FirstPlace(tb, k), i, SizeOf(tb)) : tb.at[q].k # EMPTY
  PROVE  Sound(Put(tb, i, k, v))
<1> DEFINE u == Put(tb, i, k, v)
           z == SizeOf(tb)
           c == Len(tb.list)
<1>1. /\ TableType(u) /\ SizeOf(u) = z
      /\ Len(u.list) = c + 1
      /\ \A j \in 1 .. c : u.list[j] = tb.list[j]
      /\ u.list[c + 1] = i
      /\ u.at[i] = [k |-> k, v |-> v]
      /\ \A p \in 0 .. z - 1 : p # i => u.at[p] = tb.at[p]
      /\ \A x : FirstPlace(u, x) = FirstPlace(tb, x)
  BY PutFacts DEF Sound
<1>2. /\ z \in Nat /\ z >= 3 /\ DOMAIN tb.at = 0 .. z - 1 /\ c \in Nat
      /\ DOMAIN tb.list = 1 .. c
      /\ \A j \in 1 .. c : tb.list[j] \in 0 .. z - 1
  BY TableFacts DEF Sound
<1>3. DOMAIN u.at = 0 .. z - 1 /\ DOMAIN u.list = 1 .. c + 1
  BY <1>1, TableFacts
<1>4. u.at[i].k = k /\ u.at[i].v = v BY <1>1
<1> HIDE DEF u, z, c
<1>5. \A j \in 1 .. c : tb.list[j] # i
  BY <1>2 DEF Sound, ListSound, z
<1>6. \A j \in 1 .. c : u.at[u.list[j]] = tb.at[tb.list[j]]
  BY <1>1, <1>2, <1>5
<1>7. ListSound(u)
  <2> SUFFICES ASSUME NEW p \in 0 .. z - 1
               PROVE  u.at[p].k \in Key <=>
                        \E j \in 1 .. c + 1 : u.list[j] = p
    BY <1>3 DEF ListSound
  <2>1. CASE p = i BY <1>1, <1>2, <1>4, <2>1
  <2>2. CASE p # i
    <3>1. u.at[p] = tb.at[p] BY <1>1, <2>2
    <3>2. tb.at[p].k \in Key <=> \E j \in 1 .. c : tb.list[j] = p
      BY <1>2 DEF Sound, ListSound
    <3>3. \A j \in 1 .. c + 1 : u.list[j] = p => j \in 1 .. c
      BY <1>1, <1>2, <2>2
    <3>4. \A j \in 1 .. c : j \in 1 .. c + 1 BY <1>2
    <3> QED BY <1>1, <3>1, <3>2, <3>3, <3>4
  <2> QED BY <2>1, <2>2
<1>8. KeySound(u)
  <2> SUFFICES ASSUME NEW a \in 1 .. c + 1, NEW b \in 1 .. c + 1,
                      u.at[u.list[a]].k = u.at[u.list[b]].k
               PROVE  a = b
    BY <1>3 DEF KeySound
  <2>1. ASSUME NEW j \in 1 .. c PROVE u.at[u.list[j]].k # k
    <3>1. tb.list[j] \in DOMAIN tb.at BY <1>2
    <3>2. tb.at[tb.list[j]].k # k BY <3>1 DEF Lacks
    <3> QED BY <1>6, <3>2
  <2>2. u.at[u.list[c + 1]].k = k BY <1>1, <1>4
  <2>3. /\ a = c + 1 \/ a \in 1 .. c
        /\ b = c + 1 \/ b \in 1 .. c
    BY <1>2
  <2>4. ASSUME a \in 1 .. c, b \in 1 .. c PROVE a = b
    <3>1. tb.at[tb.list[a]].k = tb.at[tb.list[b]].k BY <1>6, <2>4
    <3> QED BY <1>2, <2>4, <3>1 DEF Sound, KeySound
  <2> QED BY <2>1, <2>2, <2>3, <2>4
<1>9. PathSound(u)
  <2> SUFFICES ASSUME NEW p \in 0 .. z - 1, u.at[p].k \in Key,
                      NEW q \in Path(FirstPlace(u, u.at[p].k), p, z)
               PROVE  u.at[q].k # EMPTY
    BY <1>1, <1>3 DEF PathSound
  <2>1. CASE q = i BY <1>4, <2>1, LinkHashAssumption
  <2>2. CASE q # i /\ p = i
    <3>1. q \in Path(FirstPlace(tb, k), i, z) BY <1>1, <1>4, <2>2
    <3>2. FirstPlace(tb, k) \in 0 .. z - 1 BY StartType DEF Sound, z
    <3>3. q \in 0 .. z - 1 /\ q \in Passed(FirstPlace(tb, k), i, z)
      BY <1>2, <2>2, <3>1, <3>2, PathBound, PathIsPassed DEF z
    <3> QED BY <1>1, <2>2, <3>3 DEF z
  <2>3. CASE q # i /\ p # i
    <3>1. u.at[p] = tb.at[p] BY <1>1, <2>3
    <3>2. FirstPlace(tb, tb.at[p].k) \in 0 .. z - 1
      BY <3>1, StartType DEF Sound, z
    <3>3. q \in Path(FirstPlace(tb, tb.at[p].k), p, z) BY <1>1, <3>1
    <3>4. q \in 0 .. z - 1 BY <1>2, <3>2, <3>3, PathBound
    <3>5. tb.at[q].k # EMPTY
      BY <1>2, <3>1, <3>3 DEF Sound, PathSound, z
    <3> QED BY <1>1, <2>3, <3>4, <3>5
  <2> QED BY <2>1, <2>2, <2>3
<1>10. EmptySound(u)
  <2> SUFFICES ASSUME NEW p \in 0 .. z - 1, u.at[p].k = EMPTY
               PROVE  u.at[p].v = NoValue
    BY <1>3 DEF EmptySound
  <2>1. p # i BY <1>4, LinkHashAssumption
  <2>2. u.at[p] = tb.at[p] BY <1>1, <2>1
  <2> QED BY <1>2, <2>2 DEF Sound, EmptySound
<1> QED BY <1>1, <1>7, <1>8, <1>9, <1>10 DEF Sound, u

(* A lookup that comes to a place that was never used misses: the key is     *)
(* nowhere in the table.                                                     *)
LEMMA LookupMisses ==
  ASSUME hash \in Hashes, NEW tb, Sound(tb),
         NEW k \in Key,
         NEW m \in 0 .. SizeOf(tb) - 1, tb.at[m].k = EMPTY,
         \A q \in Passed(FirstPlace(tb, k), m, SizeOf(tb)) : tb.at[q].k # k
  PROVE  Lacks(tb, k)
<1> DEFINE z == SizeOf(tb)
<1>1. z \in Nat /\ DOMAIN tb.at = 0 .. z - 1 BY TableFacts DEF Sound
<1>2. FirstPlace(tb, k) \in 0 .. z - 1 BY StartType DEF Sound
<1> SUFFICES ASSUME NEW p \in 0 .. z - 1, tb.at[p].k = k PROVE FALSE
  BY <1>1 DEF Lacks
<1>3. \A q \in Path(FirstPlace(tb, k), p, z) : tb.at[q].k # EMPTY
  BY <1>1 DEF Sound, PathSound
<1>4. m \notin Path(FirstPlace(tb, k), p, z) BY <1>3
<1>5. p \in Passed(FirstPlace(tb, k), m, z)
  <2> HIDE DEF z
  <2>1. m \in 0 .. z - 1 BY DEF z
  <2> QED BY <1>1, <1>2, <1>4, <2>1, OffPath
<1> QED BY <1>5

(* The place that lh_table_insert finds in a table that has a free one.      *)
LEMMA FirstFreeIs ==
  ASSUME NEW tb, TableType(tb), NEW s \in 0 .. SizeOf(tb) - 1,
         \E p \in 0 .. SizeOf(tb) - 1 : tb.at[p].k \in {EMPTY, FREED}
  PROVE  /\ FirstFree(tb, s) \in 0 .. SizeOf(tb) - 1
         /\ tb.at[FirstFree(tb, s)].k \in {EMPTY, FREED}
         /\ \A q \in Passed(s, FirstFree(tb, s), SizeOf(tb)) :
              tb.at[q].k \notin {EMPTY, FREED}
<1> DEFINE z == SizeOf(tb)
           At(d) == (s + d) % z
           Free(d) == tb.at[At(d)].k \in {EMPTY, FREED}
           First(d) == Free(d) /\ \A e \in 0 .. d - 1 : ~Free(e)
           S == {d \in 0 .. z - 1 : Free(d)}
<1>1. z \in Nat BY TableFacts
<1>2. S # {}
  <2>1. PICK p \in 0 .. z - 1 : tb.at[p].k \in {EMPTY, FREED} OBVIOUS
  <2>2. \E d \in 0 .. z - 1 : At(d) = p
    <3> HIDE DEF z
    <3>1. s \in 0 .. z - 1 BY DEF z
    <3>2. CASE p >= s
      <4>1. PICK d \in 0 .. z - 1 : d = p - s BY <1>1, <3>1, <3>2
      <4>2. s + d = p /\ s + d < z BY <1>1, <3>1, <4>1
      <4> QED BY <1>1, <3>1, <4>2, Wrap
    <3>3. CASE p < s
      <4>1. PICK d \in 0 .. z - 1 : d = p - s + z BY <1>1, <3>1, <3>3
      <4>2. s + d - z = p /\ ~(s + d < z) BY <1>1, <3>1, <4>1
      <4> QED BY <1>1, <3>1, <4>2, Wrap
    <3> QED BY <1>1, <3>1, <3>2, <3>3
  <2> QED BY <2>1, <2>2
<1>3. PICK d \in S : \A e \in S : d <= e
  <2>1. S \in SUBSET Nat BY <1>1
  <2> HIDE DEF S
  <2> QED BY <1>2, <2>1, Least
<1>4. First(d)
  <2>1. d \in 0 .. z - 1 /\ Free(d) BY <1>3
  <2>2. ASSUME NEW e \in 0 .. d - 1 PROVE ~Free(e)
    <3> HIDE DEF z, Free
    <3>1. e \in 0 .. z - 1 /\ ~(d <= e) BY <1>1, <2>1
    <3>2. e \in S => d <= e BY <1>3
    <3> QED BY <3>1, <3>2 DEF S
  <2> QED BY <2>1, <2>2
<1>5. d \in 0 .. z - 1 BY <1>3
<1> DEFINE c == CHOOSE x \in 0 .. z - 1 : First(x)
<1>6. FirstFree(tb, s) = At(c) BY DEF FirstFree
<1>7. c \in 0 .. z - 1 /\ First(c)
  <2> HIDE DEF First
  <2> QED BY <1>4, <1>5
<1> HIDE DEF c
<1>8. At(c) \in 0 .. z - 1
  <2> HIDE DEF z
  <2>1. s \in 0 .. z - 1 BY DEF z
  <2>2. At(c) = IF s + c < z THEN s + c ELSE s + c - z
    BY <1>1, <1>7, <2>1, Wrap
  <2> HIDE DEF At
  <2> QED BY <1>1, <1>7, <2>1, <2>2
<1>9. ASSUME NEW q \in Passed(s, At(c), z)
      PROVE  tb.at[q].k \notin {EMPTY, FREED}
  <2>1. \E e \in 0 .. c - 1 : q = At(e)
    <3> HIDE DEF z
    <3>1. s \in 0 .. z - 1 BY DEF z
    <3> QED BY <1>1, <1>7, <3>1, PassedIsBefore
  <2> QED BY <1>7, <2>1
<1> QED BY <1>6, <1>7, <1>8, <1>9

(* The list without the entry that lh_table_delete has found. *)
LEMMA DeleteFacts ==
  ASSUME Sound(t), NEW i \in 0 .. size - 1, t.at[i].k \in Key
  PROVE  LET u == lh_table_delete_entry(i)
             l == LinkOf(i)
         IN /\ l \in 1 .. count
            /\ TableType(u) /\ SizeOf(u) = size
            /\ Len(u.list) = count - 1
            /\ t.list[l] = i
            /\ \A j \in 1 .. count : t.list[j] = i => j = l
            /\ \A j \in 1 .. count - 1 :
                 u.list[j] = IF j < l THEN t.list[j] ELSE t.list[j + 1]
            /\ u.at[i] = [k |-> FREED, v |-> NoValue]
            /\ \A p \in 0 .. size - 1 : p # i => u.at[p] = t.at[p]
            /\ \A x : FirstPlace(u, x) = FirstPlace(t, x)
<1> DEFINE u == lh_table_delete_entry(i)
           l == LinkOf(i)
           e == [k |-> FREED, v |-> NoValue]
<1>1. /\ size \in Nat /\ size >= 3 /\ DOMAIN t.at = 0 .. size - 1
      /\ count \in Nat /\ DOMAIN t.list = 1 .. count
      /\ t.list \in Seq(0 .. size - 1) /\ t.at \in [0 .. size - 1 -> Entry]
  BY TableFacts DEF Sound, TableType, size, count
<1>2. l \in 1 .. count /\ t.list[l] = i
  <2>1. \E j \in DOMAIN t.list : t.list[j] = i
    BY <1>1 DEF Sound, ListSound
  <2>2. l \in DOMAIN t.list /\ t.list[l] = i BY <2>1 DEF LinkOf
  <2> QED BY <1>1, <2>2
<1>3. \A j \in 1 .. count : t.list[j] = i => j = l
  BY <1>1, <1>2 DEF Sound, KeySound
<1>4. /\ u.at = [t.at EXCEPT ![i] = e] /\ u.list = RemoveAt(t.list, l)
  BY DEF lh_table_delete_entry
<1> HIDE DEF l, u
<1>5. e \in Entry BY DEF Entry
<1> HIDE DEF e
<1>6. /\ u.at \in [0 .. size - 1 -> Entry] /\ u.at[i] = e
      /\ \A p \in 0 .. size - 1 : p # i => u.at[p] = t.at[p]
  BY <1>1, <1>4, <1>5
<1>7. /\ u.list \in Seq(0 .. size - 1) /\ Len(u.list) = count - 1
      /\ \A j \in 1 .. count - 1 :
           u.list[j] = IF j < l THEN t.list[j] ELSE t.list[j + 1]
  <2>1. Len(t.list) = count BY DEF count
  <2>2. l \in 1 .. Len(t.list) BY <1>2, <2>1
  <2>3. /\ RemoveAt(t.list, l) \in Seq(0 .. size - 1)
        /\ Len(RemoveAt(t.list, l)) = Len(t.list) - 1
        /\ \A j \in 1 .. Len(t.list) - 1 :
             RemoveAt(t.list, l)[j] =
               IF j < l THEN t.list[j] ELSE t.list[j + 1]
    BY <1>1, <2>2, Removed
  <2> QED BY <1>4, <2>1, <2>3
<1>8. SizeOf(u) = size
  <2>1. DOMAIN u.at = 0 .. size - 1 BY <1>6
  <2> QED BY <1>1, <2>1, SizeFromDomain
<1>9. TableType(u) BY <1>1, <1>6, <1>7, <1>8 DEF TableType
<1>10. \A x : FirstPlace(u, x) = FirstPlace(t, x) BY <1>8 DEF FirstPlace, size
<1> QED BY <1>2, <1>3, <1>6, <1>7, <1>8, <1>9, <1>10 DEF e, l, u

LEMMA DeleteSound ==
  ASSUME hash \in Hashes, Sound(t),
         NEW i \in 0 .. size - 1, t.at[i].k \in Key
  PROVE  Sound(lh_table_delete_entry(i))
<1> DEFINE u == lh_table_delete_entry(i)
<1>1. PICK l \in 1 .. count :
         /\ l = LinkOf(i) /\ TableType(u) /\ SizeOf(u) = size
         /\ Len(u.list) = count - 1
         /\ t.list[l] = i
         /\ \A j \in 1 .. count : t.list[j] = i => j = l
         /\ \A j \in 1 .. count - 1 :
              u.list[j] = IF j < l THEN t.list[j] ELSE t.list[j + 1]
         /\ u.at[i] = [k |-> FREED, v |-> NoValue]
         /\ \A p \in 0 .. size - 1 : p # i => u.at[p] = t.at[p]
         /\ \A x : FirstPlace(u, x) = FirstPlace(t, x)
  <2> DEFINE l == LinkOf(i)
  <2> HIDE DEF u
  <2>1. /\ l \in 1 .. count /\ TableType(u) /\ SizeOf(u) = size
        /\ Len(u.list) = count - 1
        /\ t.list[l] = i
        /\ \A j \in 1 .. count : t.list[j] = i => j = l
        /\ \A j \in 1 .. count - 1 :
             u.list[j] = IF j < l THEN t.list[j] ELSE t.list[j + 1]
        /\ u.at[i] = [k |-> FREED, v |-> NoValue]
        /\ \A p \in 0 .. size - 1 : p # i => u.at[p] = t.at[p]
        /\ \A x : FirstPlace(u, x) = FirstPlace(t, x)
    BY DeleteFacts DEF u
  <2> HIDE DEF l
  <2>2. l = LinkOf(i) BY DEF l
  <2> QED BY <2>1, <2>2
<1>2. /\ size \in Nat /\ size >= 3 /\ DOMAIN t.at = 0 .. size - 1
      /\ count \in Nat /\ DOMAIN t.list = 1 .. count
      /\ \A j \in 1 .. count : t.list[j] \in 0 .. size - 1
  BY TableFacts DEF Sound, size, count
<1>3. DOMAIN u.at = 0 .. size - 1 /\ DOMAIN u.list = 1 .. count - 1
  BY <1>1, TableFacts
<1>4. u.at[i].k = FREED BY <1>1
<1>11. SizeOf(t) = size BY DEF size
<1> HIDE DEF u
<1>5. \A j \in 1 .. count - 1 :
        \E m \in 1 .. count : /\ u.list[j] = t.list[m] /\ t.list[m] # i
                              /\ m = IF j < l THEN j ELSE j + 1
  <2> SUFFICES ASSUME NEW j \in 1 .. count - 1
               PROVE  \E m \in 1 .. count :
                        /\ u.list[j] = t.list[m] /\ t.list[m] # i
                        /\ m = IF j < l THEN j ELSE j + 1
    OBVIOUS
  <2>1. PICK m \in 1 .. count : m = IF j < l THEN j ELSE j + 1 BY <1>2
  <2>2. m # l BY <1>2, <2>1
  <2>3. t.list[m] # i BY <1>1, <2>2
  <2>4. u.list[j] = t.list[m] BY <1>1, <2>1
  <2> QED BY <2>1, <2>3, <2>4
<1>6. \A m \in 1 .. count : m # l =>
        \E j \in 1 .. count - 1 : u.list[j] = t.list[m]
  <2> SUFFICES ASSUME NEW m \in 1 .. count, m # l
               PROVE  \E j \in 1 .. count - 1 : u.list[j] = t.list[m]
    OBVIOUS
  <2>1. CASE m < l
    <3>1. m \in 1 .. count - 1 BY <1>2, <2>1
    <3> QED BY <1>1, <2>1, <3>1
  <2>2. CASE m > l
    <3>1. PICK j \in 1 .. count - 1 : j = m - 1 BY <1>2, <2>2
    <3>2. ~(j < l) /\ j + 1 = m BY <1>2, <2>2, <3>1
    <3>3. u.list[j] = t.list[j + 1] BY <1>1, <3>2
    <3>4. u.list[j] = t.list[m] BY <3>2, <3>3
    <3> QED BY <3>4
  <2>3. m < l \/ m > l BY <1>2
  <2> QED BY <2>1, <2>2, <2>3
<1>7. ListSound(u)
  <2> SUFFICES ASSUME NEW p \in 0 .. size - 1
               PROVE  u.at[p].k \in Key <=>
                        \E j \in 1 .. count - 1 : u.list[j] = p
    BY <1>3 DEF ListSound
  <2>1. CASE p = i BY <1>4, <1>5, <2>1, LinkHashAssumption
  <2>2. CASE p # i
    <3>1. u.at[p] = t.at[p] BY <1>1, <2>2
    <3>2. t.at[p].k \in Key <=> \E m \in 1 .. count : t.list[m] = p
      BY <1>2 DEF Sound, ListSound
    <3>3. \A m \in 1 .. count : t.list[m] = p => m # l BY <1>1, <2>2
    <3> QED BY <1>5, <1>6, <3>1, <3>2, <3>3
  <2> QED BY <2>1, <2>2
<1>8. KeySound(u)
  <2> SUFFICES ASSUME NEW a \in 1 .. count - 1, NEW b \in 1 .. count - 1,
                      u.at[u.list[a]].k = u.at[u.list[b]].k
               PROVE  a = b
    BY <1>3 DEF KeySound
  <2>1. PICK m \in 1 .. count : /\ u.list[a] = t.list[m] /\ t.list[m] # i
                                /\ m = IF a < l THEN a ELSE a + 1
    BY <1>5
  <2>2. PICK o \in 1 .. count : /\ u.list[b] = t.list[o] /\ t.list[o] # i
                                /\ o = IF b < l THEN b ELSE b + 1
    BY <1>5
  <2>3. u.at[u.list[a]] = t.at[t.list[m]] /\ u.at[u.list[b]] = t.at[t.list[o]]
    BY <1>1, <1>2, <2>1, <2>2
  <2>4. m = o BY <1>2, <2>3 DEF Sound, KeySound
  <2> QED BY <1>2, <2>1, <2>2, <2>4
<1>9. PathSound(u)
  <2> SUFFICES ASSUME NEW p \in 0 .. size - 1, u.at[p].k \in Key,
                      NEW q \in Path(FirstPlace(u, u.at[p].k), p, size)
               PROVE  u.at[q].k # EMPTY
    BY <1>1, <1>3 DEF PathSound
  <2>1. p # i /\ u.at[p] = t.at[p] BY <1>1, <1>4, LinkHashAssumption
  <2>2. FirstPlace(t, t.at[p].k) \in 0 .. size - 1
    BY <2>1, <1>11, StartType DEF Sound
  <2>3. q \in Path(FirstPlace(t, t.at[p].k), p, size) BY <1>1, <2>1
  <2>4. q \in 0 .. size - 1 BY <1>2, <2>2, <2>3, PathBound
  <2>5. t.at[q].k # EMPTY BY <1>2, <1>11, <2>1, <2>3 DEF Sound, PathSound
  <2> QED BY <1>1, <1>4, <2>4, <2>5, LinkHashAssumption
<1>10. EmptySound(u)
  <2> SUFFICES ASSUME NEW p \in 0 .. size - 1, u.at[p].k = EMPTY
               PROVE  u.at[p].v = NoValue
    BY <1>3 DEF EmptySound
  <2>1. p # i BY <1>4, LinkHashAssumption
  <2>2. u.at[p] = t.at[p] BY <1>1, <2>1
  <2> QED BY <1>2, <2>2 DEF Sound, EmptySound
<1> QED BY <1>1, <1>7, <1>8, <1>9, <1>10 DEF Sound, u

------------------------------------------------------------------------------
(* The steps. *)

LEMMA StateFacts ==
  ASSUME IInv
  PROVE  /\ hash \in Hashes /\ Sound(t) /\ TableType(t)
         /\ size \in Nat /\ size >= 3 /\ SizeOf(t) = size
         /\ DOMAIN t.at = 0 .. size - 1
         /\ \A p \in 0 .. size - 1 : t.at[p] \in Entry
         /\ t.list \in Seq(0 .. size - 1) /\ Len(t.list) = count
         /\ count \in Nat /\ DOMAIN t.list = 1 .. count
         /\ \A i \in 1 .. count : t.list[i] \in 0 .. size - 1
         /\ n \in 0 .. size - 1
BY TableFacts DEF IInv, Sound, StateType, size, count

LEMMA EntryKey ==
  ASSUME NEW e \in Entry
  PROVE  /\ e.k \in Key \/ e.k = EMPTY \/ e.k = FREED
         /\ e.v \in Value \union {NoValue}
BY DEF Entry

(* Nothing but hash and the table counts for the soundness of the table. *)
LEMMA StaysSound ==
  ASSUME hash' = hash, NEW u, Sound(u)
  PROVE  /\ t' = u => Sound(t)'
         /\ new' = u => Sound(new)'
BY DEF Sound, TableType, ListSound, KeySound, PathSound, EmptySound, FirstPlace

LEMMA SameTable ==
  ASSUME hash' = hash, t' = t, Sound(t)
  PROVE  /\ Sound(t)' /\ size' = size /\ count' = count
         /\ \A k : hash'[k] % SizeOf(t') = FirstPlace(t, k)
BY StaysSound DEF size, count, FirstPlace

(* Only between a deletion and the insertion that follows is there a freed  *)
(* place, and only one; so there is always one that was never used.         *)
LEMMA UnusedPlace ==
  ASSUME IInv
  PROVE  count < size /\ \E p \in 0 .. size - 1 : t.at[p].k = EMPTY
<1>1. count < size BY StateFacts DEF IInv, RoomOK
<1>2. ASSUME NEW p \in 0 .. size - 1, \A i \in 1 .. count : t.list[i] # p
      PROVE  t.at[p].k = EMPTY \/ t.at[p].k = FREED
  <2>1. t.at[p].k \notin Key BY <1>2, StateFacts DEF Sound, ListSound
  <2>2. t.at[p] \in Entry BY StateFacts
  <2> QED BY <2>1, <2>2, EntryKey
<1>3. CASE Lacks(t, FREED)
  <2>1. PICK p \in 0 .. size - 1 : \A i \in DOMAIN t.list : t.list[i] # p
    BY <1>1, StateFacts, PlaceLeft
  <2> QED BY <1>1, <1>2, <1>3, <2>1, StateFacts DEF Lacks
<1>4. CASE ~Lacks(t, FREED)
  <2>1. PICK f \in 0 .. size - 1 : t.at[f].k = FREED
    BY <1>4, StateFacts DEF Lacks
  <2>2. count + 1 < size BY <1>4, StateFacts DEF IInv, RoomOK
  <2> DEFINE list == Append(t.list, f)
  <2>3. /\ list \in Seq(0 .. size - 1) /\ Len(list) = count + 1
        /\ \A i \in 1 .. count : list[i] = t.list[i]
        /\ list[count + 1] = f
    BY StateFacts, AppendProperties
  <2>4. DOMAIN list = 1 .. count + 1 BY <2>3, LenProperties
  <2> HIDE DEF list
  <2>5. PICK p \in 0 .. size - 1 : \A i \in DOMAIN list : list[i] # p
    BY <2>2, <2>3, StateFacts, PlaceLeft
  <2>6. /\ \A i \in 1 .. count : i \in DOMAIN list
        /\ count + 1 \in DOMAIN list
    BY <2>4, StateFacts
  <2>7. p # f /\ \A i \in 1 .. count : t.list[i] # p BY <2>3, <2>5, <2>6
  <2>8. t.at[p].k # FREED
    BY <2>1, <2>7, StateFacts DEF IInv, FreedOK
  <2> QED BY <1>1, <1>2, <2>7, <2>8
<1> QED BY <1>3, <1>4

LEMMA InitIInv == lh_Init => IInv
<1> SUFFICES ASSUME lh_Init PROVE IInv OBVIOUS
<1>1. InitialSize \in Nat /\ InitialSize >= 3 BY LinkHashAssumption
<1>2. /\ t = lh_table_new(InitialSize) /\ call = "idle" /\ n = 0
      /\ hash \in Hashes
  BY DEF lh_Init
<1>3. Sound(t) /\ size = InitialSize /\ count = 0 /\ Lacks(t, FREED)
  BY <1>1, <1>2, NewTableSound DEF size, count
<1>4. FreedOK BY <1>3 DEF FreedOK, Lacks
<1>5. RoomOK BY <1>1, <1>3 DEF RoomOK
<1>6. StateType BY <1>1, <1>2, <1>3 DEF StateType
<1> QED BY <1>2, <1>3, <1>4, <1>5, <1>6 DEF IInv, ProbeOK, MoveOK

LEMMA CallKeeps ==
  ASSUME IInv, NEW k \in Key,
         CallGet(k) \/ \E v \in Value : CallAdd(k, v)
  PROVE  IInv'
<1>1. /\ call = "idle" /\ call' \in {"delete", "get"}
      /\ key' = k /\ n' = FirstPlace(t, k) /\ hash' = hash /\ t' = t
      /\ call' = "delete" => val' \in Value
  BY DEF CallGet, CallAdd
<1>2. /\ Sound(t)' /\ size' = size /\ count' = count
      /\ \A x : hash'[x] % SizeOf(t') = FirstPlace(t, x)
  BY <1>1, StateFacts, SameTable
<1>3. n' \in 0 .. size - 1 BY <1>1, StateFacts, StartType
<1>4. StateType' BY <1>1, <1>2, <1>3, StateFacts DEF StateType
<1>5. Lacks(t, FREED) BY <1>1 DEF IInv, FreedOK, Lacks
<1>6. FreedOK' BY <1>1, <1>5 DEF FreedOK, Lacks
<1>7. RoomOK' BY <1>1, <1>2, <1>5 DEF IInv, RoomOK, Lacks
<1>8. ProbeOK'
  <2>1. Passed(FirstPlace(t, k), n', size) = {}
    BY <1>1, <1>3, StateFacts, NothingPassed
  <2>2. FirstPlace(t, key)' = FirstPlace(t, k) BY <1>1, <1>2 DEF FirstPlace
  <2> QED BY <1>1, <1>2, <2>1, <2>2 DEF ProbeOK
<1>9. MoveOK' BY <1>1 DEF MoveOK
<1> QED BY <1>2, <1>4, <1>6, <1>7, <1>8, <1>9 DEF IInv

LEMMA ProbeKeeps ==
  ASSUME IInv, Probe PROVE IInv'
<1>1. /\ call \in {"delete", "get", "insert"} /\ n' = NextPlace(n)
      /\ call' = call /\ key' = key /\ val' = val /\ hash' = hash /\ t' = t
      /\ call \in {"delete", "get"} => t.at[n].k # key
      /\ call = "insert" => t.at[n].k \notin {EMPTY, FREED}
  BY DEF Probe
<1>2. /\ Sound(t)' /\ size' = size /\ count' = count
      /\ \A x : hash'[x] % SizeOf(t') = FirstPlace(t, x)
  BY <1>1, StateFacts, SameTable
<1>3. n' \in 0 .. size - 1 BY <1>1, StateFacts DEF NextPlace
<1>4. StateType' BY <1>1, <1>2, <1>3 DEF IInv, StateType
<1>5. FirstPlace(t, key)' = FirstPlace(t, key) BY <1>1, <1>2 DEF FirstPlace
<1>6. FreedOK' BY <1>1, <1>2, <1>5 DEF IInv, FreedOK
<1>7. RoomOK' BY <1>1, <1>2 DEF IInv, RoomOK, Lacks
<1>8. ProbeOK'
  <2>1. key \in Key BY <1>1 DEF IInv, StateType
  <2>2. FirstPlace(t, key) \in 0 .. size - 1 BY <2>1, StateFacts, StartType
  <2>3. \A q \in Passed(FirstPlace(t, key), n', size) :
          q \in Passed(FirstPlace(t, key), n, size) \/ q = n
    BY <1>1, <2>2, StateFacts, PassedGrows DEF NextPlace
  <2>4. call = "insert" => t.at[n].k \in Key
    BY <1>1, StateFacts, EntryKey
  <2> QED BY <1>1, <1>2, <1>5, <2>3, <2>4 DEF IInv, ProbeOK, Lacks
<1>9. MoveOK' BY <1>1 DEF MoveOK
<1> QED BY <1>2, <1>4, <1>6, <1>7, <1>8, <1>9 DEF IInv

LEMMA GetKeeps == ASSUME IInv, Get PROVE IInv'
<1>1. call = "get" /\ call' = "idle" /\ n' = 0 /\ hash' = hash /\ t' = t
  BY DEF Get, Return
<1>2. Sound(t)' /\ size' = size /\ count' = count
  BY <1>1, StateFacts, SameTable
<1>3. StateType' BY <1>1, <1>2, StateFacts DEF StateType
<1>4. FreedOK' BY <1>1 DEF IInv, FreedOK
<1>5. RoomOK' BY <1>1, <1>2 DEF IInv, RoomOK, Lacks
<1> QED BY <1>1, <1>2, <1>3, <1>4, <1>5 DEF IInv, ProbeOK, MoveOK

(* lh_table_insert doubles the table first, or it goes to the key's place. *)
LEMMA GoInsertKeeps ==
  ASSUME NEW entries,
         hash' = hash, key' = key, key \in Key, hash \in Hashes,
         size \in Nat, size >= 3, SizeOf(t) = size, TableType(t),
         size' = size, GoInsert(entries), entries \in Nat,
         count' = entries
  PROVE  /\ call' \in {"resize", "insert"} /\ n' \in 0 .. size - 1
         /\ call' = "insert" => /\ 100 * count' <= 66 * size
                              /\ n' = FirstPlace(t, key)
         /\ MoveOK'
<1>1. CASE IsFull(entries)
  <2>1. call' = "resize" /\ new' = lh_table_new(2 * size) /\ n' = 0
    BY <1>1 DEF GoInsert
  <2>2. 2 * size \in Nat /\ 2 * size >= 3 OBVIOUS
  <2>3. /\ Sound(new') /\ SizeOf(new') = 2 * size /\ Len(new'.list) = 0
        /\ Lacks(new', FREED)
    BY <2>1, <2>2, NewTableSound
  <2>4. Sound(new)' BY <2>3, StaysSound
  <2>5. Lacks(new, FREED)' BY <2>3 DEF Lacks
  <2>6. MoveOK' BY <2>1, <2>3, <2>4, <2>5 DEF MoveOK
  <2> QED BY <2>1, <2>6
<1>2. CASE ~IsFull(entries)
  <2>1. call' = "insert" /\ n' = FirstPlace(t, key) BY <1>2 DEF GoInsert
  <2>2. 100 * entries <= 66 * size BY <1>2 DEF IsFull
  <2>3. FirstPlace(t, key) \in 0 .. size - 1 BY StartType
  <2> QED BY <2>1, <2>2, <2>3 DEF MoveOK
<1> QED BY <1>1, <1>2

LEMMA DeleteMissingKeeps ==
  ASSUME IInv, DeleteMissing PROVE IInv'
<1>1. /\ call = "delete" /\ t.at[n].k = EMPTY /\ GoInsert(count)
      /\ hash' = hash /\ t' = t /\ key' = key /\ val' = val
  BY DEF DeleteMissing
<1>2. /\ Sound(t)' /\ size' = size /\ count' = count
      /\ \A x : hash'[x] % SizeOf(t') = FirstPlace(t, x)
  BY <1>1, StateFacts, SameTable
<1>3. key \in Key /\ val \in Value BY <1>1 DEF IInv, StateType
<1>4. Lacks(t, key)
  BY <1>1, <1>3, StateFacts, LookupMisses DEF IInv, ProbeOK
<1>5. /\ call' \in {"resize", "insert"} /\ n' \in 0 .. size - 1
      /\ call' = "insert" => /\ 100 * count' <= 66 * size
                             /\ n' = FirstPlace(t, key)
      /\ MoveOK'
  BY <1>1, <1>2, <1>3, StateFacts, GoInsertKeeps
<1>6. StateType' BY <1>1, <1>2, <1>3, <1>5, StateFacts DEF StateType
<1>7. Lacks(t, FREED) BY <1>1 DEF IInv, FreedOK, Lacks
<1>8. FreedOK' BY <1>1, <1>7 DEF FreedOK, Lacks
<1>9. RoomOK' BY <1>1, <1>2, <1>5, <1>7 DEF IInv, RoomOK, Lacks
<1>10. ProbeOK'
  <2>1. FirstPlace(t, key) \in 0 .. size - 1 BY <1>3, StateFacts, StartType
  <2>2. Passed(FirstPlace(t, key), FirstPlace(t, key), size) = {}
    BY <2>1, StateFacts, NothingPassed
  <2>3. FirstPlace(t, key)' = FirstPlace(t, key) BY <1>1, <1>2 DEF FirstPlace
  <2>4. Lacks(t, key)' BY <1>1, <1>4 DEF Lacks
  <2> QED BY <1>2, <1>5, <2>2, <2>3, <2>4 DEF ProbeOK
<1> QED BY <1>2, <1>5, <1>6, <1>8, <1>9, <1>10 DEF IInv

(* Two places of a table do not have the same key. *)
LEMMA OnePlace ==
  ASSUME NEW tb, Sound(tb), NEW p \in 0 .. SizeOf(tb) - 1,
         NEW q \in 0 .. SizeOf(tb) - 1, tb.at[p].k \in Key,
         tb.at[p].k = tb.at[q].k
  PROVE  p = q
<1>1. DOMAIN tb.at = 0 .. SizeOf(tb) - 1 BY TableFacts DEF Sound
<1>2. PICK i \in DOMAIN tb.list : tb.list[i] = p
  BY <1>1 DEF Sound, ListSound
<1>3. PICK j \in DOMAIN tb.list : tb.list[j] = q
  BY <1>1 DEF Sound, ListSound
<1>4. i = j BY <1>2, <1>3 DEF Sound, KeySound
<1> QED BY <1>2, <1>3, <1>4

LEMMA DeleteFoundKeeps ==
  ASSUME IInv, DeleteFound PROVE IInv'
<1> DEFINE u == lh_table_delete_entry(n)
<1>1. /\ call = "delete" /\ t.at[n].k = key /\ GoInsert(count - 1)
      /\ hash' = hash /\ t' = u /\ key' = key /\ val' = val
  BY DEF DeleteFound
<1>2. key \in Key /\ val \in Value BY <1>1 DEF IInv, StateType
<1>3. Sound(u) BY <1>1, <1>2, StateFacts, DeleteSound
<1>4.   /\ LinkOf(n) \in 1 .. count
        /\ SizeOf(u) = size /\ Len(u.list) = count - 1
        /\ u.at[n] = [k |-> FREED, v |-> NoValue]
        /\ \A p \in 0 .. size - 1 : p # n => u.at[p] = t.at[p]
        /\ \A x : FirstPlace(u, x) = FirstPlace(t, x)
  <2>1. Sound(t) /\ n \in 0 .. size - 1 /\ t.at[n].k \in Key
    BY <1>1, <1>2, StateFacts
  <2> QED BY <2>1, DeleteFacts
<1> HIDE DEF u
<1>5. /\ size' = size /\ count' = count - 1 /\ count - 1 \in Nat
      /\ DOMAIN t'.at = 0 .. size - 1
  <2>1. size' = size /\ count' = count - 1
    BY <1>1, <1>4 DEF size, count
  <2>2. DOMAIN u.at = 0 .. size - 1
    BY <1>3, <1>4, TableFacts DEF Sound
  <2>3. count - 1 \in Nat BY <1>4, StateFacts
  <2> QED BY <1>1, <2>1, <2>2, <2>3
<1>6. Sound(t)' BY <1>1, <1>3, StaysSound
<1>7. /\ call' \in {"resize", "insert"} /\ n' \in 0 .. size - 1
      /\ call' = "insert" => /\ 100 * count' <= 66 * size
                             /\ n' = FirstPlace(t, key)
      /\ MoveOK'
  BY <1>1, <1>2, <1>5, StateFacts, GoInsertKeeps
<1>8. StateType' BY <1>1, <1>2, <1>5, <1>7, StateFacts DEF StateType
<1>9. t'.at[n].k = FREED BY <1>1, <1>4
<1>10. \A p \in 0 .. size - 1 : p # n => t'.at[p] = t.at[p] BY <1>1, <1>4
<1>11. FirstPlace(t, key)' = FirstPlace(t, key)
  BY <1>1, <1>5, StateFacts DEF FirstPlace, size
<1>12. \A p \in 0 .. size - 1 : t'.at[p].k = FREED => p = n
  BY <1>1, <1>10, StateFacts DEF IInv, FreedOK
<1>13. FreedOK'
  <2>1. \A q \in Path(FirstPlace(t, key), n, size) : t.at[q].k # EMPTY
    BY <1>1, <1>2, StateFacts DEF Sound, PathSound
  <2>2. Path(FirstPlace(t, key), n, size) \subseteq 0 .. size - 1
    BY <1>2, StateFacts, StartType, PathBound
  <2>3. \A q \in Path(FirstPlace(t, key), n, size) : t'.at[q].k # EMPTY
    BY <1>9, <1>10, <2>1, <2>2, LinkHashAssumption
  <2> QED BY <1>5, <1>7, <1>11, <1>12, <2>3 DEF FreedOK
<1>14. RoomOK'
  <2>1. count \in Nat /\ size \in Nat BY StateFacts
  <2>2. 100 * count <= 66 * size + 100 BY DEF IInv, RoomOK
  <2>3. /\ 100 * count' <= 66 * size'
        /\ 100 * count' <= 66 * size' + 100
    BY <1>5, <2>1, <2>2
  <2> QED BY <2>3 DEF RoomOK
<1>15. ProbeOK'
  <2>1. FirstPlace(t, key) \in 0 .. size - 1 BY <1>2, StateFacts, StartType
  <2>2. Passed(FirstPlace(t, key), FirstPlace(t, key), size) = {}
    BY <2>1, StateFacts, NothingPassed
  <2>3. ASSUME NEW p \in 0 .. size - 1 PROVE t'.at[p].k # key
    <3>1. CASE p = n BY <1>2, <1>9, <3>1, LinkHashAssumption
    <3>2. CASE p # n
      <4>1. t.at[p].k # key BY <1>1, <1>2, <3>2, StateFacts, OnePlace
      <4> QED BY <1>10, <3>2, <4>1
    <3> QED BY <3>1, <3>2
  <2>4. Lacks(t, key)' BY <1>1, <1>5, <2>3 DEF Lacks
  <2> QED BY <1>5, <1>7, <1>11, <2>2, <2>4 DEF ProbeOK
<1> QED BY <1>6, <1>7, <1>8, <1>13, <1>14, <1>15 DEF IInv

LEMMA MoveKeeps ==
  ASSUME IInv, Move PROVE IInv'
<1> DEFINE e == t.at[t.list[n + 1]]
           i == FreePlace(e.k)
           u == Put(new, i, e.k, e.v)
<1>1. /\ call = "resize" /\ n < count /\ new' = u /\ n' = n + 1
      /\ hash' = hash /\ t' = t /\ call' = call /\ key' = key /\ val' = val
  BY DEF Move
<1>2. /\ Sound(t)' /\ size' = size /\ count' = count
      /\ \A x : hash'[x] % SizeOf(t') = FirstPlace(t, x)
  BY <1>1, StateFacts, SameTable
<1>3. /\ Sound(new) /\ Lacks(new, FREED) /\ SizeOf(new) = 2 * size
      /\ Len(new.list) = n
      /\ \A j \in 1 .. n : new.at[new.list[j]] = t.at[t.list[j]]
  BY <1>1 DEF IInv, MoveOK
<1>4. /\ DOMAIN new.at = 0 .. 2 * size - 1
      /\ \A p \in 0 .. 2 * size - 1 : new.at[p] \in Entry
      /\ new.list \in Seq(0 .. 2 * size - 1)
      /\ DOMAIN new.list = 1 .. n
      /\ \A j \in 1 .. n : new.list[j] \in 0 .. 2 * size - 1
  BY <1>3, TableFacts DEF Sound
<1>5. n + 1 \in 1 .. count /\ n \in Nat /\ size \in Nat /\ count < size
      /\ size >= 3
  BY <1>1, StateFacts, UnusedPlace
<1>6. e.k \in Key /\ e.v \in Value \union {NoValue}
  <2>1. t.list[n + 1] \in 0 .. size - 1 BY <1>5, StateFacts
  <2>2. e \in Entry BY <2>1, StateFacts
  <2>3. e.k \in Key BY <1>5, <2>1, StateFacts DEF Sound, ListSound
  <2> QED BY <2>2, <2>3, EntryKey
<1>7. Lacks(new, e.k)
  <2> SUFFICES ASSUME NEW p \in 0 .. 2 * size - 1, new.at[p].k = e.k
               PROVE  FALSE
    BY <1>4 DEF Lacks
  <2>1. PICK j \in 1 .. n : new.list[j] = p
    BY <1>3, <1>4, <1>6 DEF Sound, ListSound
  <2>2. t.at[t.list[j]].k = e.k BY <1>3, <2>1
  <2>3. j \in 1 .. count /\ j # n + 1
    <3>1. count \in Nat BY StateFacts
    <3> QED BY <1>5, <3>1
  <2>4. j = n + 1 BY <1>5, <2>2, <2>3, StateFacts DEF Sound, KeySound
  <2> QED BY <2>3, <2>4
<1> HIDE DEF e
<1>8. FirstPlace(new, e.k) \in 0 .. 2 * size - 1
  <2>1. hash \in Hashes /\ TableType(new) BY <1>3, StateFacts DEF Sound
  <2> QED BY <1>3, <1>6, <2>1, StartType
<1>9. \E p \in 0 .. 2 * size - 1 : new.at[p].k \in {EMPTY, FREED}
  <2>1. 2 * size \in Nat /\ n < 2 * size
    <3>1. count \in Nat BY StateFacts
    <3> QED BY <1>1, <1>5, <3>1
  <2>2. PICK p \in 0 .. 2 * size - 1 :
          \A j \in DOMAIN new.list : new.list[j] # p
    BY <1>3, <1>4, <2>1, PlaceLeft
  <2>3. new.at[p].k \notin Key
    BY <1>3, <1>4, <2>2 DEF Sound, ListSound
  <2> QED BY <1>4, <2>3, EntryKey
<1>10. /\ i \in 0 .. 2 * size - 1 /\ new.at[i].k \in {EMPTY, FREED}
       /\ \A q \in Passed(FirstPlace(new, e.k), i, 2 * size) :
            new.at[q].k \notin {EMPTY, FREED}
  <2>1. TableType(new) BY <1>3 DEF Sound
  <2> HIDE DEF i
  <2>2. i = FirstFree(new, FirstPlace(new, e.k)) BY DEF i, FreePlace
  <2> QED BY <1>3, <1>8, <1>9, <2>1, <2>2, FirstFreeIs
<1> HIDE DEF i
<1>11. Sound(u)
  <2>1. new.at[i].k \notin Key BY <1>10, LinkHashAssumption
  <2> QED BY <1>3, <1>6, <1>7, <1>10, <2>1, StateFacts, PutSound
<1>12. /\ SizeOf(u) = 2 * size /\ Len(u.list) = n + 1
       /\ \A j \in 1 .. n : u.list[j] = new.list[j]
       /\ u.list[n + 1] = i /\ u.at[i] = [k |-> e.k, v |-> e.v]
       /\ \A p \in 0 .. 2 * size - 1 : p # i => u.at[p] = new.at[p]
  <2>1. TableType(new) /\ i \in 0 .. SizeOf(new) - 1 BY <1>3, <1>10 DEF Sound
  <2>2. e.k \in Key /\ e.v \in Value \union {NoValue} BY <1>6
  <2>3. /\ SizeOf(u) = SizeOf(new) /\ Len(u.list) = Len(new.list) + 1
        /\ \A j \in 1 .. Len(new.list) : u.list[j] = new.list[j]
        /\ u.list[Len(new.list) + 1] = i /\ u.at[i] = [k |-> e.k, v |-> e.v]
        /\ \A p \in 0 .. SizeOf(new) - 1 : p # i => u.at[p] = new.at[p]
    <3> DEFINE k == e.k
               v == e.v
    <3>1. k \in Key /\ v \in Value \union {NoValue} BY <2>2
    <3>2. u = Put(new, i, k, v) OBVIOUS
    <3> HIDE DEF k, v, u
    <3>3. /\ SizeOf(u) = SizeOf(new) /\ Len(u.list) = Len(new.list) + 1
          /\ \A j \in 1 .. Len(new.list) : u.list[j] = new.list[j]
          /\ u.list[Len(new.list) + 1] = i /\ u.at[i] = [k |-> k, v |-> v]
          /\ \A p \in 0 .. SizeOf(new) - 1 : p # i => u.at[p] = new.at[p]
      BY <2>1, <3>1, <3>2, PutFacts
    <3> QED BY <3>3 DEF k, v
  <2> HIDE DEF u
  <2> QED BY <1>3, <2>3
<1>13. DOMAIN u.at = 0 .. 2 * size - 1
  BY <1>11, <1>12, TableFacts DEF Sound
<1>14. e = [k |-> e.k, v |-> e.v]
  <2>1. e \in Entry BY <1>5, StateFacts DEF e
  <2> QED BY <2>1 DEF Entry
<1> HIDE DEF u
<1>15. MoveOK'
  <2>1. Sound(new)' BY <1>1, <1>11, StaysSound
  <2>2. Lacks(u, FREED)
    <3> SUFFICES ASSUME NEW p \in 0 .. 2 * size - 1 PROVE u.at[p].k # FREED
      BY <1>13 DEF Lacks
    <3>1. CASE p = i BY <1>6, <1>12, <3>1, LinkHashAssumption
    <3>2. CASE p # i BY <1>3, <1>4, <1>12, <3>2 DEF Lacks
    <3> QED BY <3>1, <3>2
  <2>3. Lacks(new, FREED)' BY <1>1, <2>2 DEF Lacks
  <2>4. \A j \in 1 .. n : new.list[j] # i
    BY <1>3, <1>4, <1>10, LinkHashAssumption DEF Sound, ListSound
  <2>5. ASSUME NEW j \in 1 .. n + 1
        PROVE  u.at[u.list[j]] = t.at[t.list[j]]
    <3>1. CASE j = n + 1
      <4>1. u.at[u.list[j]] = e BY <1>12, <1>14, <3>1
      <4> QED BY <3>1, <4>1 DEF e
    <3>2. CASE j \in 1 .. n
      <4>1. u.list[j] = new.list[j] /\ new.list[j] # i
            /\ new.list[j] \in 0 .. 2 * size - 1
        BY <1>4, <1>12, <2>4, <3>2
      <4>2. u.at[u.list[j]] = new.at[new.list[j]] BY <1>12, <4>1
      <4> QED BY <1>3, <3>2, <4>2
    <3> QED BY <1>5, <3>1, <3>2
  <2>6. /\ SizeOf(new') = 2 * size'
        /\ Len(new'.list) = n' /\ n' <= count'
        /\ \A j \in 1 .. n' : new'.at[new'.list[j]] = t'.at[t'.list[j]]
    BY <1>1, <1>2, <1>5, <1>12, <2>5
  <2> QED BY <2>1, <2>3, <2>6 DEF MoveOK
<1>16. n' \in 0 .. size - 1 BY <1>1, <1>5, StateFacts
<1>17. StateType' BY <1>1, <1>2, <1>16 DEF IInv, StateType
<1>18. FreedOK' BY <1>1 DEF IInv, FreedOK
<1>19. RoomOK' BY <1>1, <1>2 DEF IInv, RoomOK, Lacks
<1>20. ProbeOK' BY <1>1 DEF IInv, ProbeOK, Lacks
<1> QED BY <1>2, <1>15, <1>17, <1>18, <1>19, <1>20 DEF IInv

LEMMA ResizedKeeps ==
  ASSUME IInv, Resized PROVE IInv'
<1>1. /\ call = "resize" /\ n = count /\ t' = new /\ call' = "insert"
      /\ n' = FirstPlace(new, key) /\ hash' = hash /\ key' = key /\ val' = val
  BY DEF Resized
<1>2. /\ Sound(new) /\ Lacks(new, FREED) /\ SizeOf(new) = 2 * size
      /\ Len(new.list) = count
      /\ \A j \in 1 .. count : new.at[new.list[j]] = t.at[t.list[j]]
  BY <1>1 DEF IInv, MoveOK
<1>3. /\ DOMAIN new.at = 0 .. 2 * size - 1
      /\ DOMAIN new.list = 1 .. count
  BY <1>2, TableFacts DEF Sound
<1>4. Sound(t)' BY <1>1, <1>2, StaysSound
<1>5. size' = 2 * size /\ count' = count
  BY <1>1, <1>2 DEF size, count
<1>6. key \in Key /\ val \in Value BY <1>1 DEF IInv, StateType
<1>7. FirstPlace(new, key) \in 0 .. 2 * size - 1
  <2>1. hash \in Hashes /\ TableType(new) BY <1>2, StateFacts DEF Sound
  <2> QED BY <1>2, <1>6, <2>1, StartType
<1>8. StateType' BY <1>1, <1>5, <1>6, <1>7, StateFacts DEF StateType
<1>9. FreedOK' BY <1>1, <1>2 DEF FreedOK, Lacks
<1>10. RoomOK'
  <2>1. 100 * count <= 66 * (2 * size) BY StateFacts DEF IInv, RoomOK
  <2>2. 66 * (2 * size) <= 66 * (2 * size) + 100 BY StateFacts
  <2>3. 100 * count <= 66 * (2 * size) + 100 BY <2>1, StateFacts
  <2> QED BY <1>5, <2>1, <2>3 DEF RoomOK
<1>11. Lacks(new, key)
  <2> SUFFICES ASSUME NEW p \in 0 .. 2 * size - 1, new.at[p].k = key
               PROVE  FALSE
    BY <1>3 DEF Lacks
  <2>1. PICK j \in 1 .. count : new.list[j] = p
    BY <1>2, <1>3, <1>6 DEF Sound, ListSound
  <2>2. t.at[t.list[j]].k = key /\ t.list[j] \in 0 .. size - 1
    BY <1>2, <2>1, StateFacts
  <2>3. Lacks(t, key) BY <1>1 DEF IInv, ProbeOK
  <2> QED BY <2>2, <2>3, StateFacts DEF Lacks
<1>12. ProbeOK'
  <2>1. 2 * size \in Nat BY StateFacts
  <2>2. Passed(FirstPlace(new, key), FirstPlace(new, key), 2 * size) = {}
    BY <1>7, <2>1, NothingPassed
  <2>3. FirstPlace(t, key)' = FirstPlace(new, key) BY <1>1 DEF FirstPlace
  <2>4. Lacks(t, key)' BY <1>1, <1>11 DEF Lacks
  <2> QED BY <1>1, <1>5, <2>2, <2>3, <2>4 DEF ProbeOK
<1>13. MoveOK' BY <1>1 DEF MoveOK
<1> QED BY <1>4, <1>8, <1>9, <1>10, <1>12, <1>13 DEF IInv

LEMMA InsertKeeps ==
  ASSUME IInv, Insert PROVE IInv'
<1> DEFINE u == Put(t, n, key, val)
<1>1. /\ call = "insert" /\ t.at[n].k \in {EMPTY, FREED} /\ t' = u
      /\ call' = "idle" /\ n' = 0 /\ hash' = hash
  BY DEF Insert, Return
<1>2. /\ key \in Key /\ val \in Value \union {NoValue} /\ Lacks(t, key)
      /\ \A q \in Passed(FirstPlace(t, key), n, size) : t.at[q].k \in Key
  BY <1>1 DEF IInv, StateType, ProbeOK
<1>3. FirstPlace(t, key) \in 0 .. size - 1 BY <1>2, StateFacts, StartType
<1>4. Sound(u)
  <2>1. t.at[n].k \notin Key BY <1>1, LinkHashAssumption
  <2>2. \A q \in Passed(FirstPlace(t, key), n, size) : t.at[q].k # EMPTY
    BY <1>2, LinkHashAssumption
  <2> QED BY <1>2, <2>1, <2>2, StateFacts, PutSound
<1>5. /\ SizeOf(u) = size /\ Len(u.list) = count + 1
      /\ u.at[n] = [k |-> key, v |-> val]
      /\ \A p \in 0 .. size - 1 : p # n => u.at[p] = t.at[p]
  <2>1. TableType(t) /\ n \in 0 .. SizeOf(t) - 1 /\ Len(t.list) = count
        /\ SizeOf(t) = size
    BY StateFacts
  <2>2. /\ SizeOf(u) = SizeOf(t) /\ Len(u.list) = Len(t.list) + 1
        /\ u.at[n] = [k |-> key, v |-> val]
        /\ \A p \in 0 .. SizeOf(t) - 1 : p # n => u.at[p] = t.at[p]
    BY <1>2, <2>1, PutFacts
  <2> HIDE DEF u
  <2> QED BY <2>1, <2>2
<1>6. DOMAIN u.at = 0 .. size - 1 BY <1>4, <1>5, TableFacts DEF Sound
<1> HIDE DEF u
<1>7. Sound(t)' BY <1>1, <1>4, StaysSound
<1>8. size' = size /\ count' = count + 1
  BY <1>1, <1>5 DEF size, count
<1>9. ASSUME NEW p \in 0 .. size - 1 PROVE u.at[p].k # FREED
  <2>1. CASE p = n BY <1>2, <1>5, <2>1, LinkHashAssumption
  <2>2. CASE p # n
    <3> SUFFICES ASSUME t.at[p].k = FREED PROVE FALSE BY <1>5, <2>2
    <3>1. t.at[n].k = EMPTY
      BY <1>1, <2>2, StateFacts DEF IInv, FreedOK
    <3>2. n \notin Path(FirstPlace(t, key), p, size)
      BY <1>1, <3>1, StateFacts DEF IInv, FreedOK
    <3>3. p \in Passed(FirstPlace(t, key), n, size)
      BY <1>3, <3>2, StateFacts, OffPath
    <3> QED BY <1>2, <3>3, LinkHashAssumption
  <2> QED BY <2>1, <2>2
<1>10. Lacks(u, FREED) BY <1>6, <1>9 DEF Lacks
<1>11. FreedOK' BY <1>1, <1>10 DEF FreedOK, Lacks
<1>12. RoomOK'
  <2>1. 100 * count <= 66 * size BY <1>1 DEF IInv, RoomOK
  <2>2. 100 * count' <= 66 * size' + 100
    <3>1. count \in Nat /\ size \in Nat BY StateFacts
    <3> QED BY <1>8, <2>1, <3>1
  <2>3. Lacks(t, FREED)' BY <1>1, <1>10 DEF Lacks
  <2> QED BY <1>1, <2>2, <2>3 DEF RoomOK
<1>13. StateType' BY <1>1, <1>8, StateFacts DEF StateType
<1> QED BY <1>1, <1>7, <1>11, <1>12, <1>13 DEF IInv, ProbeOK, MoveOK

LEMMA StutterKeeps == ASSUME IInv, UNCHANGED lh_vars PROVE IInv'
<1>1. /\ hash' = hash /\ t' = t /\ new' = new /\ call' = call /\ key' = key
      /\ val' = val /\ n' = n
  BY DEF lh_vars
<1>2. Sound(t)' /\ size' = size /\ count' = count
  BY <1>1, StateFacts, SameTable
<1>3. StateType' BY <1>1, <1>2 DEF IInv, StateType
<1>4. FreedOK' /\ ProbeOK'
  BY <1>1, <1>2 DEF IInv, FreedOK, ProbeOK, Lacks, FirstPlace
<1>5. RoomOK' BY <1>1, <1>2 DEF IInv, RoomOK, Lacks
<1>6. MoveOK'
  <2>1. Sound(new) => Sound(new)' BY <1>1, StaysSound
  <2> QED BY <1>1, <1>2, <2>1 DEF IInv, MoveOK, Lacks
<1> QED BY <1>2, <1>3, <1>4, <1>5, <1>6 DEF IInv

LEMMA StepKeeps == IInv /\ [lh_Next]_lh_vars => IInv'
BY CallKeeps, ProbeKeeps, GetKeeps, DeleteMissingKeeps, DeleteFoundKeeps,
   MoveKeeps, ResizedKeeps, InsertKeeps, StutterKeeps DEF lh_Next, Step

(* json_object_object_add and json_object_object_get keep the invariant in  *)
(* every round of their loops.                                              *)
THEOREM Invariance == lh_Spec => []IInv
BY InitIInv, StepKeeps, PTL DEF lh_Spec

LEMMA IInvTable == IInv => TableSound
<1> SUFFICES ASSUME IInv PROVE TableSound OBVIOUS
<1>0. /\ Sound(t) /\ hash \in Hashes /\ n \in 0 .. size - 1
      /\ DOMAIN t.at = 0 .. size - 1 /\ DOMAIN t.list = 1 .. count
      /\ SizeOf(t) = size
      /\ \A i \in 1 .. count : t.list[i] \in 0 .. size - 1
  BY StateFacts
<1>1. \A i \in 1 .. count : t.at[t.list[i]].k \in Key
  BY <1>0 DEF Sound, ListSound
<1>2. ToSet(t.list) = {p \in DOMAIN t.at : t.at[p].k \notin {EMPTY, FREED}}
  <2>1. ToSet(t.list) = {t.list[i] : i \in 1 .. count} BY <1>0 DEF ToSet
  <2>2. ASSUME NEW p \in 0 .. size - 1
        PROVE  t.at[p].k \notin {EMPTY, FREED} <=> t.at[p].k \in Key
    BY StateFacts, EntryKey, LinkHashAssumption
  <2>3. \A p \in 0 .. size - 1 :
          t.at[p].k \in Key <=> \E i \in 1 .. count : t.list[i] = p
    BY <1>0 DEF Sound, ListSound
  <2>4. ASSUME NEW p
        PROVE  p \in ToSet(t.list) <=>
                 p \in DOMAIN t.at /\ t.at[p].k \notin {EMPTY, FREED}
    <3>1. p \in ToSet(t.list) <=> \E i \in 1 .. count : t.list[i] = p
      BY <2>1
    <3> QED BY <1>0, <2>2, <2>3, <3>1
  <2> QED BY <2>4
<1>3. /\ DOMAIN Linked = 1 .. count
      /\ \A i \in 1 .. count : Linked[i][1] = t.at[t.list[i]].k
  BY <1>0 DEF Linked
<1>4. \A i, j \in DOMAIN t.list : Linked[i][1] = Linked[j][1] => i = j
  <2>1. \A i, j \in 1 .. count :
          t.at[t.list[i]].k = t.at[t.list[j]].k => i = j
    BY <1>0 DEF Sound, KeySound
  <2> QED BY <1>0, <1>3, <2>1
<1>5. \A i \in DOMAIN t.list :
        LET p == t.list[i]
            s == FirstPlace(t, t.at[p].k)
            before == IF s <= p THEN s .. p
                      ELSE DOMAIN t.at \ (p + 1 .. s - 1)
        IN \A q \in before : t.at[q].k # EMPTY
  BY <1>0, <1>1 DEF Sound, PathSound, Path
<1>6. \E p \in DOMAIN t.at : t.at[p].k = EMPTY BY <1>0, UnusedPlace
<1> QED BY <1>0, <1>2, <1>4, <1>5, <1>6 DEF TableSound

(* The table is sound in every state, inside a call too: the list goes      *)
(* through the places in use, every key of it is found, and every loop has  *)
(* a place that was never used to end at.                                   *)
THEOREM TableIsSound == lh_Spec => []TableSound
BY Invariance, IInvTable, PTL

LEMMA GetFinds ==
  ASSUME IInv, Get
  PROVE  \/ \E i \in DOMAIN Linked : Linked[i] = <<key, result'>>
         \/ result' = NoValue /\ \A i \in DOMAIN Linked : Linked[i][1] # key
<1>1. call = "get" /\ t.at[n].k \in {EMPTY, key} /\ result' = t.at[n].v
  BY DEF Get
<1>2. key \in Key BY <1>1 DEF IInv, StateType
<1>3. /\ DOMAIN Linked = 1 .. count
      /\ \A i \in 1 .. count :
           Linked[i] = <<t.at[t.list[i]].k, t.at[t.list[i]].v>>
  BY StateFacts DEF Linked
<1>4. CASE t.at[n].k = key
  <2>1. PICK i \in 1 .. count : t.list[i] = n
    BY <1>2, <1>4, StateFacts DEF Sound, ListSound
  <2>2. Linked[i] = <<key, result'>> BY <1>1, <1>3, <1>4, <2>1
  <2> QED BY <1>3, <2>2
<1>5. CASE t.at[n].k = EMPTY
  <2>1. result' = NoValue BY <1>1, <1>5, StateFacts DEF Sound, EmptySound
  <2>2. Lacks(t, key)
    BY <1>1, <1>2, <1>5, StateFacts, LookupMisses DEF IInv, ProbeOK
  <2>3. ASSUME NEW i \in 1 .. count PROVE Linked[i][1] # key
    <3>1. t.list[i] \in DOMAIN t.at BY StateFacts
    <3>2. t.at[t.list[i]].k # key BY <2>2, <3>1 DEF Lacks
    <3> QED BY <1>3, <3>2
  <2> QED BY <1>3, <2>1, <2>3
<1> QED BY <1>1, <1>4, <1>5

(* json_object_object_get finds the field's value if there is one, and NULL *)
(* if there is none.                                                        *)
THEOREM FieldFound == lh_Spec => GetFindsTheField
<1>1. IInv /\ [lh_Next]_lh_vars =>
        [call = "get" /\ call' = "idle" =>
           \/ \E i \in DOMAIN Linked : Linked[i] = <<key, result'>>
           \/ /\ result' = NoValue
              /\ \A i \in DOMAIN Linked : Linked[i][1] # key]_lh_vars
  <2> SUFFICES ASSUME IInv, lh_Next, call = "get", call' = "idle" PROVE Get
    BY GetFinds
  <2> QED
    BY DEF lh_Next, Step, CallGet, CallAdd, DeleteMissing,
           DeleteFound, Probe, Move, Resized, Insert
<1> QED BY <1>1, Invariance, PTL DEF lh_Spec, GetFindsTheField

------------------------------------------------------------------------------
(* The refinement. *)

(* The fields of a table. *)
Of(tb) ==
  [i \in DOMAIN tb.list |-> <<tb.at[tb.list[i]].k, tb.at[tb.list[i]].v>>]

LEMMA AbsentStays ==
  ASSUME NEW tb, Sound(tb), NEW k, Lacks(tb, k)
  PROVE  Without(Of(tb), k) = Of(tb)
<1>1. /\ DOMAIN Of(tb) = 1 .. Len(tb.list)
      /\ \A i \in 1 .. Len(tb.list) : Of(tb)[i][1] = tb.at[tb.list[i]].k
  BY TableFacts DEF Sound, Of
<1>2. \A i \in 1 .. Len(tb.list) : tb.at[tb.list[i]].k # k
  BY TableFacts DEF Sound, Lacks
<1> QED BY <1>1, <1>2 DEF Without

(* lh_table_delete takes the field with the key out of the object. *)
LEMMA DeletedField ==
  ASSUME IInv, DeleteFound
  PROVE  Of(lh_table_delete_entry(n)) = Without(Of(t), key)
<1> DEFINE u == lh_table_delete_entry(n)
           S == {Of(t)[i] : i \in 1 .. count}
<1>1. call = "delete" /\ t.at[n].k = key BY DEF DeleteFound
<1>2. key \in Key BY <1>1 DEF IInv, StateType
<1>3. PICK l \in 1 .. count :
        /\ l = LinkOf(n) /\ TableType(u) /\ Len(u.list) = count - 1
        /\ t.list[l] = n
        /\ \A j \in 1 .. count : t.list[j] = n => j = l
        /\ \A j \in 1 .. count - 1 :
             u.list[j] = IF j < l THEN t.list[j] ELSE t.list[j + 1]
        /\ \A p \in 0 .. size - 1 : p # n => u.at[p] = t.at[p]
  <2>1. Sound(t) /\ n \in 0 .. size - 1 /\ t.at[n].k \in Key
    BY <1>1, <1>2, StateFacts
  <2> DEFINE l == LinkOf(n)
  <2> HIDE DEF u
  <2>2. /\ l \in 1 .. count /\ TableType(u) /\ Len(u.list) = count - 1
        /\ t.list[l] = n
        /\ \A j \in 1 .. count : t.list[j] = n => j = l
        /\ \A j \in 1 .. count - 1 :
             u.list[j] = IF j < l THEN t.list[j] ELSE t.list[j + 1]
        /\ \A p \in 0 .. size - 1 : p # n => u.at[p] = t.at[p]
    BY <2>1, DeleteFacts DEF u
  <2> HIDE DEF l
  <2>3. l = LinkOf(n) BY DEF l
  <2> QED BY <2>2, <2>3
<1> HIDE DEF u
<1>4. /\ DOMAIN Of(t) = 1 .. count
      /\ \A i \in 1 .. count :
           Of(t)[i] = <<t.at[t.list[i]].k, t.at[t.list[i]].v>>
  BY StateFacts DEF Of
<1>5. \A i \in 1 .. count : Of(t)[i][1] = key <=> i = l
  <2> SUFFICES ASSUME NEW i \in 1 .. count PROVE Of(t)[i][1] = key <=> i = l
    OBVIOUS
  <2>1. Of(t)[i][1] = t.at[t.list[i]].k BY <1>4
  <2>2. t.at[t.list[i]].k = t.at[t.list[l]].k => i = l
    BY StateFacts DEF Sound, KeySound
  <2> QED BY <1>1, <1>3, <2>1, <2>2
<1>6. Without(Of(t), key) = RemoveAt(Of(t), l)
  <2>1. (CHOOSE i \in DOMAIN Of(t) : Of(t)[i][1] = key) = l
    BY <1>4, <1>5
  <2>2. \E i \in DOMAIN Of(t) : Of(t)[i][1] = key BY <1>4, <1>5
  <2> QED BY <2>1, <2>2 DEF Without
<1>7. Of(t) \in Seq(S) /\ Len(Of(t)) = count
  <2>1. Of(t) \in [1 .. count -> S] BY <1>4 DEF Of
  <2>2. count \in Nat BY StateFacts
  <2> HIDE DEF S
  <2> QED BY <2>1, <2>2
<1> HIDE DEF S
<1>8. /\ RemoveAt(Of(t), l) \in Seq(S)
      /\ Len(RemoveAt(Of(t), l)) = count - 1
      /\ \A i \in 1 .. count - 1 :
           RemoveAt(Of(t), l)[i] = IF i < l THEN Of(t)[i] ELSE Of(t)[i + 1]
  <2>1. l \in 1 .. Len(Of(t)) BY <1>7
  <2> QED BY <1>7, <2>1, Removed
<1>9. DOMAIN Of(u) = 1 .. count - 1
  <2>1. DOMAIN u.list = 1 .. count - 1 BY <1>3, TableFacts
  <2> QED BY <2>1 DEF Of
<1>10. ASSUME NEW i \in 1 .. count - 1
       PROVE  Of(u)[i] = RemoveAt(Of(t), l)[i]
  <2>1. PICK m \in 1 .. count : m = IF i < l THEN i ELSE i + 1
    <3>1. count \in Nat BY StateFacts
    <3> QED BY <3>1
  <2>2. m # l BY <2>1
  <2>3. t.list[m] # n /\ t.list[m] \in 0 .. size - 1
    BY <1>3, <2>2, StateFacts
  <2>4. u.list[i] = t.list[m] BY <1>3, <2>1
  <2>5. u.at[u.list[i]] = t.at[t.list[m]] BY <1>3, <2>3, <2>4
  <2>6. Of(u)[i] = Of(t)[m] BY <1>4, <1>9, <2>5 DEF Of
  <2>7. RemoveAt(Of(t), l)[i] = Of(t)[m] BY <1>8, <2>1
  <2> QED BY <2>6, <2>7
<1>11. DOMAIN RemoveAt(Of(t), l) = 1 .. count - 1 BY <1>8, LenProperties
<1>12. Of(u) = [i \in 1 .. count - 1 |-> Of(u)[i]] BY <1>9 DEF Of
<1>13. RemoveAt(Of(t), l) =
         [i \in 1 .. count - 1 |-> RemoveAt(Of(t), l)[i]]
  BY <1>8, <1>11, LenProperties
<1>14. Of(u) = RemoveAt(Of(t), l) BY <1>10, <1>12, <1>13
<1> QED BY <1>6, <1>14 DEF u

(* lh_table_resize leaves the object as it is. *)
LEMMA MovedFields ==
  ASSUME IInv, call = "resize", n = count
  PROVE  Of(new) = Of(t)
<1>1. /\ Sound(new) /\ Len(new.list) = count
      /\ \A j \in 1 .. count : new.at[new.list[j]] = t.at[t.list[j]]
  BY DEF IInv, MoveOK
<1>2. DOMAIN new.list = 1 .. count BY <1>1, TableFacts DEF Sound
<1>3. DOMAIN t.list = 1 .. count BY StateFacts
<1> QED BY <1>1, <1>2, <1>3 DEF Of

(* lh_table_insert puts the field at the end. *)
LEMMA PutField ==
  ASSUME NEW tb, Sound(tb), NEW i \in 0 .. SizeOf(tb) - 1,
         tb.at[i].k \notin Key,
         NEW k \in Key, NEW v \in Value \union {NoValue}
  PROVE  Of(Put(tb, i, k, v)) = Append(Of(tb), <<k, v>>)
<1> DEFINE u == Put(tb, i, k, v)
           c == Len(tb.list)
           S == {Of(tb)[j] : j \in 1 .. c} \union {<<k, v>>}
<1>1. /\ TableType(u) /\ Len(u.list) = c + 1
      /\ \A j \in 1 .. c : u.list[j] = tb.list[j]
      /\ u.list[c + 1] = i
      /\ u.at[i] = [k |-> k, v |-> v]
      /\ \A p \in 0 .. SizeOf(tb) - 1 : p # i => u.at[p] = tb.at[p]
  BY PutFacts DEF Sound
<1>2. /\ DOMAIN tb.at = 0 .. SizeOf(tb) - 1 /\ c \in Nat
      /\ DOMAIN tb.list = 1 .. c
      /\ \A j \in 1 .. c : tb.list[j] \in 0 .. SizeOf(tb) - 1
  BY TableFacts DEF Sound
<1>3. DOMAIN u.list = 1 .. c + 1 BY <1>1, TableFacts
<1> HIDE DEF u, c
<1>4. \A j \in 1 .. c : tb.list[j] # i
  BY <1>2 DEF Sound, ListSound
<1>5. /\ DOMAIN Of(tb) = 1 .. c /\ DOMAIN Of(u) = 1 .. c + 1
      /\ \A j \in 1 .. c :
           Of(tb)[j] = <<tb.at[tb.list[j]].k, tb.at[tb.list[j]].v>>
      /\ \A j \in 1 .. c + 1 :
           Of(u)[j] = <<u.at[u.list[j]].k, u.at[u.list[j]].v>>
  BY <1>2, <1>3 DEF Of
<1>6. Of(tb) \in Seq(S) /\ Len(Of(tb)) = c /\ <<k, v>> \in S
  <2>1. Of(tb) \in [1 .. c -> S] BY <1>5 DEF Of
  <2>2. <<k, v>> \in S OBVIOUS
  <2> HIDE DEF S
  <2> QED BY <1>2, <2>1, <2>2
<1> HIDE DEF S
<1>7. /\ Append(Of(tb), <<k, v>>) \in Seq(S)
      /\ Len(Append(Of(tb), <<k, v>>)) = c + 1
      /\ \A j \in 1 .. c : Append(Of(tb), <<k, v>>)[j] = Of(tb)[j]
      /\ Append(Of(tb), <<k, v>>)[c + 1] = <<k, v>>
  BY <1>6, AppendProperties
<1>8. ASSUME NEW j \in 1 .. c + 1
      PROVE  Of(u)[j] = Append(Of(tb), <<k, v>>)[j]
  <2>1. CASE j = c + 1
    <3>1. u.at[u.list[j]].k = k /\ u.at[u.list[j]].v = v BY <1>1, <2>1
    <3> QED BY <1>5, <1>7, <2>1, <3>1
  <2>2. CASE j \in 1 .. c
    <3>1. u.at[u.list[j]] = tb.at[tb.list[j]] BY <1>1, <1>2, <1>4, <2>2
    <3>2. Of(u)[j] = Of(tb)[j] BY <1>5, <2>2, <3>1
    <3> QED BY <1>7, <2>2, <3>2
  <2>3. j = c + 1 \/ j \in 1 .. c BY <1>2
  <2> QED BY <2>1, <2>2, <2>3
<1>9. Of(u) = [j \in 1 .. c + 1 |-> Of(u)[j]] BY <1>5 DEF Of
<1>10. Append(Of(tb), <<k, v>>) =
         [j \in 1 .. c + 1 |-> Append(Of(tb), <<k, v>>)[j]]
  BY <1>7, LenProperties
<1>11. Of(u) = Append(Of(tb), <<k, v>>) BY <1>8, <1>9, <1>10
<1> QED BY <1>11 DEF u

LEMMA InitSeen == lh_Init => Object!Init
<1> SUFFICES ASSUME lh_Init PROVE Seen = <<>> BY DEF Object!Init
<1>1. call = "idle" /\ t.list = <<>> BY DEF lh_Init, lh_table_new
<1>2. Linked = <<>> BY <1>1 DEF Linked
<1> QED BY <1>1, <1>2 DEF Seen

LEMMA StepSeen ==
  ASSUME IInv, IInv', Step PROVE Seen' = Seen
<1> USE DEF IInv
<1>1. Linked = Of(t) /\ Linked' = Of(t') BY DEF Linked, Of
<1>2. CASE Probe \/ DeleteMissing \/ Move
  <2>1. /\ t' = t /\ key' = key /\ val' = val
        /\ call \notin {"idle", "get"} => call' \notin {"idle", "get"}
        /\ call \in {"idle", "get"} => call' \in {"idle", "get"}
    BY <1>2 DEF Probe, DeleteMissing, GoInsert, Move
  <2> QED BY <1>1, <2>1 DEF Seen
<1>3. CASE DeleteFound
  <2>1. /\ call = "delete" /\ call' \in {"insert", "resize"}
        /\ t' = lh_table_delete_entry(n) /\ key' = key /\ val' = val
    BY <1>3 DEF DeleteFound, GoInsert
  <2>2. Of(t') = Without(Of(t), key) BY <1>3, <2>1, DeletedField
  <2>3. Sound(lh_table_delete_entry(n))
    <3>1. key \in Key /\ t.at[n].k = key
      BY <1>3, <2>1 DEF StateType, DeleteFound
    <3> QED BY <3>1, StateFacts, DeleteSound
  <2>4. Lacks(lh_table_delete_entry(n), key)
    <3>1. Lacks(t, key)' BY <2>1 DEF ProbeOK
    <3> QED BY <2>1, <3>1 DEF Lacks
  <2>5. Without(Of(t'), key) = Of(t') BY <2>1, <2>3, <2>4, AbsentStays
  <2> QED BY <1>1, <2>1, <2>2, <2>5 DEF Seen
<1>4. CASE Resized
  <2>1. /\ call = "resize" /\ call' = "insert" /\ n = count /\ t' = new
        /\ key' = key /\ val' = val
    BY <1>4 DEF Resized
  <2>2. Of(t') = Of(t) BY <2>1, MovedFields
  <2> QED BY <1>1, <2>1, <2>2 DEF Seen
<1>5. CASE Insert
  <2>1. /\ call = "insert" /\ call' = "idle" /\ t' = Put(t, n, key, val)
        /\ t.at[n].k \in {EMPTY, FREED}
    BY <1>5 DEF Insert, Return
  <2>2. key \in Key /\ val \in Value /\ Lacks(t, key)
    BY <2>1 DEF StateType, ProbeOK
  <2>3. t.at[n].k \notin Key BY <2>1, LinkHashAssumption
  <2>4. Of(t') = Append(Of(t), <<key, val>>)
    BY <2>1, <2>2, <2>3, StateFacts, PutField
  <2>5. Without(Of(t), key) = Of(t) BY <2>2, AbsentStays
  <2> QED BY <1>1, <2>1, <2>4, <2>5 DEF Seen
<1>6. CASE Get
  <2>1. t' = t /\ call = "get" /\ call' = "idle" BY <1>6 DEF Get, Return
  <2> QED BY <1>1, <2>1 DEF Seen
<1> QED BY <1>2, <1>3, <1>4, <1>5, <1>6 DEF Step

LEMMA CallSeen ==
  ASSUME lh_Next PROVE Step \/ Seen' = Seen \/ Object!Next
<1>1. Linked = Of(t) /\ Linked' = Of(t') BY DEF Linked, Of
<1>2. CASE \E k \in Key : CallGet(k)
  <2>1. t' = t /\ call = "idle" /\ call' = "get" BY <1>2 DEF CallGet
  <2> QED BY <1>1, <2>1 DEF Seen
<1>3. ASSUME NEW k \in Key, NEW v \in Value, CallAdd(k, v)
      PROVE  Object!Next
  <2>1. /\ t' = t /\ call = "idle" /\ call' = "delete" /\ key' = k /\ val' = v
    BY <1>3 DEF CallAdd
  <2>2. Seen' = Append(Without(Seen, k), <<k, v>>)
    BY <1>1, <2>1 DEF Seen
  <2>9. Without(Seen, k) = Object!Without(k)
    BY DEF Object!Without, Without, Object!RemoveAt, RemoveAt
  <2>3. Object!Add(k, v) BY <2>2, <2>9 DEF Object!Add
  <2> QED BY <2>3 DEF Object!Next
<1> QED BY <1>2, <1>3 DEF lh_Next

LEMMA StutterSeen == UNCHANGED lh_vars => Seen' = Seen
BY DEF lh_vars, Seen, Linked

(* The steps of lh_table_delete, lh_table_resize and lh_table_insert show  *)
(* nothing, and json_object_object_add is Add: the table implements an     *)
(* object, the list of its fields.                                         *)
THEOREM ImplementsObject == lh_Spec => RefinesObject
<1>1. IInv /\ IInv' /\ [lh_Next]_lh_vars => [Object!Next]_Seen
  BY StepSeen, CallSeen, StutterSeen
<1> QED
  BY <1>1, Invariance, InitSeen, PTL
  DEF lh_Spec, RefinesObject, Object!Spec

==============================================================================
