-------------------------- MODULE MgmtServerProofs --------------------------
(***************************************************************************)
(* Proofs about MgmtServer, for every set of clients, any number of        *)
(* commands, counters and samples and any first size of an array.          *)
(***************************************************************************)
EXTENDS MgmtServer, SequenceTheorems, TLAPS

(* The places in which cur is being answered. *)
Answering ==
  Command \union {"error", "counter", "timer", "sample", "end"}
ServingOK ==
  /\ pc \in Answering => cur \in Client
  /\ \A c \in Client : c \in ready => conn[c] = "open"

(* What a client has sent and the server not received is one command, the   *)
(* one that it waits for; before its answer nothing more comes.             *)
Halves(cmd) == << <<cmd, 1>>, <<cmd, 2>> >>
StreamOK ==
  \A c \in Client \ split :
    conn[c] # "closed" =>
      \/ stream[c] = <<>>
      \/ asked[c] \in Command /\ stream[c] = Halves(asked[c])
ReceivedOK ==
  pc \in Answering /\ cur \notin split =>
    stream[cur] = <<>> /\ asked[cur] # NULL

(* The listing is at the counter after those that it has listed, and has no  *)
(* successor only where all that were due are before it.                     *)
CursorOK ==
  /\ pc \notin {"counter", "killed"} => listed = <<>>
  /\ \A i \in DOMAIN listed : listed[i] = i
  /\ pc = "counter" =>
       /\ el = 0 => Len(listed) >= due
       /\ el > 0 => el = Len(listed) + 1
       /\ el > 0 /\ tmp = 0 => el >= due
       /\ el > 0 /\ tmp > 0 => tmp = el + 1

(* The array's slots never get fewer. *)
SlotsOK == j <= arr.n

------------------------------------------------------------------------------
(* Types. *)

LEMMA SendTyped ==
  ASSUME TypeOK, NEW next, Send(next), cur \in Client
  PROVE  pc' \in {next, "killed"} /\ reset' \in SUBSET gone
BY DEF TypeOK, Send

LEMMA ReceiveTyped ==
  ASSUME TypeOK, NEW c \in Client, Receive(c)
  PROVE  /\ buf' \in Seq(Half \union {NULL}) /\ Len(buf') = 2
         /\ stream' \in [Client -> Seq(Half)]
         /\ pc' \in Command \union {"error"}
<1>1. PICK n \in 1 .. Len(stream[c]) :
        /\ buf' = Overwrite(SubSeq(stream[c], 1, n))
        /\ stream' = [stream EXCEPT ![c] = SubSeq(@, n + 1, Len(@))]
  BY DEF Receive
<1>2. stream[c] \in Seq(Half) /\ Len(stream[c]) \in Nat /\ n \in Nat
  <2>1. stream[c] \in Seq(Half) BY DEF TypeOK
  <2> QED BY <1>1, <2>1
<1>3. /\ SubSeq(stream[c], n + 1, Len(stream[c])) \in Seq(Half)
      /\ SubSeq(stream[c], 1, n) \in Seq(Half)
      /\ Len(SubSeq(stream[c], 1, n)) = n
  BY <1>1, <1>2
<1>4. stream' \in [Client -> Seq(Half)] BY <1>1, <1>3 DEF TypeOK
<1>5. buf \in Seq(Half \union {NULL}) /\ Len(buf) = 2 BY DEF TypeOK
<1>6. buf[2] \in Half \union {NULL}
  <2>1. 2 \in 1 .. Len(buf) BY <1>5
  <2> QED BY <1>5, <2>1, ElementOfSeq
<1> DEFINE s == SubSeq(stream[c], 1, n)
<1>7. s[1] \in Half /\ (n > 1 => s[2] \in Half)
  <2>1. s \in Seq(Half) /\ Len(s) = n /\ n >= 1 BY <1>2, <1>3
  <2> HIDE DEF s
  <2> QED BY <1>2, <2>1
<1>8. buf' \in Seq(Half \union {NULL}) /\ Len(buf') = 2
  <2>1. CASE n > 1
    <3>1. buf' = <<s[1], s[2]>> BY <1>1, <1>3, <2>1 DEF Overwrite
    <3> QED BY <1>7, <2>1, <3>1
  <2>2. CASE ~(n > 1)
    <3>1. buf' = <<s[1], buf[2]>> BY <1>1, <1>3, <2>2 DEF Overwrite
    <3> QED BY <1>6, <1>7, <3>1
  <2> QED BY <2>1, <2>2
<1>9. pc' \in Command \union {"error"}
  <2>1. pc' = Dispatch(buf') BY DEF Receive
  <2>2. CASE \E cmd \in Command : buf' = << <<cmd, 1>>, <<cmd, 2>> >>
    <3>1. PICK cmd \in Command : buf' = << <<cmd, 1>>, <<cmd, 2>> >> BY <2>2
    <3>2. pc' = buf'[1][1] BY <2>1, <2>2 DEF Dispatch
    <3> QED BY <3>1, <3>2
  <2>3. CASE ~\E cmd \in Command : buf' = << <<cmd, 1>>, <<cmd, 2>> >>
    BY <2>1, <2>3 DEF Dispatch
  <2> QED BY <2>2, <2>3
<1> QED BY <1>4, <1>8, <1>9

LEMMA PushTyped ==
  ASSUME TypeOK, PushSample
  PROVE  /\ arr' \in [place : {0, 1}, i : Nat, n : Nat]
         /\ arr'.i <= arr'.n /\ arr'.n >= arr.n
<1>1. arr \in [place : {0, 1}, i : Nat, n : Nat] /\ arr.i <= arr.n
  BY DEF TypeOK
<1>2. CASE arr.i < arr.n BY <1>1, <1>2 DEF PushSample
<1>3. CASE ~(arr.i < arr.n)
  <2>1. PICK place \in {arr.place, 1 - arr.place} :
          arr' = [place |-> place, i |-> arr.i + 1,
                  n |-> IF arr.n = 0 THEN InitialSlots ELSE 2 * arr.n]
    BY <1>3 DEF PushSample
  <2> QED BY <1>1, <1>3, <2>1, MgmtAssumption
<1> QED BY <1>2, <1>3

LEMMA TypeServingStep ==
  ASSUME TypeOK, ServingOK, [Next]_vars PROVE TypeOK' /\ ServingOK'
<1> USE DEF clientVars, listVars, tableVars
<1>1. ASSUME NEW c \in Client, Receive(c) PROVE TypeOK' /\ ServingOK'
  <2>1. /\ buf' \in Seq(Half \union {NULL}) /\ Len(buf') = 2
        /\ stream' \in [Client -> Seq(Half)]
        /\ pc' \in Command \union {"error"}
    BY <1>1, ReceiveTyped
  <2>2. /\ split' \in SUBSET Client /\ cur' \in Client
        /\ UNCHANGED <<conn, clientVars, reset, ready, listVars, tableVars>>
    <3>1. split \in SUBSET Client BY DEF TypeOK
    <3>2. split' = split \/ split' = split \union {c} BY <1>1 DEF Receive
    <3>3. /\ cur' = c
          /\ UNCHANGED <<conn, clientVars, reset, ready, listVars, tableVars>>
      BY <1>1 DEF Receive
    <3> QED BY <3>1, <3>2, <3>3
  <2> QED BY <2>1, <2>2 DEF TypeOK, ServingOK
<1>2. CASE PushSample
  <2>1. /\ arr' \in [place : {0, 1}, i : Nat, n : Nat]
        /\ arr'.i <= arr'.n
    BY <1>2, PushTyped
  <2>2. UNCHANGED <<conn, stream, clientVars, reset, buf, split, ready, pc,
                    cur, listVars, counters>>
    BY <1>2 DEF PushSample
  <2>3. TypeOK' BY <2>1, <2>2 DEF TypeOK
  <2>4. ServingOK' BY <2>2 DEF ServingOK
  <2> QED BY <2>3, <2>4
<1>3. CASE ClearTimer
  <2>1. arr \in [place : {0, 1}, i : Nat, n : Nat] BY DEF TypeOK
  <2>2. arr' \in [place : {0, 1}, i : Nat, n : Nat] /\ arr'.i <= arr'.n
    BY <1>3, <2>1 DEF ClearTimer
  <2>3. UNCHANGED <<conn, stream, clientVars, reset, buf, split, ready, pc,
                    cur, listVars, counters>>
    BY <1>3 DEF ClearTimer
  <2>4. TypeOK' BY <2>2, <2>3 DEF TypeOK
  <2>5. ServingOK' BY <2>3 DEF ServingOK
  <2> QED BY <2>4, <2>5
<1>4. CASE AddCounter
  <2>1. /\ counters \in Nat /\ counters' = counters + 1
        /\ counters' \in 0 .. MaxCounters
    BY <1>4, MgmtAssumption DEF AddCounter, TypeOK
  <2>2. listed \in Seq(1 .. counters) /\ listed' = listed
    BY <1>4 DEF AddCounter, TypeOK
  <2>3. listed' \in Seq(1 .. counters') BY <2>1, <2>2
  <2>4. {el', tmp', due'} \subseteq 0 .. counters'
    <3>1. {el, tmp, due} \subseteq 0 .. counters BY DEF TypeOK
    <3>2. el' = el /\ tmp' = tmp /\ due' = due BY <1>4 DEF AddCounter
    <3> QED BY <2>1, <3>1, <3>2
  <2>5. UNCHANGED <<conn, stream, clientVars, reset, buf, split, ready, pc,
                    cur, j, at, arr>>
    BY <1>4 DEF AddCounter
  <2> QED BY <2>1, <2>3, <2>4, <2>5 DEF TypeOK, ServingOK
<1>5. ASSUME NEW c \in Client, Connect(c) PROVE TypeOK' /\ ServingOK'
  <2>1. /\ conn' \in [Client -> {"new", "waiting", "open", "closed"}]
        /\ \A d \in Client : conn[d] = "open" => conn'[d] = "open"
    BY <1>5 DEF Connect, TypeOK
  <2>2. UNCHANGED <<stream, clientVars, reset, buf, split, ready, pc, cur,
                    listVars, tableVars>>
    BY <1>5 DEF Connect
  <2>3. TypeOK' BY <2>1, <2>2 DEF TypeOK
  <2>4. ServingOK' BY <2>1, <2>2 DEF ServingOK
  <2> QED BY <2>3, <2>4
<1>6. ASSUME NEW c \in Client, Leave(c) PROVE TypeOK' /\ ServingOK'
  <2>1. gone' = gone \union {c}
        /\ UNCHANGED <<conn, stream, asked, left, reset, buf, split, ready, pc,
                       cur, listVars, tableVars>>
    BY <1>6 DEF Leave
  <2>2. gone' \in SUBSET Client /\ reset' \in SUBSET gone'
    <3>1. gone \in SUBSET Client /\ reset \in SUBSET gone BY DEF TypeOK
    <3> QED BY <2>1, <3>1
  <2>3. TypeOK' BY <2>1, <2>2 DEF TypeOK
  <2>4. ServingOK' BY <2>1 DEF ServingOK
  <2> QED BY <2>3, <2>4
<1>7. ASSUME NEW c \in Client, NEW cmd \in Asked, Ask(c, cmd)
      PROVE TypeOK' /\ ServingOK'
  <2>1. cmd \in Command BY MgmtAssumption
  <2>2. stream' \in [Client -> Seq(Half)]
    <3>1. stream[c] \in Seq(Half) BY DEF TypeOK
    <3>2. << <<cmd, 1>>, <<cmd, 2>> >> \in Seq(Half) BY <2>1 DEF Half
    <3>3. stream[c] \o << <<cmd, 1>>, <<cmd, 2>> >> \in Seq(Half)
      BY <3>1, <3>2
    <3> QED BY <1>7, <3>3 DEF Ask, TypeOK
  <2>3. asked' \in [Client -> Command \union {NULL}]
    BY <1>7, <2>1 DEF Ask, TypeOK
  <2>4. left' \in 0 .. MaxCommands BY <1>7, MgmtAssumption DEF Ask, TypeOK
  <2>5. UNCHANGED <<conn, gone, reset, buf, split, ready, pc, cur, listVars,
                    tableVars>>
    BY <1>7 DEF Ask
  <2> QED BY <2>2, <2>3, <2>4, <2>5 DEF TypeOK, ServingOK
<1>8. CASE Select
  <2>1. /\ pc' = "loop"
        /\ UNCHANGED <<conn, stream, clientVars, reset, buf, split, cur,
                       listVars, tableVars>>
    BY <1>8 DEF Select
  <2>2. ready' = Readable \/ ready' = Readable \union {"listener"}
    BY <1>8 DEF Select
  <2>3. /\ Readable \in SUBSET Client
        /\ \A c \in Readable : conn[c] = "open"
    BY DEF Readable
  <2>4. ready' \in SUBSET (Client \union {"listener"}) BY <2>2, <2>3
  <2>5. TypeOK' BY <2>1, <2>4 DEF TypeOK
  <2>6. \A c \in Client : c # "listener" BY MgmtAssumption
  <2>7. \A c \in Client : c \in ready' => conn'[c] = "open"
    BY <2>1, <2>2, <2>3, <2>6
  <2>8. pc' \notin Answering BY <2>1 DEF Answering, Command
  <2> QED BY <2>5, <2>7, <2>8 DEF ServingOK
<1>9. CASE Accept
  <2>1. /\ ready' \subseteq ready
        /\ UNCHANGED <<stream, clientVars, reset, buf, split, pc, cur,
                       listVars, tableVars>>
    BY <1>9 DEF Accept
  <2>2. PICK c \in Waiting : conn' = [conn EXCEPT ![c] = "open"]
    BY <1>9 DEF Accept
  <2>3. conn \in [Client -> {"new", "waiting", "open", "closed"}]
    BY DEF TypeOK
  <2>4. c \in Client BY DEF Waiting
  <2>5. /\ conn' \in [Client -> {"new", "waiting", "open", "closed"}]
        /\ \A d \in Client : conn[d] = "open" => conn'[d] = "open"
    BY <2>2, <2>3, <2>4
  <2>6. ready' \in SUBSET (Client \union {"listener"}) BY <2>1 DEF TypeOK
  <2>7. TypeOK' BY <2>1, <2>5, <2>6 DEF TypeOK
  <2>8. ServingOK' BY <2>1, <2>5 DEF ServingOK
  <2> QED BY <2>7, <2>8
<1>10. CASE NextRound
  BY <1>10 DEF NextRound, TypeOK, ServingOK, Answering, Command
<1>11. ASSUME NEW c \in Client, HangUp(c) PROVE TypeOK' /\ ServingOK'
  <2>1. /\ conn' = [conn EXCEPT ![c] = "closed"]
        /\ asked' = [asked EXCEPT ![c] = NULL] /\ ready' = ready \ {c}
        /\ pc = "loop"
        /\ UNCHANGED <<stream, left, gone, reset, buf, split, pc, cur, listVars,
                       tableVars>>
    BY <1>11 DEF HangUp, Closing
  <2>2. /\ conn \in [Client -> {"new", "waiting", "open", "closed"}]
        /\ asked \in [Client -> Command \union {NULL}]
        /\ ready \in SUBSET (Client \union {"listener"})
    BY DEF TypeOK
  <2>3. /\ conn' \in [Client -> {"new", "waiting", "open", "closed"}]
        /\ \A d \in Client : d # c => conn'[d] = conn[d]
    BY <2>1, <2>2
  <2>4. /\ asked' \in [Client -> Command \union {NULL}]
        /\ ready' \in SUBSET (Client \union {"listener"})
    BY <2>1, <2>2
  <2>5. TypeOK' BY <2>1, <2>3, <2>4 DEF TypeOK
  <2>6. ServingOK' BY <2>1, <2>3 DEF ServingOK, Answering, Command
  <2> QED BY <2>5, <2>6
<1>12. ASSUME pc \in Answering, NEW next \in Answering, Send(next),
              UNCHANGED <<conn, stream, clientVars, buf, split, ready, cur, j,
                          at, tableVars>>,
              listed' \in Seq(1 .. counters), el' \in 0 .. counters,
              tmp' \in 0 .. counters, due' \in 0 .. counters
       PROVE  TypeOK' /\ ServingOK'
  <2>1. cur \in Client BY <1>12 DEF ServingOK
  <2>2. pc' \in {next, "killed"} /\ reset' \in SUBSET gone
    BY <1>12, <2>1, SendTyped
  <2>3. pc' \in Answering \union {"killed"} BY <2>2
  <2>4. /\ pc' \in Command \union {"error", "select", "loop", "counter",
                                   "timer", "sample", "end", "killed"}
        /\ reset' \in SUBSET gone'
    BY <1>12, <2>2, <2>3 DEF Answering
  <2>5. {el', tmp', due'} \subseteq 0 .. counters' BY <1>12
  <2>6. TypeOK' BY <1>12, <2>4, <2>5 DEF TypeOK
  <2>7. ServingOK' BY <1>12, <2>1 DEF ServingOK
  <2> QED BY <2>6, <2>7
<1>13. ASSUME pc \in Answering, Send("loop"), Done,
              UNCHANGED <<conn, stream, left, gone, buf, split, tableVars>>
       PROVE  TypeOK' /\ ServingOK'
  <2>1. cur \in Client BY <1>13 DEF ServingOK
  <2>2. pc' \in {"loop", "killed"} /\ reset' \in SUBSET gone
    BY <1>13, <2>1, SendTyped
  <2>3. <<>> \in Seq(1 .. counters) /\ 0 \in 0 .. counters
    BY DEF TypeOK
  <2>4. asked' \in [Client -> Command \union {NULL}]
    BY <1>13 DEF Done, TypeOK
  <2>5. TypeOK'
    <3>1. /\ ready' \in SUBSET (Client \union {"listener"}) /\ cur' = NULL
          /\ el' = 0 /\ tmp' = 0 /\ listed' = <<>> /\ due' = 0
          /\ j' = 0 /\ at' = 0
      BY <1>13 DEF Done, TypeOK
    <3> QED BY <1>13, <2>2, <2>3, <2>4, <3>1 DEF TypeOK
  <2>6. ServingOK'
    BY <1>13, <2>2 DEF Done, ServingOK, Answering, Command
  <2> QED BY <2>5, <2>6
<1>14. CASE Answer BY <1>13, <1>14 DEF Answer, Answering, Command
<1>15. CASE End BY <1>13, <1>15 DEF End, Answering
<1>16. CASE Quit
  <2>1. cur \in Client BY <1>16 DEF Quit, ServingOK, Answering, Command
  <2> QED
    BY <1>16, <2>1 DEF Quit, Closing, TypeOK, ServingOK, Answering, Command
<1>17. CASE BeginCounters
  <2>1. /\ counters \in Nat
        /\ NextOf(IF counters = 0 THEN 0 ELSE 1) \in 0 .. counters
    BY DEF TypeOK, NextOf
  <2>2. /\ el' \in 0 .. counters /\ tmp' \in 0 .. counters
        /\ due' = counters /\ listed' = listed /\ reset' = reset
        /\ pc' = "counter"
    BY <1>17, <2>1 DEF BeginCounters, GoCounter
  <2>3. UNCHANGED <<conn, stream, clientVars, buf, split, ready, cur, j, at,
                    tableVars>>
    BY <1>17 DEF BeginCounters, GoCounter
  <2>4. pc = "counters" BY <1>17 DEF BeginCounters
  <2>5. TypeOK'
    <3>1. {el', tmp', due'} \subseteq 0 .. counters' BY <2>1, <2>2, <2>3
    <3> QED BY <2>2, <2>3, <3>1 DEF TypeOK
  <2>6. ServingOK' BY <2>2, <2>3, <2>4 DEF ServingOK, Answering, Command
  <2> QED BY <2>5, <2>6
<1>18. CASE ListCounter
  <2>1. /\ counters \in Nat /\ el \in 1 .. counters /\ tmp \in 0 .. counters
        /\ listed \in Seq(1 .. counters)
    BY <1>18 DEF TypeOK, ListCounter
  <2>2. NextOf(tmp) \in 0 .. counters BY <2>1 DEF NextOf
  <2>3. listed' \in Seq(1 .. counters) BY <1>18, <2>1 DEF ListCounter
  <2>4. /\ el' \in 0 .. counters /\ tmp' \in 0 .. counters
        /\ due' \in 0 .. counters
    BY <1>18, <2>1, <2>2 DEF ListCounter, GoCounter, TypeOK
  <2> QED BY <1>12, <1>18, <2>3, <2>4 DEF ListCounter, GoCounter, Answering
<1>19. CASE BeginTimer
  <2>1. /\ listed' \in Seq(1 .. counters) /\ el' \in 0 .. counters
        /\ tmp' \in 0 .. counters /\ due' \in 0 .. counters
    BY <1>19 DEF BeginTimer, TypeOK
  <2>2. pc \in Answering BY <1>19 DEF BeginTimer, Answering, Command
  <2> QED BY <1>12, <1>19, <2>1, <2>2 DEF BeginTimer, Answering
<1>20. CASE NextSample
  <2>1. /\ pc = "timer" /\ pc' \in {"sample", "end"}
        /\ UNCHANGED <<conn, stream, clientVars, reset, buf, split, ready, cur,
                       el, tmp, listed, due, tableVars>>
    BY <1>20 DEF NextSample
  <2>2. j' \in Nat /\ at' \in {0, 1}
    <3>1. j \in Nat /\ at \in {0, 1} /\ arr.place \in {0, 1} BY DEF TypeOK
    <3>2. \/ j' = j /\ at' = at
          \/ \E i \in {0, j} : j' = i + 1 /\ at' = arr.place
      BY <1>20 DEF NextSample
    <3> QED BY <3>1, <3>2
  <2>3. TypeOK' BY <2>1, <2>2 DEF TypeOK
  <2>4. ServingOK' BY <2>1 DEF ServingOK, Answering
  <2> QED BY <2>3, <2>4
<1>21. CASE SendSample
  <2>1. /\ listed' \in Seq(1 .. counters) /\ el' \in 0 .. counters
        /\ tmp' \in 0 .. counters /\ due' \in 0 .. counters
    BY <1>21 DEF SendSample, TypeOK
  <2>2. CASE Send("timer")
    BY <1>12, <1>21, <2>1, <2>2 DEF SendSample, Answering
  <2>3. CASE pc' = "killed" /\ UNCHANGED reset
    BY <1>21, <2>3 DEF SendSample, TypeOK, ServingOK, Answering, Command
  <2> QED BY <1>21, <2>2, <2>3 DEF SendSample
<1>22. CASE UNCHANGED vars BY <1>22 DEF vars, TypeOK, ServingOK
<1> QED
  BY <1>1, <1>2, <1>3, <1>4, <1>5, <1>6, <1>7, <1>8, <1>9, <1>10, <1>11,
     <1>14, <1>15, <1>16, <1>17, <1>18, <1>19, <1>20, <1>21, <1>22
  DEF Next, Server, Outside

------------------------------------------------------------------------------
(* What a client is answered. *)

AskOK == StreamOK /\ ReceivedOK /\ AnsweredAsAsked

LEMMA ReceiveAskStep ==
  ASSUME TypeOK, ServingOK, AskOK, NEW c \in Client, Receive(c) PROVE AskOK'
<1>1. PICK n \in 1 .. Len(stream[c]) :
        /\ buf' = Overwrite(SubSeq(stream[c], 1, n))
        /\ stream' = [stream EXCEPT ![c] = SubSeq(@, n + 1, Len(@))]
        /\ split' = IF n = 1 THEN split \union {c} ELSE split
  BY DEF Receive
<1>2. /\ cur' = c /\ pc' = Dispatch(buf') /\ UNCHANGED <<conn, asked>>
      /\ conn[c] = "open"
  BY DEF Receive, clientVars, ServingOK
<1>3. ASSUME c \notin split'
      PROVE  stream'[c] = <<>> /\ asked[c] \in Command /\ pc' = asked[c]
  <2>1. c \notin split /\ n # 1 BY <1>1, <1>3
  <2>2. stream[c] \in Seq(Half) BY DEF TypeOK
  <2>3. stream[c] # <<>> BY <1>1, <2>2
  <2>4. asked[c] \in Command /\ stream[c] = Halves(asked[c])
    BY <1>2, <2>1, <2>3 DEF AskOK, StreamOK
  <2>5. Len(stream[c]) = 2 /\ n = 2 BY <1>1, <2>1, <2>4 DEF Halves
  <2>6. SubSeq(stream[c], 3, 2) = <<>> BY <2>2
  <2>7. stream'[c] = <<>> BY <1>1, <2>5, <2>6 DEF TypeOK
  <2>8. /\ Len(SubSeq(stream[c], 1, 2)) = 2
        /\ SubSeq(stream[c], 1, 2)[1] = stream[c][1]
        /\ SubSeq(stream[c], 1, 2)[2] = stream[c][2]
    BY <2>2, <2>5
  <2>9. buf' = <<stream[c][1], stream[c][2]>>
    <3> DEFINE s == SubSeq(stream[c], 1, 2)
    <3>1. Len(s) = 2 /\ s[1] = stream[c][1] /\ s[2] = stream[c][2] BY <2>8
    <3>2. buf' = Overwrite(s) BY <1>1, <2>5
    <3> HIDE DEF s
    <3> QED BY <3>1, <3>2 DEF Overwrite
  <2>10. buf' = Halves(asked[c]) BY <2>4, <2>9 DEF Halves
  <2>11. buf'[1][1] = asked[c] BY <2>10 DEF Halves
  <2>12. pc' = asked[c]
    BY <1>2, <2>4, <2>10, <2>11 DEF Dispatch, Halves
  <2> QED BY <2>4, <2>7, <2>12
<1>4. \A d \in Client \ {c} : stream'[d] = stream[d] BY <1>1 DEF TypeOK
<1>5. split \subseteq split' BY <1>1
<1>6. StreamOK'
  BY <1>2, <1>3, <1>4, <1>5 DEF AskOK, StreamOK
<1>7. ReceivedOK' BY <1>2, <1>3, MgmtAssumption DEF ReceivedOK
<1>8. AnsweredAsAsked' BY <1>2, <1>3 DEF AnsweredAsAsked
<1> QED BY <1>6, <1>7, <1>8 DEF AskOK

LEMMA AskAskStep ==
  ASSUME TypeOK, ServingOK, AskOK, NEW c \in Client, NEW cmd \in Asked,
         Ask(c, cmd)
  PROVE  AskOK'
<1>1. /\ conn[c] # "closed" /\ asked[c] = NULL /\ cmd \in Command
      /\ UNCHANGED <<conn, split, pc, cur>>
  BY MgmtAssumption DEF Ask
<1>2. /\ asked' = [asked EXCEPT ![c] = cmd]
      /\ stream' = [stream EXCEPT ![c] = @ \o << <<cmd, 1>>, <<cmd, 2>> >>]
  BY DEF Ask
<1>3. asked'[c] = cmd /\ \A d \in Client \ {c} : /\ asked'[d] = asked[d]
                                              /\ stream'[d] = stream[d]
  BY <1>2 DEF TypeOK
<1>4. ASSUME c \notin split PROVE stream'[c] = Halves(cmd)
  <2>1. stream[c] = <<>>
    BY <1>1, <1>4, MgmtAssumption DEF AskOK, StreamOK
  <2>2. <<>> \o << <<cmd, 1>>, <<cmd, 2>> >> = << <<cmd, 1>>, <<cmd, 2>> >>
    OBVIOUS
  <2> QED BY <1>2, <2>1, <2>2 DEF TypeOK, Halves
<1>5. StreamOK' BY <1>1, <1>3, <1>4 DEF AskOK, StreamOK
<1>6. pc \in Answering => cur \in split \/ cur \in Client \ {c}
  BY <1>1 DEF AskOK, ReceivedOK, ServingOK
<1>7. ReceivedOK' BY <1>1, <1>3, <1>6 DEF AskOK, ReceivedOK
<1>8. AnsweredAsAsked'
  BY <1>1, <1>3, <1>6 DEF AskOK, AnsweredAsAsked, Answering
<1> QED BY <1>5, <1>7, <1>8 DEF AskOK

LEMMA AskStep ==
  ASSUME TypeOK, ServingOK, AskOK, [Next]_vars PROVE AskOK'
<1> USE DEF clientVars
<1>1. ASSUME NEW c \in Client, Receive(c) PROVE AskOK'
  BY <1>1, ReceiveAskStep
<1>2. ASSUME NEW c \in Client, NEW cmd \in Asked, Ask(c, cmd) PROVE AskOK'
  BY <1>2, AskAskStep
<1>3. ASSUME UNCHANGED <<stream, asked, split>>,
             \A c \in Client : conn'[c] # "closed" => conn[c] # "closed",
             \/ pc' \notin Answering
             \/ pc' = pc /\ cur' = cur
             \/ /\ pc \in Answering /\ cur' = cur
                /\ pc' \in {"counter", "timer", "sample", "end"}
      PROVE AskOK'
  BY <1>3 DEF AskOK, StreamOK, ReceivedOK, AnsweredAsAsked, Answering, Command
<1>4. ASSUME UNCHANGED <<stream, asked, split, conn>>,
             \/ pc' \notin Answering
             \/ pc' = pc /\ cur' = cur
             \/ /\ pc \in Answering /\ cur' = cur
                /\ pc' \in {"counter", "timer", "sample", "end"}
      PROVE AskOK'
  BY <1>3, <1>4
<1>5. ASSUME pc \in Answering, pc' \in {"loop", "killed"}, cur \in Client,
             asked' = [asked EXCEPT ![cur] = NULL],
             UNCHANGED <<stream, conn, split>>
      PROVE AskOK'
  <2>1. \A c \in Client \ split : conn'[c] # "closed" =>
          \/ stream'[c] = <<>>
          \/ asked'[c] \in Command /\ stream'[c] = Halves(asked'[c])
    BY <1>5 DEF TypeOK, AskOK, StreamOK, ReceivedOK
  <2> QED
    BY <1>5, <2>1
    DEF AskOK, StreamOK, ReceivedOK, AnsweredAsAsked, Answering, Command
<1>6. ASSUME NEW c \in Client, Closing(c), pc' = "loop",
             UNCHANGED <<stream, split>>
      PROVE AskOK'
  <2>1. \A d \in Client \ split : conn'[d] # "closed" =>
          \/ stream'[d] = <<>>
          \/ asked'[d] \in Command /\ stream'[d] = Halves(asked'[d])
    BY <1>6 DEF Closing, TypeOK, AskOK, StreamOK
  <2> QED
    BY <1>6, <2>1
    DEF AskOK, StreamOK, ReceivedOK, AnsweredAsAsked, Answering, Command
<1>7. ASSUME NEW next \in {"counter", "timer", "end"}, Send(next),
             pc \in Answering, UNCHANGED <<stream, asked, split, conn, cur>>
      PROVE AskOK'
  BY <1>4, <1>7 DEF Send, Answering, Command
<1>8. ASSUME NEW c \in Client, Connect(c) \/ Leave(c) PROVE AskOK'
  BY <1>3, <1>8 DEF Connect, Leave, TypeOK
<1>9. CASE AddCounter \/ PushSample \/ ClearTimer
  BY <1>4, <1>9 DEF AddCounter, PushSample, ClearTimer
<1>10. CASE Select
  BY <1>4, <1>10 DEF Select, Answering, Command
<1>11. CASE Accept BY <1>3, <1>11 DEF Accept, Waiting, TypeOK
<1>12. CASE NextRound BY <1>4, <1>12 DEF NextRound, Answering, Command
<1>13. ASSUME NEW c \in Client, HangUp(c) PROVE AskOK'
  BY <1>6, <1>13 DEF HangUp
<1>14. CASE Answer \/ End
  <2>1. pc \in Answering BY <1>14 DEF Answer, End, Answering, Command
  <2>2. cur \in Client BY <2>1 DEF ServingOK
  <2>3. pc' \in {"loop", "killed"} BY <1>14 DEF Answer, End, Send
  <2> QED BY <1>5, <1>14, <2>1, <2>2, <2>3 DEF Answer, End, Done
<1>15. CASE Quit
  <2>1. cur \in Client BY <1>15 DEF Quit, ServingOK, Answering, Command
  <2> QED BY <1>6, <1>15, <2>1 DEF Quit
<1>16. CASE BeginCounters
  BY <1>4, <1>16 DEF BeginCounters, GoCounter, Answering, Command
<1>17. CASE ListCounter
  BY <1>7, <1>17 DEF ListCounter, GoCounter, Answering
<1>18. CASE BeginTimer
  BY <1>7, <1>18 DEF BeginTimer, Answering, Command
<1>19. CASE NextSample BY <1>4, <1>19 DEF NextSample, Answering
<1>20. CASE SendSample
  BY <1>4, <1>20 DEF SendSample, Send, Answering, Command
<1>21. CASE UNCHANGED vars BY <1>4, <1>21 DEF vars
<1> QED
  BY <1>1, <1>2, <1>8, <1>9, <1>10, <1>11, <1>12, <1>13, <1>14, <1>15, <1>16,
     <1>17, <1>18, <1>19, <1>20, <1>21 DEF Next, Server, Outside

------------------------------------------------------------------------------
(* The listing of the counters. *)

LEMMA ListStep ==
  ASSUME TypeOK, CursorOK, [Next]_vars PROVE CursorOK'
<1> USE DEF clientVars, listVars, tableVars
<1>1. ASSUME UNCHANGED listVars, pc' # "counter",
             pc \notin {"counter", "killed"} \/ pc' = "killed"
      PROVE  CursorOK'
  BY <1>1 DEF CursorOK
<1>2. ASSUME UNCHANGED listVars, UNCHANGED pc PROVE CursorOK'
  BY <1>2 DEF CursorOK
<1>3. ASSUME Done, pc' # "counter" PROVE CursorOK'
  BY <1>3 DEF CursorOK, Done
<1>4. CASE BeginCounters
  <2>1. /\ listed' = <<>> /\ el' = IF counters = 0 THEN 0 ELSE 1
        /\ tmp' = NextOf(el') /\ due' = counters /\ counters \in Nat
        /\ pc' = "counter"
    BY <1>4 DEF BeginCounters, GoCounter, CursorOK, TypeOK
  <2>2. Len(listed') = 0 BY <2>1
  <2> QED BY <2>1, <2>2 DEF CursorOK, NextOf
<1>5. CASE ListCounter
  <2>1. /\ pc = "counter" /\ el > 0 /\ pc' \in {"counter", "killed"}
        /\ listed' = Append(listed, el) /\ due' = due
        /\ el' = tmp /\ tmp' = NextOf(tmp)
    BY <1>5 DEF ListCounter, GoCounter, Send
  <2>2. /\ listed \in Seq(1 .. counters) /\ counters \in Nat
        /\ el \in 1 .. counters /\ tmp \in 0 .. counters
        /\ due \in 0 .. counters
    BY <2>1 DEF TypeOK
  <2>3. el = Len(listed) + 1 /\ Len(listed) \in Nat
    BY <2>1, <2>2 DEF CursorOK
  <2>4. /\ Len(listed') = Len(listed) + 1
        /\ \A i \in DOMAIN listed' : listed'[i] = i
    <3>1. /\ Len(listed') = Len(listed) + 1
          /\ DOMAIN listed' = 1 .. Len(listed')
          /\ listed'[Len(listed) + 1] = el
          /\ \A i \in 1 .. Len(listed) : listed'[i] = listed[i]
      BY <2>1, <2>2
    <3>2. \A i \in 1 .. Len(listed) : listed[i] = i
      BY <2>2 DEF CursorOK
    <3> QED BY <2>3, <3>1, <3>2
  <2>5. tmp = 0 => el >= due BY <2>1 DEF CursorOK
  <2>6. tmp > 0 => tmp = el + 1 BY <2>1 DEF CursorOK
  <2>7. tmp > 0 /\ NextOf(tmp) = 0 => tmp >= due BY <2>2 DEF NextOf
  <2>8. tmp > 0 /\ NextOf(tmp) > 0 => NextOf(tmp) = tmp + 1
    BY <2>2 DEF NextOf
  <2> QED
    BY <2>1, <2>2, <2>3, <2>4, <2>5, <2>6, <2>7, <2>8 DEF CursorOK
<1>6. CASE Answer \/ End BY <1>3, <1>6 DEF Answer, End, Send
<1>7. CASE AddCounter \/ PushSample \/ ClearTimer
  BY <1>2, <1>7 DEF AddCounter, PushSample, ClearTimer
<1>8. ASSUME NEW c \in Client, Connect(c) \/ Leave(c) \/ HangUp(c)
      PROVE  CursorOK'
  <2>1. UNCHANGED listVars /\ (UNCHANGED pc)
    BY <1>8 DEF Connect, Leave, HangUp
  <2> QED BY <1>2, <2>1
<1>9. ASSUME NEW c \in Client, NEW cmd \in Asked, Ask(c, cmd)
      PROVE  CursorOK'
  BY <1>2, <1>9 DEF Ask
<1>10. ASSUME NEW c \in Client, Receive(c) PROVE CursorOK'
  <2>1. pc' \in Command \union {"error"} BY <1>10, ReceiveTyped
  <2> QED BY <1>1, <1>10, <2>1 DEF Receive, Command
<1>11. CASE Select \/ NextRound \/ Quit
  BY <1>1, <1>11 DEF Select, NextRound, Quit
<1>12. CASE Accept BY <1>2, <1>12 DEF Accept
<1>13. CASE BeginTimer BY <1>1, <1>13 DEF BeginTimer, Send
<1>14. CASE NextSample BY <1>14 DEF NextSample, CursorOK
<1>15. CASE SendSample BY <1>1, <1>15 DEF SendSample, Send
<1>16. CASE UNCHANGED vars BY <1>2, <1>16 DEF vars
<1> QED
  BY <1>4, <1>5, <1>6, <1>7, <1>8, <1>9, <1>10, <1>11, <1>12, <1>13, <1>14,
     <1>15, <1>16 DEF Next, Server, Outside

------------------------------------------------------------------------------
(* The listing of a timer's samples. *)

LEMMA SlotsStep ==
  ASSUME TypeOK, SlotsOK, [Next]_vars PROVE SlotsOK'
<1> USE DEF listVars, tableVars
<1>1. CASE UNCHANGED <<j, arr>> BY <1>1 DEF SlotsOK
<1>2. CASE PushSample
  <2>1. arr'.n >= arr.n /\ arr'.n \in Nat /\ arr.n \in Nat /\ j \in Nat
    BY <1>2, PushTyped DEF TypeOK
  <2> QED BY <1>2, <2>1 DEF PushSample, SlotsOK
<1>3. CASE ClearTimer
  <2>1. arr'.n = arr.n BY <1>3 DEF ClearTimer, TypeOK
  <2> QED BY <1>3, <2>1 DEF ClearTimer, SlotsOK
<1>4. CASE NextSample
  <2>1. j' = j \/ \E i \in Nat : j' = i + 1 /\ arr.i > i
    BY <1>4 DEF NextSample, HasNext, TypeOK
  <2>2. arr' = arr BY <1>4 DEF NextSample
  <2>3. arr.i \in Nat /\ arr.n \in Nat /\ arr.i <= arr.n BY DEF TypeOK
  <2> QED BY <2>1, <2>2, <2>3 DEF SlotsOK
<1>5. CASE Done /\ UNCHANGED arr
  <2>1. arr.n \in Nat BY DEF TypeOK
  <2> QED BY <1>5, <2>1 DEF Done, SlotsOK
<1>6. \/ PushSample \/ ClearTimer \/ NextSample \/ (Done /\ UNCHANGED arr)
      \/ UNCHANGED <<j, arr>>
  BY DEF Next, Server, Outside, Connect, Leave, Ask, AddCounter, Select,
     Accept,
     NextRound, HangUp, Receive, Answer, Quit, BeginCounters, ListCounter,
     GoCounter, BeginTimer, SendSample, End, vars
<1> QED BY <1>1, <1>2, <1>3, <1>4, <1>5, <1>6

------------------------------------------------------------------------------
(* The theorems. *)

Inv == TypeOK /\ ServingOK /\ AskOK /\ CursorOK /\ SlotsOK

LEMMA InvStart == ASSUME Init PROVE Inv
<1>1. TypeOK
  <2>1. /\ <<>> \in Seq(Half) /\ <<>> \in Seq(1 .. 0)
        /\ <<NULL, NULL>> \in Seq(Half \union {NULL})
        /\ Len(<<NULL, NULL>>) = 2
    OBVIOUS
  <2>2. 0 \in 0 .. MaxCounters /\ MaxCommands \in 0 .. MaxCommands
    BY MgmtAssumption
  <2> QED BY <2>1, <2>2 DEF Init, TypeOK, Command
<1>2. ServingOK BY DEF Init, ServingOK, Answering, Command
<1>3. AskOK
  BY DEF Init, AskOK, StreamOK, ReceivedOK, AnsweredAsAsked, Answering, Command
<1>4. CursorOK BY DEF Init, CursorOK
<1>5. SlotsOK BY DEF Init, SlotsOK
<1> QED BY <1>1, <1>2, <1>3, <1>4, <1>5 DEF Inv

LEMMA Invariance == Spec => []Inv
<1>1. Init => Inv BY InvStart
<1>2. Inv /\ [Next]_vars => Inv'
  BY TypeServingStep, AskStep, ListStep, SlotsStep DEF Inv
<1> QED BY <1>1, <1>2, PTL DEF Spec

(* The server's state is what its declarations say, for any clients. *)
THEOREM TypeCorrect == Spec => []TypeOK
<1>1. Inv => TypeOK BY DEF Inv
<1> QED BY <1>1, Invariance, PTL

(* The one buffer of p_thread_mgmt, which no one clears, gives no client the *)
(* answer to another command than its own, if its commands come whole.       *)
THEOREM OwnAnswer == Spec => []AnsweredAsAsked
<1>1. Inv => AnsweredAsAsked BY DEF Inv, AskOK
<1> QED BY <1>1, Invariance, PTL

(* HASH_ITER without the lock lists every counter that was there when the    *)
(* listing began, once and in order, however many are added meanwhile.       *)
THEOREM ListingComplete == Spec => []ListingCoversTable
<1>1. Inv => ListingCoversTable BY DEF Inv, CursorOK, ListingCoversTable
<1> QED BY <1>1, Invariance, PTL

(* utarray_next stays in the slots of an array that has not moved, although  *)
(* other threads push to the array and clear it.                             *)
THEOREM SamplesInside == Spec => []InsideTheArray
<1>1. Inv => InsideTheArray BY DEF Inv, SlotsOK, InsideTheArray
<1> QED BY <1>1, Invariance, PTL
==============================================================================
