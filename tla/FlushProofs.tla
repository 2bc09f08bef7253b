---------------------------- MODULE FlushProofs ----------------------------
(***************************************************************************)
(* Proofs about Flush, for every set of gauges with names of any length,   *)
(* every choice of back ends and both build options.                       *)
(***************************************************************************)
EXTENDS Flush, TLAPS

GaugePlace ==
  {"value", "graphite_line", "gmetric_value", "prefixed_metadata",
   "prefixed_value", "bare_metadata", "bare_value", "next"}
Place ==
  GaugePlace \union {"sleep", "totals", "total_value", "graphite", "connect",
                     "send", "close_graphite", "last_flush", "close_gmetric",
                     "killed"}

(* The cursor of the flush is in the list while it is at a gauge, and its    *)
(* place says how much of it was read.                                       *)
TypeOK ==
  /\ gauges \in Seq(Key) /\ value \in [Key -> Int]
  /\ fl \in Place
  /\ el \in 0 .. Len(gauges) /\ tmp \in 0 .. Len(gauges)
  /\ sockets \in SUBSET {"gm", "graphite"}
CursorOK ==
  /\ fl \in GaugePlace => el > 0
  /\ fl \notin GaugePlace => el = 0 /\ read = NULL
  /\ fl \notin {"value", "graphite_line", "gmetric_value"} => part = NULL

(* The flush is done with the gauges before its cursor.  The successor that  *)
(* it has read ahead is the next one, unless there was none; then all that   *)
(* the list had at the beginning are behind it.                              *)
SeenOK ==
  /\ due \in 0 .. Len(gauges) /\ seen \in Seq(Key)
  /\ fl \in GaugePlace => /\ Len(seen) = el - 1
                          /\ tmp = el + 1 \/ (tmp = 0 /\ el >= due)
  /\ fl = "totals" => Len(seen) >= due
  /\ Len(seen) <= Len(gauges)
  /\ \A i \in 1 .. Len(seen) : seen[i] = gauges[i]

(* Which sockets are open.                                                   *)
SocketOK ==
  /\ fl = "sleep" => sockets = {}
  /\ "gm" \in sockets => enable_gmetric
  /\ "graphite" \in sockets =>
       fl \in {"connect", "send", "close_graphite", "killed"}

(* What was sent last before a value.                                        *)
WireOK ==
  /\ fl \in {"prefixed_value", "bare_value"} =>
       wire = <<"metadata", GaugeMessage>>
  /\ fl = "total_value" => wire = <<"metadata", StatMessage>>

------------------------------------------------------------------------------
(* The list of the gauges only grows at its end. *)
LEMMA GaugesGrow ==
  ASSUME gauges \in Seq(Key), NEW k \in Key, NEW v \in Int, NEW pm,
         UpdateGauge(k, v, pm)
  PROVE  /\ gauges' \in Seq(Key) /\ Len(gauges') >= Len(gauges)
         /\ \A i \in 1 .. Len(gauges) : gauges'[i] = gauges[i]
<1>2. CASE gauges' = gauges BY <1>2
<1>3. CASE gauges' = Append(gauges, k) BY <1>3
<1> QED BY <1>2, <1>3 DEF UpdateGauge

(* First and NextOf stay in the list. *)
LEMMA CursorRange ==
  ASSUME gauges \in Seq(Key)
  PROVE  /\ First \in 0 .. Len(gauges)
         /\ \A i \in 0 .. Len(gauges) : NextOf(i) \in 0 .. Len(gauges)
BY DEF First, NextOf

LEMMA GaugeTypeStep ==
  ASSUME TypeOK, CursorOK, NEW k \in Key, NEW v \in Int, NEW pm,
         UpdateGauge(k, v, pm)
  PROVE  TypeOK' /\ CursorOK'
<1>1. gauges \in Seq(Key) /\ value \in [Key -> Int] BY DEF TypeOK
<1>2. gauges' \in Seq(Key) /\ Len(gauges') >= Len(gauges)
  BY <1>1, GaugesGrow
<1>3. UNCHANGED <<fl, el, tmp, part, read, sockets>>
  BY DEF UpdateGauge, readVars, netVars
<1>4. value' \in [Key -> Int]
  <2>1. value'[k] \in Int BY FlushAssumption DEF UpdateGauge
  <2>2. value' = [value EXCEPT ![k] = value'[k]]
    <3>1. PICK x : value' = [value EXCEPT ![k] = x] BY DEF UpdateGauge
    <3> QED BY <1>1, <3>1
  <2> QED BY <1>1, <2>1, <2>2
<1>5. Len(gauges) \in Nat /\ Len(gauges') \in Nat BY <1>1, <1>2
<1>6. el' \in 0 .. Len(gauges') /\ tmp' \in 0 .. Len(gauges')
  BY <1>2, <1>3, <1>5 DEF TypeOK
<1> QED BY <1>2, <1>3, <1>4, <1>6 DEF TypeOK, CursorOK

LEMMA WakeTypeStep ==
  ASSUME TypeOK, CursorOK, Wake PROVE TypeOK' /\ CursorOK'
<1>1. gauges \in Seq(Key) /\ Len(gauges) \in Nat
  <2>1. gauges \in Seq(Key) BY DEF TypeOK
  <2> QED BY <2>1
<1>2. First \in 0 .. Len(gauges) BY <1>1, CursorRange
<1>3. NextOf(First) \in 0 .. Len(gauges) BY <1>1, <1>2, CursorRange
<1>4. /\ UNCHANGED <<gauges, value, part>> /\ fl = "sleep"
      /\ el' = First /\ tmp' = NextOf(First) /\ read' = NULL
      /\ fl' = IF First = 0 THEN "totals" ELSE "value"
  BY DEF Wake, GoGauge, Goto
<1>5. sockets' \in SUBSET {"gm", "graphite"}
  BY DEF TypeOK, Wake, gmetric_open
<1>6. TypeOK' BY <1>1, <1>2, <1>3, <1>4, <1>5 DEF TypeOK, Place, GaugePlace
<1> QED
  BY <1>1, <1>2, <1>4, <1>6 DEF TypeOK, CursorOK, GaugePlace

LEMMA NextTypeStep ==
  ASSUME TypeOK, CursorOK, NextGauge PROVE TypeOK' /\ CursorOK'
<1>1. gauges \in Seq(Key) /\ Len(gauges) \in Nat
  <2>1. gauges \in Seq(Key) BY DEF TypeOK
  <2> QED BY <2>1
<1>2. tmp \in 0 .. Len(gauges) BY DEF TypeOK
<1>3. NextOf(tmp) \in 0 .. Len(gauges) BY <1>1, <1>2, CursorRange
<1>4. /\ UNCHANGED <<gauges, value, part, sockets>> /\ fl = "next"
      /\ el' = tmp /\ tmp' = NextOf(tmp) /\ read' = NULL
      /\ fl' = IF tmp = 0 THEN "totals" ELSE "value"
  BY DEF NextGauge, GoGauge, Goto, gaugeVars, netVars
<1>6. TypeOK' BY <1>1, <1>2, <1>3, <1>4 DEF TypeOK, Place, GaugePlace
<1> QED
  BY <1>1, <1>2, <1>4, <1>6 DEF TypeOK, CursorOK, GaugePlace

LEMMA TypeStep ==
  ASSUME TypeOK, CursorOK, [Next]_vars PROVE TypeOK' /\ CursorOK'
<1>1. ASSUME NEW k \in Key, NEW pm \in 0 .. 2, UpdateGauge(k, 1, pm)
      PROVE TypeOK' /\ CursorOK'
  BY <1>1, GaugeTypeStep
<1>2. CASE Wake BY <1>2, WakeTypeStep
<1>3. CASE NextGauge BY <1>3, NextTypeStep
<1>4. 0 \in 0 .. Len(gauges)
  <2>1. gauges \in Seq(Key) BY DEF TypeOK
  <2> QED BY <2>1
<1> USE DEF TypeOK, CursorOK, Place, GaugePlace, statVars, gaugeVars, readVars,
            netVars, Goto
<1>5. CASE InitStats BY <1>5 DEF InitStats
<1>6. ASSUME NEW t \in Thread, UpdateStat(t) PROVE TypeOK' /\ CursorOK'
  BY <1>6 DEF UpdateStat, WaitStatsLock, LinkStat, StoreStat, RemoveStatsLock,
              Inside, Return
<1>7. CASE SeeMessage BY <1>7 DEF SeeMessage
<1>8. CASE ReadGauge BY <1>8 DEF ReadGauge, ReadPart, ReadRest, AfterLine
<1>9. CASE SendGauge BY <1>9 DEF SendGauge, SendMetadata, SendValue
<1>10. CASE Totals BY <1>10 DEF Totals, SendMetadata, SendValue
<1>11. CASE OpenGraphite BY <1>11 DEF OpenGraphite, UnchangedButGraphite
<1>12. CASE Connect BY <1>12 DEF Connect, UnchangedButGraphite
<1>13. CASE SendText BY <1>13 DEF SendText, UnchangedButGraphite
<1>14. CASE CloseGraphite BY <1>14 DEF CloseGraphite, UnchangedButGraphite
<1>15. CASE LastFlush BY <1>15 DEF LastFlush
<1>16. CASE Sleep BY <1>16, <1>4 DEF Sleep, gmetric_close
<1>17. CASE UNCHANGED vars BY <1>17 DEF vars
<1> QED
  BY <1>1, <1>2, <1>3, <1>5, <1>6, <1>7, <1>8, <1>9, <1>10, <1>11, <1>12,
     <1>13, <1>14, <1>15, <1>16, <1>17 DEF Next, Packet, FlushStep, Killed

------------------------------------------------------------------------------
(* No socket stays open. *)

LEMMA SocketStep ==
  ASSUME TypeOK, SocketOK, [Next]_vars PROVE SocketOK'
<1> USE DEF TypeOK, SocketOK, statVars, gaugeVars, readVars, netVars, Goto
<1>1. CASE InitStats BY <1>1 DEF InitStats
<1>2. ASSUME NEW t \in Thread, UpdateStat(t) PROVE SocketOK'
  BY <1>2 DEF UpdateStat, WaitStatsLock, LinkStat, StoreStat, RemoveStatsLock,
              Inside, Return
<1>3. CASE SeeMessage BY <1>3 DEF SeeMessage
<1>4. ASSUME NEW k \in Key, NEW pm \in 0 .. 2, UpdateGauge(k, 1, pm)
      PROVE SocketOK'
  BY <1>4 DEF UpdateGauge
<1>5. CASE Wake BY <1>5 DEF Wake, GoGauge, gmetric_open
<1>6. CASE ReadGauge BY <1>6 DEF ReadGauge, ReadPart, ReadRest, AfterLine
<1>7. CASE SendGauge BY <1>7 DEF SendGauge, SendMetadata, SendValue
<1>8. CASE NextGauge BY <1>8 DEF NextGauge, GoGauge
<1>9. CASE Totals BY <1>9 DEF Totals, SendMetadata, SendValue
<1>10. CASE OpenGraphite BY <1>10 DEF OpenGraphite, UnchangedButGraphite
<1>11. CASE Connect BY <1>11 DEF Connect, UnchangedButGraphite
<1>12. CASE SendText BY <1>12 DEF SendText, UnchangedButGraphite
<1>13. CASE CloseGraphite BY <1>13 DEF CloseGraphite, UnchangedButGraphite
<1>14. CASE LastFlush BY <1>14 DEF LastFlush
<1>15. CASE Sleep BY <1>15 DEF Sleep, gmetric_close
<1>16. CASE UNCHANGED vars BY <1>16 DEF vars
<1> QED
  BY <1>1, <1>2, <1>3, <1>4, <1>5, <1>6, <1>7, <1>8, <1>9, <1>10, <1>11, <1>12,
     <1>13, <1>14, <1>15, <1>16 DEF Next, Packet, FlushStep, Killed

------------------------------------------------------------------------------
(* What the flush is done with. *)

LEMMA GaugeSeenStep ==
  ASSUME TypeOK, SeenOK, NEW k \in Key, NEW v \in Int, NEW pm,
         UpdateGauge(k, v, pm)
  PROVE  SeenOK'
<1>1. gauges \in Seq(Key) BY DEF TypeOK
<1>2. UNCHANGED <<fl, el, tmp, due, seen>> BY DEF UpdateGauge, readVars
<1>3. /\ gauges' \in Seq(Key) /\ Len(gauges') >= Len(gauges)
      /\ \A i \in 1 .. Len(gauges) : gauges'[i] = gauges[i]
  BY <1>1, GaugesGrow
<1>4. Len(gauges) \in Nat /\ Len(gauges') \in Nat BY <1>1, <1>3
<1>5. Len(seen) \in Nat BY DEF SeenOK
<1> QED BY <1>2, <1>3, <1>4, <1>5 DEF SeenOK

LEMMA WakeSeenStep ==
  ASSUME TypeOK, SeenOK, Wake PROVE SeenOK'
<1>1. gauges \in Seq(Key) /\ Len(gauges) \in Nat
  <2>1. gauges \in Seq(Key) BY DEF TypeOK
  <2> QED BY <2>1
<1>2. /\ UNCHANGED gauges /\ el' = First /\ tmp' = NextOf(First)
      /\ fl' = IF First = 0 THEN "totals" ELSE "value"
      /\ due' = Len(gauges) /\ seen' = <<>>
  BY DEF Wake, GoGauge, Goto
<1>3. seen' \in Seq(Key) /\ Len(seen') = 0 BY <1>2
<1>4. CASE gauges = <<>>
  <2>1. First = 0 /\ Len(gauges) = 0 BY <1>4 DEF First
  <2> QED BY <1>1, <1>2, <1>3, <2>1 DEF SeenOK, GaugePlace
<1>5. CASE gauges # <<>>
  <2>1. First = 1 /\ Len(gauges) >= 1 BY <1>1, <1>5 DEF First
  <2>2. tmp' = 2 \/ (tmp' = 0 /\ 1 >= Len(gauges))
    BY <1>1, <1>2, <2>1 DEF NextOf
  <2> QED BY <1>1, <1>2, <1>3, <2>1, <2>2 DEF SeenOK, GaugePlace
<1> QED BY <1>4, <1>5

LEMMA NextSeenStep ==
  ASSUME TypeOK, CursorOK, SeenOK, NextGauge PROVE SeenOK'
<1>1. gauges \in Seq(Key) /\ Len(gauges) \in Nat
  <2>1. gauges \in Seq(Key) BY DEF TypeOK
  <2> QED BY <2>1
<1>2. /\ UNCHANGED <<gauges, due>> /\ fl = "next"
      /\ el' = tmp /\ tmp' = NextOf(tmp)
      /\ fl' = IF tmp = 0 THEN "totals" ELSE "value"
      /\ seen' = Append(seen, gauges[el])
  BY DEF NextGauge, GoGauge, Goto, gaugeVars
<1>3. el \in 1 .. Len(gauges) /\ tmp \in 0 .. Len(gauges)
  BY <1>1, <1>2 DEF TypeOK, CursorOK, GaugePlace
<1>4. /\ seen \in Seq(Key) /\ Len(seen) = el - 1
      /\ tmp = el + 1 \/ (tmp = 0 /\ el >= due)
      /\ \A i \in 1 .. Len(seen) : seen[i] = gauges[i]
      /\ due \in 0 .. Len(gauges)
  BY <1>2 DEF SeenOK, GaugePlace
<1>5. gauges[el] \in Key BY <1>1, <1>3
<1>6. /\ seen' \in Seq(Key) /\ Len(seen') = el
      /\ \A i \in 1 .. el : seen'[i] = gauges[i]
  BY <1>2, <1>3, <1>4, <1>5
<1>7. CASE tmp = 0
  BY <1>2, <1>3, <1>4, <1>6, <1>7 DEF SeenOK, GaugePlace
<1>8. CASE tmp # 0
  <2>1. tmp' = tmp + 1 \/ (tmp' = 0 /\ tmp >= Len(gauges))
    BY <1>1, <1>2, <1>3, <1>8 DEF NextOf
  <2>2. fl' = "value" /\ tmp = el + 1 /\ el' = el + 1
    BY <1>2, <1>4, <1>8
  <2> QED BY <1>1, <1>2, <1>3, <1>4, <1>6, <2>1, <2>2 DEF SeenOK, GaugePlace
<1> QED BY <1>7, <1>8

LEMMA SeenStep ==
  ASSUME TypeOK, CursorOK, SeenOK, [Next]_vars PROVE SeenOK'
<1>1. ASSUME NEW k \in Key, NEW pm \in 0 .. 2, UpdateGauge(k, 1, pm)
      PROVE SeenOK'
  BY <1>1, GaugeSeenStep
<1>2. CASE Wake BY <1>2, WakeSeenStep
<1>3. CASE NextGauge BY <1>3, NextSeenStep
<1>4. ASSUME UNCHANGED <<gauges, el, tmp, due, seen>>,
             fl' = fl \/ (fl \in GaugePlace /\ fl' \in GaugePlace)
                      \/ fl' \notin GaugePlace \union {"totals"}
      PROVE SeenOK'
  BY <1>4 DEF SeenOK, GaugePlace
<1> USE DEF statVars, gaugeVars, readVars, netVars, GaugePlace
<1>5. CASE InitStats BY <1>4, <1>5 DEF InitStats
<1>6. ASSUME NEW t \in Thread, UpdateStat(t) PROVE SeenOK'
  BY <1>4, <1>6 DEF UpdateStat, WaitStatsLock, LinkStat, StoreStat,
       RemoveStatsLock, Inside, Return
<1>7. CASE SeeMessage BY <1>4, <1>7 DEF SeeMessage
<1>8. CASE ReadGauge
  BY <1>4, <1>8 DEF ReadGauge, ReadPart, ReadRest, AfterLine
<1>9. CASE SendGauge BY <1>4, <1>9 DEF SendGauge, SendMetadata, SendValue
<1>10. CASE Totals BY <1>4, <1>10 DEF Totals, SendMetadata, SendValue
<1>11. CASE OpenGraphite
  BY <1>4, <1>11 DEF OpenGraphite, UnchangedButGraphite, Goto
<1>12. CASE Connect BY <1>4, <1>12 DEF Connect, UnchangedButGraphite, Goto
<1>13. CASE SendText BY <1>4, <1>13 DEF SendText, UnchangedButGraphite, Goto
<1>14. CASE CloseGraphite
  BY <1>4, <1>14 DEF CloseGraphite, UnchangedButGraphite, Goto
<1>15. CASE LastFlush BY <1>4, <1>15 DEF LastFlush, Goto
<1>16. CASE Sleep
  <2>1. /\ due' = 0 /\ seen' = <<>> /\ fl' = "sleep" /\ UNCHANGED gauges
    BY <1>16 DEF Sleep, Goto
  <2>2. gauges \in Seq(Key) /\ Len(<<>>) = 0 /\ <<>> \in Seq(Key)
    BY DEF TypeOK
  <2>3. Len(gauges) \in Nat BY <2>2
  <2> QED BY <2>1, <2>2, <2>3 DEF SeenOK
<1>17. CASE UNCHANGED vars BY <1>4, <1>17 DEF vars
<1> QED
  BY <1>1, <1>2, <1>3, <1>5, <1>6, <1>7, <1>8, <1>9, <1>10, <1>11, <1>12,
     <1>13, <1>14, <1>15, <1>16, <1>17 DEF Next, Packet, FlushStep, Killed

------------------------------------------------------------------------------
(* What is sent before a value. *)

LEMMA MessageKept ==
  ASSUME el' = el, gauges'[el] = gauges[el], Prefixed' <=> Prefixed
  PROVE  GaugeMessage' = GaugeMessage
<1>1. gauges'[el'] = gauges[el] BY Zenon
<1> QED BY <1>1, Zenon DEF GaugeMessage, Message

LEMMA WireStep ==
  ASSUME TypeOK, CursorOK, WireOK, [Next]_vars PROVE WireOK'
<1>1. ASSUME fl' \notin {"prefixed_value", "bare_value", "total_value"}
      PROVE WireOK'
  BY <1>1 DEF WireOK
<1>2. ASSUME UNCHANGED <<fl, wire, el>>, gauges'[el] = gauges[el]
      PROVE WireOK'
  <2>1. GaugeMessage' = GaugeMessage BY <1>2, MessageKept DEF Prefixed
  <2>2. StatMessage' = StatMessage BY DEF StatMessage, Message
  <2> QED BY <1>2, <2>1, <2>2 DEF WireOK
<1>3. ASSUME NEW k \in Key, NEW pm \in 0 .. 2, UpdateGauge(k, 1, pm)
      PROVE WireOK'
  <2>1. UNCHANGED <<fl, wire, el>> BY <1>3 DEF UpdateGauge, readVars, netVars
  <2>2. CASE el > 0
    <3>1. gauges \in Seq(Key) /\ el \in 1 .. Len(gauges)
      <4>1. gauges \in Seq(Key) BY DEF TypeOK
      <4>2. Len(gauges) \in Nat BY <4>1
      <4> QED BY <2>2, <4>1, <4>2 DEF TypeOK
    <3>2. gauges'[el] = gauges[el] BY <1>3, <3>1, GaugesGrow
    <3> QED BY <1>2, <2>1, <3>2
  <2>3. CASE ~(el > 0)
    <3>1. fl \notin GaugePlace BY <2>3 DEF CursorOK
    <3>2. StatMessage' = StatMessage BY DEF StatMessage, Message
    <3> QED BY <2>1, <3>1, <3>2 DEF WireOK, GaugePlace
  <2> QED BY <2>2, <2>3
<1>4. CASE SendGauge
  <2>1. UNCHANGED <<gauges, el>> BY <1>4 DEF SendGauge, gaugeVars, readVars
  <2>2. ASSUME fl = "prefixed_metadata" \/ fl = "bare_metadata",
               fl' \in {"prefixed_value", "bare_value"},
               Prefixed' <=> Prefixed,
               wire' = <<"metadata", GaugeMessage>>
        PROVE  WireOK'
    <3>1. GaugeMessage' = GaugeMessage BY <2>1, <2>2, MessageKept
    <3> QED BY <2>2, <3>1 DEF WireOK
  <2>3. CASE fl = "prefixed_metadata"
    <3>1. SendMetadata(GaugeMessage, "prefixed_value", "gmetric_value")
      BY <1>4, <2>3 DEF SendGauge
    <3>2. CASE fl' = "prefixed_value" /\ wire' = <<"metadata", GaugeMessage>>
      BY <2>2, <2>3, <3>2 DEF Prefixed
    <3>3. CASE fl' = "gmetric_value" BY <1>1, <3>3
    <3> QED BY <3>1, <3>2, <3>3 DEF SendMetadata
  <2>4. CASE fl = "bare_metadata"
    <3>1. SendMetadata(GaugeMessage, "bare_value", "next")
      BY <1>4, <2>4 DEF SendGauge
    <3>2. CASE fl' = "bare_value" /\ wire' = <<"metadata", GaugeMessage>>
      BY <2>2, <2>4, <3>2 DEF Prefixed
    <3>3. CASE fl' = "next" BY <1>1, <3>3
    <3> QED BY <3>1, <3>2, <3>3 DEF SendMetadata
  <2>5. CASE fl \in {"prefixed_value", "bare_value"}
    <3>1. fl' \in {"gmetric_value", "next"}
      BY <1>4, <2>5 DEF SendGauge, SendValue
    <3> QED BY <1>1, <3>1
  <2> QED BY <1>4, <2>3, <2>4, <2>5 DEF SendGauge
<1>5. CASE Totals
  <2>1. StatMessage' = StatMessage BY DEF StatMessage, Message
  <2> QED BY <1>5, <2>1 DEF Totals, SendMetadata, SendValue, WireOK
<1>6. CASE ReadGauge
  <2>1. UNCHANGED <<wire, el, gauges>>
    BY <1>6 DEF ReadGauge, gaugeVars, netVars
  <2>2. CASE UNCHANGED fl BY <1>2, <2>1, <2>2
  <2>3. CASE fl' \in {"graphite_line", "bare_metadata", "prefixed_metadata",
                      "next"}
    BY <1>1, <2>3
  <2> QED
    BY <1>6, <2>2, <2>3 DEF ReadGauge, ReadPart, ReadRest, AfterLine
<1>7. CASE InitStats
  BY <1>2, <1>7 DEF InitStats, gaugeVars, readVars, netVars
<1>8. ASSUME NEW t \in Thread, UpdateStat(t) PROVE WireOK'
  BY <1>2, <1>8 DEF UpdateStat, WaitStatsLock, LinkStat, StoreStat,
       RemoveStatsLock, Inside, Return, gaugeVars, readVars, netVars
<1>9. CASE SeeMessage
  BY <1>2, <1>9 DEF SeeMessage, gaugeVars, readVars, netVars
<1>10. CASE Wake BY <1>1, <1>10 DEF Wake, GoGauge, Goto
<1>11. CASE NextGauge BY <1>1, <1>11 DEF NextGauge, GoGauge, Goto
<1>12. CASE OpenGraphite BY <1>1, <1>12 DEF OpenGraphite, Goto
<1>13. CASE Connect BY <1>1, <1>13 DEF Connect, Goto
<1>14. CASE SendText BY <1>1, <1>14 DEF SendText, Goto
<1>15. CASE CloseGraphite BY <1>1, <1>15 DEF CloseGraphite, Goto
<1>16. CASE LastFlush BY <1>1, <1>16 DEF LastFlush, Goto
<1>17. CASE Sleep BY <1>1, <1>17 DEF Sleep, Goto
<1>18. CASE UNCHANGED vars
  BY <1>2, <1>18 DEF vars, gaugeVars, readVars, netVars
<1> QED
  BY <1>3, <1>4, <1>5, <1>6, <1>7, <1>8, <1>9, <1>10, <1>11, <1>12, <1>13,
     <1>14, <1>15, <1>16, <1>17, <1>18 DEF Next, Packet, FlushStep, Killed

LEMMA AnnounceStep ==
  ASSUME WireOK, [Next]_vars, wire' # wire, wire' # NULL, wire'[1] = "value"
  PROVE  wire = <<"metadata", wire'[2]>>
<1>1. ASSUME NEW msg, NEW next, SendValue(msg, next),
             wire = <<"metadata", msg>>
      PROVE wire = <<"metadata", wire'[2]>>
  BY <1>1 DEF SendValue
<1>2. ASSUME NEW msg, NEW next, NEW failed, SendMetadata(msg, next, failed)
      PROVE FALSE
  BY <1>2 DEF SendMetadata
<1>3. CASE SendGauge
  <2>1. CASE fl \in {"prefixed_metadata", "bare_metadata"}
    BY <1>2, <1>3, <2>1 DEF SendGauge
  <2>2. CASE fl \in {"prefixed_value", "bare_value"}
    <3>1. wire = <<"metadata", GaugeMessage>> BY <2>2 DEF WireOK
    <3> QED BY <1>1, <1>3, <2>2, <3>1 DEF SendGauge
  <2> QED BY <1>3, <2>1, <2>2 DEF SendGauge
<1>4. CASE Totals
  <2>1. CASE fl = "totals" BY <1>2, <1>4, <2>1 DEF Totals
  <2>2. CASE fl = "total_value"
    <3>1. wire = <<"metadata", StatMessage>> BY <2>2 DEF WireOK
    <3> QED BY <1>1, <1>4, <2>2, <3>1 DEF Totals
  <2> QED BY <1>4, <2>1, <2>2 DEF Totals
<1>5. wire' = wire \/ wire' = NULL \/ SendGauge \/ Totals
  BY DEF Next, Packet, UpdateStat, WaitStatsLock, LinkStat, StoreStat,
     RemoveStatsLock, Inside, Return, InitStats, SeeMessage, UpdateGauge, Wake,
     FlushStep, ReadGauge, NextGauge, OpenGraphite, Connect, SendText,
     CloseGraphite, LastFlush, Sleep, Killed, UnchangedButGraphite, netVars,
     vars
<1> QED BY <1>3, <1>4, <1>5

------------------------------------------------------------------------------
(* The stats and their semaphore. *)

At == {"out", "wait", "wait_to_link", "link", "store", "post"}

LockTypeOK ==
  /\ in \in [Thread -> [at : At, stat : Stat \union {NULL}]]
  /\ \A t \in Thread : /\ in[t].at = "out" => in[t] = Out
                       /\ in[t].at = "wait" => ~LOCK_OPTIMIZE
                       /\ in[t].at \in {"link", "wait_to_link"} =>
                            in[t].stat \in Stat
  /\ inits \in 0 .. 3 /\ stats \subseteq Stat /\ stats_lock \in Nat

(* A thread of the workers has its own stat, which it does not link, and is  *)
(* not in update_stat before main is through.                                *)
WorkerStat(t) == IF t = "queue" THEN "last_msg_seen" ELSE "last_flush"
WorkersOK ==
  \A t \in {"queue", "flush"} :
    in[t].at # "out" =>
      /\ inits = 3 /\ in["main"] = Out
      /\ in[t].stat = WorkerStat(t) /\ in[t].at \notin {"wait_to_link", "link"}

(* Every stat that init_stats has come to is in the table or on its way.     *)
InitOK ==
  \A i \in 1 .. inits :
    \/ InitOrder[i] \in stats
    \/ /\ i = inits /\ in["main"].at \in {"wait_to_link", "link"}
       /\ in["main"].stat = InitOrder[i]

(* How often the semaphore is taken, and that it began one too high.         *)
Holds(a) == IF a \in {"link", "post"} \/ (a = "store" /\ ~LOCK_OPTIMIZE)
            THEN 1 ELSE 0
SemaphoreOK ==
  stats_lock + Holds(in["main"].at) + Holds(in["queue"].at)
    + Holds(in["flush"].at) = IF inits = 0 THEN 1 ELSE 2

StatsInv == LockTypeOK /\ WorkersOK /\ InitOK /\ SemaphoreOK

LEMMA OutIsOut == Out.at = "out" BY DEF Out
LEMMA HoldsInt == \A a : Holds(a) = 0 \/ Holds(a) = 1 BY DEF Holds

LEMMA StatsInvEnough ==
  ASSUME StatsInv PROVE StatsLockEnough
<1>1. stats \subseteq Stat BY DEF StatsInv, LockTypeOK
<1>2. stats_lock \in 0 .. 2
  <2>1. stats_lock \in Nat BY DEF StatsInv, LockTypeOK
  <2>2. \A n, a, b, c \in Nat :
          n + a + b + c = 1 \/ n + a + b + c = 2 => n \in 0 .. 2
    OBVIOUS
  <2>3. \A a : Holds(a) \in Nat BY DEF Holds
  <2> QED BY <2>1, <2>2, <2>3 DEF StatsInv, SemaphoreOK
<1>3. ASSUME NEW t \in InLock PROVE in[t].at # "out" /\ t \in Thread
  BY <1>3 DEF InLock
<1>4. ASSUME NEW t \in InLock, in[t].at = "link" PROVE InLock = {t}
  <2>1. t = "main" BY <1>3, <1>4 DEF StatsInv, WorkersOK, Thread
  <2>2. in["main"] # Out BY <1>4, <2>1, OutIsOut
  <2>3. \A u \in InLock : u = "main"
    BY <1>3, <2>2 DEF StatsInv, WorkersOK, Thread
  <2> QED BY <1>4, <2>1, <2>3
<1>5. ASSUME NEW t \in InLock, NEW u \in InLock, in[t].stat = in[u].stat
      PROVE t = u
  <2>1. CASE t = "main" \/ u = "main"
    <3>1. in["main"] # Out BY <1>3, <2>1, OutIsOut
    <3> QED BY <1>3, <2>1, <3>1 DEF StatsInv, WorkersOK, Thread
  <2>2. CASE t # "main" /\ u # "main"
    <3>1. in[t].stat = WorkerStat(t) /\ in[u].stat = WorkerStat(u)
      BY <1>3, <2>2 DEF StatsInv, WorkersOK, Thread
    <3> QED BY <1>3, <1>5, <2>2, <3>1 DEF WorkerStat, Thread
  <2> QED BY <2>1, <2>2
<1> QED BY <1>1, <1>2, <1>4, <1>5 DEF StatsLockEnough

LEMMA StatsInvStart ==
  ASSUME Init PROVE StatsInv
<1>1. /\ \A t \in Thread : in[t] = Out /\ in[t].at = "out"
      /\ stats_lock = 1 /\ inits = 0 /\ stats \subseteq Stat
  BY OutIsOut DEF Init
<1>2. LockTypeOK BY <1>1 DEF Init, LockTypeOK, Out, At
<1>3. WorkersOK /\ InitOK BY <1>1 DEF WorkersOK, InitOK, Thread
<1>4. SemaphoreOK BY <1>1 DEF SemaphoreOK, Holds, Thread
<1> QED BY <1>2, <1>3, <1>4 DEF StatsInv

(* The steps of one thread within update_stat: it goes from a to b, or out.  *)
From(t, a, b) ==
  /\ in[t].at = a /\ in' = [in EXCEPT ![t].at = b] /\ inits' = inits
FromToOut(t, a) ==
  /\ in[t].at = a /\ in' = [in EXCEPT ![t] = Out] /\ inits' = inits
  /\ stats' = stats

LEMMA UpdateStatMoves ==
  ASSUME NEW t \in Thread, UpdateStat(t)
  PROVE  \/ /\ From(t, "wait", "store") \/ From(t, "wait_to_link", "link")
            /\ stats_lock > 0 /\ stats_lock' = stats_lock - 1
            /\ stats' = stats
         \/ /\ From(t, "link", "post") /\ stats_lock' = stats_lock
            /\ stats' = stats \union {in[t].stat}
         \/ /\ From(t, "store", "post") /\ stats_lock' = stats_lock
            /\ stats' = stats /\ ~LOCK_OPTIMIZE
         \/ /\ FromToOut(t, "store") /\ stats_lock' = stats_lock
            /\ LOCK_OPTIMIZE
         \/ FromToOut(t, "post") /\ stats_lock' = stats_lock + 1
BY DEF UpdateStat, WaitStatsLock, LinkStat, StoreStat, RemoveStatsLock,
       Inside, Return, From, FromToOut

LEMMA FromTyped ==
  ASSUME LockTypeOK, NEW t \in Thread, NEW a,
         NEW b \in {"link", "store", "post"}, From(t, a, b),
         b = "link" <=> a = "wait_to_link"
  PROVE  /\ in' \in [Thread -> [at : At, stat : Stat \union {NULL}]]
         /\ in'[t].at = b /\ in'[t].stat = in[t].stat
         /\ \A u \in Thread \ {t} : in'[u] = in[u]
         /\ \A u \in Thread :
              /\ in'[u].at = "out" => in'[u] = Out
              /\ in'[u].at = "wait" => ~LOCK_OPTIMIZE
              /\ in'[u].at \in {"link", "wait_to_link"} => in'[u].stat \in Stat
BY DEF LockTypeOK, From, At

LEMMA OutTyped ==
  ASSUME LockTypeOK, NEW t \in Thread, NEW a, FromToOut(t, a)
  PROVE  /\ in' \in [Thread -> [at : At, stat : Stat \union {NULL}]]
         /\ in'[t] = Out
         /\ \A u \in Thread \ {t} : in'[u] = in[u]
         /\ \A u \in Thread :
              /\ in'[u].at = "out" => in'[u] = Out
              /\ in'[u].at = "wait" => ~LOCK_OPTIMIZE
              /\ in'[u].at \in {"link", "wait_to_link"} => in'[u].stat \in Stat
BY DEF LockTypeOK, FromToOut, At, Out

LEMMA UpdateStatStep ==
  ASSUME StatsInv, NEW t \in Thread, UpdateStat(t) PROVE StatsInv'
<1>0. LockTypeOK /\ WorkersOK /\ InitOK /\ SemaphoreOK BY DEF StatsInv
<1>1. ASSUME NEW a, NEW b \in {"link", "store", "post"}, From(t, a, b),
             a # "out", b = "link" <=> a = "wait_to_link",
             a = "link" => in[t].stat \in stats',
             stats \subseteq stats', stats' \subseteq Stat,
             stats_lock' \in Nat,
             stats_lock' + Holds(b) = stats_lock + Holds(a)
      PROVE StatsInv'
  <2>1. /\ in' \in [Thread -> [at : At, stat : Stat \union {NULL}]]
        /\ in'[t].at = b /\ in'[t].stat = in[t].stat
        /\ \A u \in Thread \ {t} : in'[u] = in[u]
        /\ \A u \in Thread :
             /\ in'[u].at = "out" => in'[u] = Out
             /\ in'[u].at = "wait" => ~LOCK_OPTIMIZE
             /\ in'[u].at \in {"link", "wait_to_link"} => in'[u].stat \in Stat
    BY <1>0, <1>1, FromTyped
  <2>2. inits' = inits /\ in[t].at = a BY <1>1 DEF From
  <2>3. LockTypeOK' BY <1>0, <1>1, <2>1, <2>2 DEF LockTypeOK
  <2>4. ASSUME NEW u \in {"queue", "flush"}, in'[u].at # "out"
        PROVE  /\ inits = 3 /\ in'["main"] = Out
               /\ in'[u].stat = WorkerStat(u)
               /\ in'[u].at \notin {"wait_to_link", "link"}
    <3>1. in[u].at # "out" BY <1>1, <2>1, <2>2, <2>4 DEF Thread
    <3>2. /\ inits = 3 /\ in["main"] = Out /\ in[u].stat = WorkerStat(u)
          /\ in[u].at \notin {"wait_to_link", "link"}
      BY <1>0, <3>1 DEF WorkersOK
    <3>3. t # "main" BY <1>1, <2>2, <3>2, OutIsOut
    <3> QED BY <1>1, <2>1, <2>2, <3>2, <3>3 DEF Thread
  <2>5. WorkersOK' BY <1>0, <2>2, <2>4 DEF WorkersOK
  <2>6. ASSUME NEW i \in 1 .. inits
        PROVE  \/ InitOrder[i] \in stats'
               \/ /\ i = inits /\ in'["main"].at \in {"wait_to_link", "link"}
                  /\ in'["main"].stat = InitOrder[i]
    <3>1. CASE InitOrder[i] \in stats BY <1>1, <3>1
    <3>2. CASE /\ i = inits /\ in["main"].at \in {"wait_to_link", "link"}
               /\ in["main"].stat = InitOrder[i]
      <4>1. CASE t = "main" BY <1>1, <2>1, <2>2, <3>2, <4>1
      <4>2. CASE t # "main" BY <2>1, <3>2, <4>2 DEF Thread
      <4> QED BY <4>1, <4>2
    <3> QED BY <1>0, <3>1, <3>2 DEF InitOK
  <2>7. InitOK' BY <1>0, <2>2, <2>6 DEF InitOK
  <2>8. SemaphoreOK'
    <3>1. CASE t = "main"
      BY <1>0, <1>1, <2>1, <2>2, <3>1,
        HoldsInt DEF SemaphoreOK, Thread, LockTypeOK
    <3>2. CASE t = "queue"
      <4>1. in'["main"] = in["main"] /\ in'["flush"] = in["flush"]
        BY <2>1, <3>2 DEF Thread
      <4> QED
        BY <1>0, <1>1, <2>1, <2>2, <3>2, <4>1,
          HoldsInt DEF SemaphoreOK, LockTypeOK
    <3>3. CASE t = "flush"
      <4>1. in'["main"] = in["main"] /\ in'["queue"] = in["queue"]
        BY <2>1, <3>3 DEF Thread
      <4> QED
        BY <1>0, <1>1, <2>1, <2>2, <3>3, <4>1,
          HoldsInt DEF SemaphoreOK, LockTypeOK
    <3> QED BY <3>1, <3>2, <3>3 DEF Thread
  <2> QED BY <2>3, <2>5, <2>7, <2>8 DEF StatsInv
<1>2. ASSUME NEW a, FromToOut(t, a), a \in {"store", "post"},
             stats_lock' \in Nat,
             stats_lock' + Holds("out") = stats_lock + Holds(a)
      PROVE StatsInv'
  <2>1. /\ in' \in [Thread -> [at : At, stat : Stat \union {NULL}]]
        /\ in'[t] = Out
        /\ \A u \in Thread \ {t} : in'[u] = in[u]
        /\ \A u \in Thread :
             /\ in'[u].at = "out" => in'[u] = Out
             /\ in'[u].at = "wait" => ~LOCK_OPTIMIZE
             /\ in'[u].at \in {"link", "wait_to_link"} => in'[u].stat \in Stat
    BY <1>0, <1>2, OutTyped
  <2>2. inits' = inits /\ in[t].at = a /\ stats' = stats
    BY <1>2 DEF FromToOut
  <2>3. LockTypeOK' BY <1>0, <1>2, <2>1, <2>2 DEF LockTypeOK
  <2>4. ASSUME NEW u \in {"queue", "flush"}, in'[u].at # "out"
        PROVE  /\ inits = 3 /\ in'["main"] = Out
               /\ in'[u].stat = WorkerStat(u)
               /\ in'[u].at \notin {"wait_to_link", "link"}
    <3>1. u # t BY <2>1, <2>4, OutIsOut
    <3>2. in'[u] = in[u] BY <2>1, <3>1 DEF Thread
    <3>3. /\ inits = 3 /\ in["main"] = Out /\ in[u].stat = WorkerStat(u)
          /\ in[u].at \notin {"wait_to_link", "link"}
      BY <1>0, <2>4, <3>2 DEF WorkersOK
    <3> QED BY <2>1, <3>2, <3>3 DEF Thread
  <2>5. WorkersOK' BY <1>0, <2>2, <2>4 DEF WorkersOK
  <2>6. InitOK'
    <3>1. CASE t = "main" BY <1>0, <1>2, <2>2, <3>1 DEF InitOK
    <3>2. CASE t # "main" BY <1>0, <2>1, <2>2, <3>2 DEF InitOK, Thread
    <3> QED BY <3>1, <3>2
  <2>7. in'[t].at = "out" BY <2>1, OutIsOut
  <2>8. SemaphoreOK'
    <3>1. CASE t = "main"
      BY <1>0, <1>2, <2>1, <2>2, <2>7, <3>1,
        HoldsInt DEF SemaphoreOK, Thread, LockTypeOK
    <3>2. CASE t = "queue"
      <4>1. in'["main"] = in["main"] /\ in'["flush"] = in["flush"]
        BY <2>1, <3>2 DEF Thread
      <4> QED
        BY <1>0, <1>2, <2>1, <2>2, <2>7, <3>2, <4>1,
          HoldsInt DEF SemaphoreOK, LockTypeOK
    <3>3. CASE t = "flush"
      <4>1. in'["main"] = in["main"] /\ in'["queue"] = in["queue"]
        BY <2>1, <3>3 DEF Thread
      <4> QED
        BY <1>0, <1>2, <2>1, <2>2, <2>7, <3>3, <4>1,
          HoldsInt DEF SemaphoreOK, LockTypeOK
    <3> QED BY <3>1, <3>2, <3>3 DEF Thread
  <2> QED BY <2>3, <2>5, <2>6, <2>8 DEF StatsInv
<1>3. in[t].at = "link" => in[t].stat \in Stat BY <1>0 DEF LockTypeOK
<1>4. stats \subseteq Stat /\ stats_lock \in Nat BY <1>0 DEF LockTypeOK
<1>5. CASE /\ From(t, "wait", "store") /\ stats_lock > 0
           /\ stats_lock' = stats_lock - 1 /\ stats' = stats
  <2>1. Holds("wait") = 0 /\ Holds("store") = 1
    BY <1>0, <1>5 DEF From, LockTypeOK, Holds
  <2>2. stats_lock' \in Nat /\ stats_lock' + 1 = stats_lock
    BY <1>4, <1>5
  <2> QED BY <1>1, <1>4, <1>5, <2>1, <2>2
<1>6. CASE /\ From(t, "wait_to_link", "link") /\ stats_lock > 0
           /\ stats_lock' = stats_lock - 1 /\ stats' = stats
  <2>1. Holds("wait_to_link") = 0 /\ Holds("link") = 1 BY DEF Holds
  <2>2. stats_lock' \in Nat /\ stats_lock' + 1 = stats_lock
    BY <1>4, <1>6
  <2> QED BY <1>1, <1>4, <1>6, <2>1, <2>2
<1>7. CASE /\ From(t, "link", "post") /\ stats_lock' = stats_lock
           /\ stats' = stats \union {in[t].stat}
  <2>1. Holds("link") = Holds("post") BY DEF Holds
  <2>2. in[t].stat \in Stat BY <1>3, <1>7 DEF From
  <2>3. /\ stats \subseteq stats' /\ stats' \subseteq Stat
        /\ in[t].stat \in stats'
    BY <1>4, <1>7, <2>2
  <2> QED BY <1>1, <1>4, <1>7, <2>1, <2>3
<1>8. CASE /\ From(t, "store", "post") /\ stats_lock' = stats_lock
           /\ stats' = stats /\ ~LOCK_OPTIMIZE
  BY <1>1, <1>4, <1>8 DEF Holds
<1>9. CASE /\ FromToOut(t, "store") /\ stats_lock' = stats_lock
           /\ LOCK_OPTIMIZE
  BY <1>2, <1>4, <1>9 DEF Holds
<1>10. CASE FromToOut(t, "post") /\ stats_lock' = stats_lock + 1
  BY <1>2, <1>4, <1>10 DEF Holds
<1> QED BY UpdateStatMoves, <1>5, <1>6, <1>7, <1>8, <1>9, <1>10

(* A call of update_stat, which looks for the name without the lock. *)
LEMMA CallTyped ==
  ASSUME LockTypeOK, NEW t \in Thread, NEW s \in Stat, CallUpdateStat(t, s)
  PROVE  /\ in' \in [Thread -> [at : At, stat : Stat \union {NULL}]]
         /\ in[t] = Out /\ in'[t].stat = s
         /\ in'[t].at = IF s \notin stats THEN "wait_to_link"
                        ELSE IF LOCK_OPTIMIZE THEN "store" ELSE "wait"
         /\ \A u \in Thread \ {t} : in'[u] = in[u]
         /\ \A u \in Thread :
              /\ in'[u].at = "out" => in'[u] = Out
              /\ in'[u].at = "wait" => ~LOCK_OPTIMIZE
              /\ in'[u].at \in {"link", "wait_to_link"} => in'[u].stat \in Stat
<1> DEFINE r == [at |-> IF s \notin stats THEN "wait_to_link"
                        ELSE IF LOCK_OPTIMIZE THEN "store" ELSE "wait",
                 stat |-> s]
<1>1. in' = [in EXCEPT ![t] = r] /\ in[t] = Out BY DEF CallUpdateStat
<1>2. r \in [at : At, stat : Stat \union {NULL}] BY DEF At
<1>3. /\ in' \in [Thread -> [at : At, stat : Stat \union {NULL}]]
      /\ in'[t] = r /\ \A u \in Thread \ {t} : in'[u] = in[u]
  BY <1>1, <1>2 DEF LockTypeOK
<1> QED BY <1>1, <1>3 DEF LockTypeOK

LEMMA InitStatsStep ==
  ASSUME StatsInv, InitStats PROVE StatsInv'
<1>0. LockTypeOK /\ WorkersOK /\ InitOK /\ SemaphoreOK BY DEF StatsInv
<1> DEFINE s == InitOrder[inits + 1]
<1>1. /\ inits \in 0 .. 2 /\ inits' = inits + 1 /\ stats' = stats
      /\ stats_lock' = IF inits = 0 THEN stats_lock + 1 ELSE stats_lock
      /\ CallUpdateStat("main", s)
  BY <1>0 DEF InitStats, InitOrder, LockTypeOK
<1>2. s \in Stat BY <1>1 DEF InitOrder, Stat
<1>3. /\ in' \in [Thread -> [at : At, stat : Stat \union {NULL}]]
      /\ in["main"] = Out /\ in'["main"].stat = s
      /\ in'["main"].at = IF s \notin stats THEN "wait_to_link"
                          ELSE IF LOCK_OPTIMIZE THEN "store" ELSE "wait"
      /\ \A u \in Thread \ {"main"} : in'[u] = in[u]
      /\ \A u \in Thread :
           /\ in'[u].at = "out" => in'[u] = Out
           /\ in'[u].at = "wait" => ~LOCK_OPTIMIZE
           /\ in'[u].at \in {"link", "wait_to_link"} => in'[u].stat \in Stat
  BY <1>0, <1>1, <1>2, CallTyped DEF Thread
<1>4. in'["queue"] = in["queue"] /\ in'["flush"] = in["flush"]
  BY <1>3 DEF Thread
<1>5. stats_lock \in Nat /\ stats_lock' \in Nat /\ inits' \in 0 .. 3
      /\ stats' \subseteq Stat
  BY <1>0, <1>1 DEF LockTypeOK
<1>6. LockTypeOK' BY <1>3, <1>5 DEF LockTypeOK
<1>7. in["queue"].at = "out" /\ in["flush"].at = "out"
  BY <1>0, <1>1 DEF WorkersOK
<1>8. WorkersOK' BY <1>4, <1>7 DEF WorkersOK
<1>9. ASSUME NEW i \in 1 .. inits'
      PROVE  \/ InitOrder[i] \in stats'
             \/ /\ i = inits' /\ in'["main"].at \in {"wait_to_link", "link"}
                /\ in'["main"].stat = InitOrder[i]
  <2>1. CASE i = inits + 1 BY <1>1, <1>3, <2>1
  <2>2. CASE i \in 1 .. inits
    BY <1>0, <1>1, <1>3, <2>2, OutIsOut DEF InitOK
  <2> QED BY <1>1, <2>1, <2>2
<1>10. InitOK' BY <1>9 DEF InitOK
<1>11. Holds(in["main"].at) = 0 /\ Holds(in'["main"].at) = 0
  BY <1>3, OutIsOut DEF Holds
<1>12. SemaphoreOK'
  BY <1>0, <1>1, <1>4, <1>5, <1>11, HoldsInt DEF SemaphoreOK
<1> QED BY <1>6, <1>8, <1>10, <1>12 DEF StatsInv

(* The stats that the workers update are in the table. *)
LEMMA AllThere ==
  ASSUME StatsInv, Started
  PROVE  \A t \in {"queue", "flush"} : WorkerStat(t) \in stats
<1>1. inits = 3 /\ in["main"].at = "out"
  BY OutIsOut DEF Started, InitOrder
<1>2. \A i \in 1 .. 3 : InitOrder[i] \in stats
  BY <1>1 DEF StatsInv, InitOK
<1>3. InitOrder[1] \in stats /\ InitOrder[2] \in stats BY <1>2
<1> QED BY <1>3 DEF InitOrder, WorkerStat

LEMMA WorkerCallStep ==
  ASSUME StatsInv, Started, NEW t \in {"queue", "flush"},
         CallUpdateStat(t, WorkerStat(t)),
         UNCHANGED <<stats, stats_lock, inits>>
  PROVE  StatsInv'
<1>0. LockTypeOK /\ WorkersOK /\ InitOK /\ SemaphoreOK BY DEF StatsInv
<1>1. inits = 3 /\ in["main"] = Out BY DEF Started, InitOrder
<1>2. WorkerStat(t) \in stats /\ WorkerStat(t) \in Stat /\ t \in Thread
  BY AllThere DEF WorkerStat, Stat, Thread
<1>3. /\ in' \in [Thread -> [at : At, stat : Stat \union {NULL}]]
      /\ in[t] = Out /\ in'[t].stat = WorkerStat(t)
      /\ in'[t].at = IF LOCK_OPTIMIZE THEN "store" ELSE "wait"
      /\ \A u \in Thread \ {t} : in'[u] = in[u]
      /\ \A u \in Thread :
           /\ in'[u].at = "out" => in'[u] = Out
           /\ in'[u].at = "wait" => ~LOCK_OPTIMIZE
           /\ in'[u].at \in {"link", "wait_to_link"} => in'[u].stat \in Stat
  BY <1>0, <1>2, CallTyped
<1>4. in'["main"] = in["main"] BY <1>3 DEF Thread
<1>5. LockTypeOK' BY <1>0, <1>3 DEF LockTypeOK
<1>6. ASSUME NEW u \in {"queue", "flush"}, in'[u].at # "out"
      PROVE  /\ inits = 3 /\ in'["main"] = Out
             /\ in'[u].stat = WorkerStat(u)
             /\ in'[u].at \notin {"wait_to_link", "link"}
  <2>1. CASE u = t BY <1>1, <1>3, <1>4, <2>1
  <2>2. CASE u # t
    <3>1. in'[u] = in[u] BY <1>3, <2>2 DEF Thread
    <3> QED BY <1>0, <1>1, <1>4, <1>6, <3>1 DEF WorkersOK
  <2> QED BY <2>1, <2>2
<1>7. WorkersOK' BY <1>6 DEF WorkersOK
<1>8. InitOK' BY <1>0, <1>4 DEF InitOK
<1>9. Holds(in[t].at) = 0 /\ Holds(in'[t].at) = 0
  BY <1>3, OutIsOut DEF Holds
<1>10. SemaphoreOK'
  <2>1. CASE t = "queue"
    <3>1. in'["flush"] = in["flush"] BY <1>3, <2>1 DEF Thread
    <3> QED BY <1>0, <1>4, <1>9, <2>1, <3>1, HoldsInt DEF SemaphoreOK
  <2>2. CASE t = "flush"
    <3>1. in'["queue"] = in["queue"] BY <1>3, <2>2 DEF Thread
    <3> QED BY <1>0, <1>4, <1>9, <2>2, <3>1, HoldsInt DEF SemaphoreOK
  <2> QED BY <2>1, <2>2
<1> QED BY <1>5, <1>7, <1>8, <1>10 DEF StatsInv

LEMMA StatsInvStep ==
  ASSUME StatsInv, [Next]_vars PROVE StatsInv'
<1>1. CASE InitStats BY <1>1, InitStatsStep
<1>2. ASSUME NEW t \in Thread, UpdateStat(t) PROVE StatsInv'
  BY <1>2, UpdateStatStep
<1>3. CASE SeeMessage
  <2>1. CallUpdateStat("queue", WorkerStat("queue"))
    BY <1>3 DEF SeeMessage, WorkerStat
  <2> QED BY <1>3, <2>1, WorkerCallStep DEF SeeMessage
<1>4. CASE LastFlush
  <2>1. CallUpdateStat("flush", WorkerStat("flush"))
    BY <1>4 DEF LastFlush, WorkerStat
  <2> QED BY <1>4, <2>1, WorkerCallStep DEF LastFlush, Goto
<1>5. CASE UNCHANGED statVars
  BY <1>5 DEF StatsInv, LockTypeOK, WorkersOK, InitOK, SemaphoreOK, statVars
<1>6. InitStats \/ (\E t \in Thread : UpdateStat(t)) \/ SeeMessage \/ LastFlush
      \/ UNCHANGED statVars
  BY DEF Next, Packet, UpdateGauge, Wake, FlushStep, ReadGauge, SendGauge,
     NextGauge, Totals, OpenGraphite, Connect, SendText, CloseGraphite, Sleep,
     Killed, UnchangedButGraphite, vars
<1> QED BY <1>1, <1>2, <1>3, <1>4, <1>5, <1>6

------------------------------------------------------------------------------
(* The theorems. *)

Inv == TypeOK /\ CursorOK /\ SeenOK /\ SocketOK /\ WireOK

LEMMA InvStart == ASSUME Init PROVE Inv
<1>1. /\ gauges = <<>> /\ fl = "sleep" /\ el = 0 /\ tmp = 0 /\ part = NULL
      /\ read = NULL /\ sockets = {} /\ value \in [Key -> Int]
      /\ due = 0 /\ seen = <<>>
  BY DEF Init
<1>2. <<>> \in Seq(Key) /\ Len(<<>>) = 0 OBVIOUS
<1>3. TypeOK BY <1>1, <1>2 DEF TypeOK, Place
<1>4. CursorOK /\ SeenOK /\ SocketOK /\ WireOK
  BY <1>1, <1>2 DEF CursorOK, SeenOK, SocketOK, WireOK, GaugePlace
<1> QED BY <1>3, <1>4 DEF Inv

LEMMA Invariance == Spec => []Inv
<1>1. Init => Inv BY InvStart
<1>2. Inv /\ [Next]_vars => Inv'
  BY TypeStep, SocketStep, SeenStep, WireStep DEF Inv
<1> QED BY <1>1, <1>2, PTL DEF Spec

(* The list, the cursor of the flush and its place go together. *)
THEOREM TypeCorrect == Spec => [](TypeOK /\ CursorOK)
<1>1. Inv => TypeOK /\ CursorOK BY DEF Inv
<1> QED BY <1>1, Invariance, PTL

(* HASH_ITER reads one gauge ahead and takes no lock (lines 1309 to 1341 of  *)
(* statsd.c), yet a flush comes to its totals after every gauge that was in  *)
(* the list when it began, in order and none of them twice.                  *)
THEOREM EveryGaugeDone == Spec => []EveryGaugeReported
<1>1. Inv => EveryGaugeReported
  <2>1. ASSUME Inv, fl = "totals"
        PROVE  /\ Len(seen) \in due .. Len(gauges)
               /\ \A i \in DOMAIN seen : seen[i] = gauges[i]
    <3>1. /\ seen \in Seq(Key) /\ due \in 0 .. Len(gauges)
          /\ Len(seen) >= due /\ Len(seen) <= Len(gauges)
          /\ \A i \in 1 .. Len(seen) : seen[i] = gauges[i]
      BY <2>1 DEF Inv, SeenOK
    <3>2. DOMAIN seen = 1 .. Len(seen) /\ Len(seen) \in Nat BY <3>1
    <3>3. gauges \in Seq(Key) BY <2>1 DEF Inv, TypeOK
    <3>4. Len(gauges) \in Nat BY <3>3
    <3> QED BY <3>1, <3>2, <3>4
  <2> QED BY <2>1 DEF EveryGaugeReported
<1> QED BY <1>1, Invariance, PTL

(* When the flush thread sleeps, it has closed its sockets, whichever of     *)
(* the calls failed (gmetric_close and close in p_thread_flush).             *)
THEOREM NoSocketLeft == Spec => []SocketsClosed
<1>1. Inv => SocketsClosed BY DEF Inv, SocketOK, SocketsClosed
<1> QED BY <1>1, Invariance, PTL

(* gmetric_send sends a value only when sendto took its description.         *)
THEOREM ValueAnnounced == Spec => EveryValueAnnounced
<1>1. Inv /\ [Next]_vars =>
        [wire' # wire /\ wire' # NULL /\ wire'[1] = "value" =>
           wire = <<"metadata", wire'[2]>>]_vars
  BY AnnounceStep DEF Inv
<1> QED BY <1>1, Invariance, PTL DEF Spec, EveryValueAnnounced

(* One count too many on stats_lock (init_stats) does no harm to the table:  *)
(* who links a stat is alone inside, and who stores has a stat of its own.   *)
THEOREM StatsLockSuffices == Spec => []StatsLockEnough
<1>1. Init => StatsInv BY StatsInvStart
<1>2. StatsInv /\ [Next]_vars => StatsInv' BY StatsInvStep
<1>3. StatsInv => StatsLockEnough BY StatsInvEnough
<1> QED BY <1>1, <1>2, <1>3, PTL DEF Spec
==============================================================================
