----------------------------- MODULE HubProofs -----------------------------
(***************************************************************************)
(* What the hub guarantees for any number of connections and handlers, any *)
(* buffer capacity and any number of broadcasts.                           *)
(***************************************************************************)
EXTENDS Hub, SequenceTheorems, TLAPS

USE DEF hubVars, connVars, pumpVars, timeVars, writerElse, readerElse

-----------------------------------------------------------------------------
(* Type correctness.                                                       *)

LEMMA TypeInit == Init => TypeOK
<1> SUFFICES ASSUME Init PROVE TypeOK
  OBVIOUS
<1>1. /\ send \in [Clients -> Seq(Nat)]
      /\ written \in [Clients -> Seq(Nat)]
  <2>1. ASSUME NEW e \in Seq(Nat)
        PROVE  [c \in Clients |-> e] \in [Clients -> Seq(Nat)]
    OBVIOUS
  <2>2. [c \in Clients |-> << >>] \in [Clients -> Seq(Nat)]
    BY <2>1, EmptySeq
  <2>3. QED
    BY <2>2, Zenon DEF Init
<1>2. /\ clients \subseteq Clients /\ pending \subseteq Clients /\ published \in Nat
      /\ crashed \in BOOLEAN
  BY DEF Init
<1>3. /\ handler \in [Handlers -> {"idle", "sending"}]
      /\ serve \in [Clients -> {"idle", "register", "arm", "start", "served"}]
      /\ conn \in [Clients -> {"none", "open", "closed"}]
      /\ peer \in [Clients -> {"reading", "stalled", "gone"}]
      /\ done \in [Clients -> BOOLEAN]
      /\ writer \in [Clients -> {"off", "select", "write", "bye", "exit", "end"}]
      /\ inHand \in [Clients -> Nat]
      /\ reader \in [Clients -> {"off", "read", "unregister", "close", "end"}]
      /\ timer \in [Clients -> {"none", "armed", "fired", "stopped"}]
      /\ waiter \in [Clients -> {"off", "wait", "end"}]
      /\ joined \in [Clients -> Nat]
  BY DEF Init
<1>4. QED
  BY <1>1, <1>2, <1>3 DEF TypeOK

LEMMA TypeHub ==
  ASSUME TypeOK, NEW c \in Clients,
         HubRegister(c) \/ HubUnregister(c) \/ HubOffer(c)
  PROVE  TypeOK'
<1>1. CASE HubRegister(c)
  BY <1>1 DEF TypeOK, HubRegister, InSelect
<1>2. CASE HubUnregister(c)
  BY <1>2 DEF TypeOK, HubUnregister, InSelect, Remove
<1>3. CASE HubOffer(c)
  <2>1. Append(send[c], published) \in Seq(Nat)
    BY AppendProperties DEF TypeOK
  <2>2. send' \in [Clients -> Seq(Nat)]
    BY <1>3, <2>1 DEF TypeOK, HubOffer
  <2>3. crashed' \in BOOLEAN /\ clients' \subseteq Clients /\ done' \in [Clients -> BOOLEAN]
    BY <1>3 DEF TypeOK, HubOffer, Remove
  <2>4. QED
    BY <1>3, <2>2, <2>3 DEF TypeOK, HubOffer
<1>4. QED
  BY <1>1, <1>2, <1>3

LEMMA TypeConnection ==
  ASSUME TypeOK, NEW c \in Clients,
         \/ Upgrade(c) \/ ArmTimer(c) \/ StartPumps(c)
         \/ TimerFires(c) \/ WaiterStops(c)
         \/ ReaderFails(c) \/ ReaderOverLimit(c) \/ ReaderCloses(c)
         \/ PeerStalls(c) \/ PeerResumes(c) \/ PeerLeaves(c)
  PROVE  TypeOK'
<1>1. CASE Upgrade(c)         BY <1>1 DEF TypeOK, Upgrade
<1>2. CASE ArmTimer(c)        BY <1>2 DEF TypeOK, ArmTimer
<1>3. CASE StartPumps(c)      BY <1>3 DEF TypeOK, StartPumps
<1>4. CASE TimerFires(c)      BY <1>4 DEF TypeOK, TimerFires, CloseConn
<1>5. CASE WaiterStops(c)     BY <1>5 DEF TypeOK, WaiterStops
<1>6. CASE ReaderFails(c)     BY <1>6 DEF TypeOK, ReaderFails
<1>7. CASE ReaderOverLimit(c) BY <1>7 DEF TypeOK, ReaderOverLimit
<1>8. CASE ReaderCloses(c)    BY <1>8 DEF TypeOK, ReaderCloses, CloseConn
<1>9. CASE PeerStalls(c)      BY <1>9 DEF TypeOK, PeerStalls, PeerBecomes
<1>10. CASE PeerResumes(c)    BY <1>10 DEF TypeOK, PeerResumes, PeerBecomes
<1>11. CASE PeerLeaves(c)     BY <1>11 DEF TypeOK, PeerLeaves, PeerBecomes
<1>12. QED
  BY <1>1, <1>2, <1>3, <1>4, <1>5, <1>6, <1>7, <1>8, <1>9, <1>10, <1>11

LEMMA TypeWriter ==
  ASSUME TypeOK, NEW c \in Clients, WriterStep(c)
  PROVE  TypeOK'
<1>1. CASE WriterTakes(c)
  <2>1. Head(send[c]) \in Nat /\ Tail(send[c]) \in Seq(Nat)
    BY <1>1, HeadTailProperties DEF TypeOK, WriterTakes
  <2>2. QED
    BY <1>1, <2>1 DEF TypeOK, WriterTakes
<1>2. CASE WriterWrites(c)
  <2>1. Append(written[c], inHand[c]) \in Seq(Nat)
    BY AppendProperties DEF TypeOK
  <2>2. QED
    BY <1>2, <2>1 DEF TypeOK, WriterWrites
<1>3. CASE WriterFails(c)
  BY <1>3 DEF TypeOK, WriterFails
<1>4. CASE WriterSeesDone(c)
  BY <1>4 DEF TypeOK, WriterSeesDone
<1>5. CASE WriterSaysBye(c)
  BY <1>5 DEF TypeOK, WriterSaysBye
<1>6. CASE WriterExits(c)
  BY <1>6 DEF TypeOK, WriterExits, CloseConn
<1>7. QED
  BY <1>1, <1>2, <1>3, <1>4, <1>5, <1>6 DEF WriterStep

LEMMA TypeStep == TypeOK /\ [Next]_vars => TypeOK'
<1> SUFFICES ASSUME TypeOK, [Next]_vars PROVE TypeOK'
  OBVIOUS
<1>1. ASSUME NEW h \in Handlers, StartBroadcast(h)
      PROVE TypeOK'
  BY <1>1 DEF TypeOK, StartBroadcast
<1>2. ASSUME NEW h \in Handlers, HubBroadcast(h)
      PROVE TypeOK'
  BY <1>2 DEF TypeOK, HubBroadcast, InSelect
<1>3. ASSUME NEW c \in Clients, HubRegister(c) \/ HubUnregister(c) \/ HubOffer(c)
      PROVE TypeOK'
  BY <1>3, TypeHub
<1>4. CASE UNCHANGED vars
  BY <1>4 DEF TypeOK, vars
<1>5. QED
  BY <1>1, <1>2, <1>3, <1>4, TypeConnection, TypeWriter DEF Next

\* Type correctness of the hub, its pumps and timers, for every constant.
THEOREM TypeCorrect == Spec => []TypeOK
  BY TypeInit, TypeStep, PTL DEF Spec

-----------------------------------------------------------------------------
(* The lifecycle of a connection: what has been closed, and by whom.       *)

Life == Lifecycle /\ DoneExactlyWhenRemoved

LEMMA LifeInit == Init => Life
<1> SUFFICES ASSUME Init PROVE Life
  OBVIOUS
<1>1. pending = {} /\ clients = {} /\ crashed = FALSE
  BY DEF Init
<1>2. \A c \in Clients : /\ serve[c] = "idle" /\ writer[c] = "off" /\ reader[c] = "off"
                         /\ inHand[c] = 0 /\ ~done[c]
  BY DEF Init
<1>3. \A c \in Clients : send[c] = << >> /\ written[c] = << >>
  BY Zenon DEF Init
<1>4. QED
  BY <1>1, <1>2, <1>3 DEF Life, Lifecycle, DoneExactlyWhenRemoved, Registered

\* A client still in the map has its done channel open: removing it cannot panic.
LEMMA RemovedOnce ==
  ASSUME TypeOK, Life, NEW c \in clients, Registered(c), Remove(c)
  PROVE  /\ ~crashed' /\ c \notin clients' /\ clients' = clients \ {c}
         /\ done'[c] /\ \A d \in Clients \ {c} : done'[d] = done[d]
<1>1. c \in Clients /\ ~done[c] /\ ~crashed
  BY DEF TypeOK, Life, DoneExactlyWhenRemoved
<1>2. ~crashed'
  BY <1>1, Zenon DEF Remove
<1>3. clients' = clients \ {c} /\ done' = [done EXCEPT ![c] = TRUE]
  BY DEF Remove
<1>4. QED
  BY <1>1, <1>2, <1>3 DEF TypeOK

LEMMA LifeStep == TypeOK /\ InOrderNoGap /\ Life /\ [Next]_vars => Life'
<1> SUFFICES ASSUME TypeOK, InOrderNoGap, Life, [Next]_vars PROVE Life'
  OBVIOUS
<1> USE DEF TypeOK, Life, Lifecycle, DoneExactlyWhenRemoved, Registered
<1>1. ASSUME NEW h \in Handlers, StartBroadcast(h) PROVE Life'
  BY <1>1 DEF StartBroadcast
<1>2. ASSUME NEW h \in Handlers, HubBroadcast(h) PROVE Life'
  BY <1>2 DEF HubBroadcast
<1>3. ASSUME NEW c \in Clients, HubRegister(c) PROVE Life'
  BY <1>3 DEF HubRegister, InSelect
<1>4. ASSUME NEW c \in Clients, HubUnregister(c) PROVE Life'
  <2>1. Registered(c)
    BY <1>4 DEF HubUnregister
  <2>2. CASE c \in clients
    BY <1>4, <2>1, <2>2, RemovedOnce DEF HubUnregister, InSelect
  <2>3. CASE c \notin clients
    BY <1>4, <2>3 DEF HubUnregister, InSelect
  <2>4. QED
    BY <2>2, <2>3
<1>5. ASSUME NEW c \in Clients, HubOffer(c) PROVE Life'
  <2>1. c \in clients /\ Registered(c)
    BY <1>5 DEF HubOffer
  <2>2. CASE Len(send[c]) < BufCap
    BY <1>5, <2>1, <2>2 DEF HubOffer
  <2>3. CASE ~(Len(send[c]) < BufCap)
    <3>1. /\ Remove(c) /\ UNCHANGED <<send, serve, written, writer, inHand, reader>>
          /\ pending' = pending \ {c}
      BY <1>5, <2>3 DEF HubOffer
    <3>2. /\ ~crashed' /\ clients' = clients \ {c}
          /\ done'[c] /\ \A d \in Clients \ {c} : done'[d] = done[d]
      BY <2>1, <3>1, RemovedOnce
    <3>3. pending' \subseteq clients'
      BY <3>1, <3>2
    <3>4. QED
      BY <2>1, <3>1, <3>2, <3>3
  <2>4. QED
    BY <2>2, <2>3
<1>6. ASSUME NEW c \in Clients, Upgrade(c) PROVE Life'
  BY <1>6 DEF Upgrade
<1>7. ASSUME NEW c \in Clients, ArmTimer(c) PROVE Life'
  BY <1>7 DEF ArmTimer
<1>8. ASSUME NEW c \in Clients, StartPumps(c) PROVE Life'
  BY <1>8 DEF StartPumps
<1>9. ASSUME NEW c \in Clients, TimerFires(c) \/ WaiterStops(c) PROVE Life'
  BY <1>9 DEF TimerFires, WaiterStops
<1>10. ASSUME NEW c \in Clients, WriterTakes(c) PROVE Life'
  <2>1. send[c][1] # 0 /\ Head(send[c]) = send[c][1]
    <3>1. Len(send[c]) >= 1 /\ Head(send[c]) = send[c][1]
      BY <1>10, HeadTailProperties, EmptySeq DEF WriterTakes
    <3>2. Len(written[c]) \in Nat /\ joined[c] \in Nat /\ Held(c) = 0 /\ Len(send[c]) \in Nat
      BY <1>10, LenProperties DEF WriterTakes, Held
    <3>3. send[c][1] = joined[c] + Len(written[c]) + Held(c) + 1
      BY <3>1, <3>2 DEF InOrderNoGap
    <3>4. QED
      BY <3>1, <3>2, <3>3
  <2>2. QED
    BY <1>10, <2>1 DEF WriterTakes
<1>11. ASSUME NEW c \in Clients, WriterWrites(c) PROVE Life'
  BY <1>11 DEF WriterWrites
<1>12. ASSUME NEW c \in Clients, WriterFails(c) PROVE Life'
  BY <1>12 DEF WriterFails
<1>13. ASSUME NEW c \in Clients, WriterSeesDone(c) PROVE Life'
  BY <1>13 DEF WriterSeesDone
<1>14. ASSUME NEW c \in Clients, WriterSaysBye(c) \/ WriterExits(c) PROVE Life'
  BY <1>14 DEF WriterSaysBye, WriterExits
<1>15. ASSUME NEW c \in Clients, ReaderFails(c) \/ ReaderOverLimit(c) \/ ReaderCloses(c)
       PROVE Life'
  BY <1>15 DEF ReaderFails, ReaderOverLimit, ReaderCloses
<1>16. ASSUME NEW c \in Clients, PeerStalls(c) \/ PeerResumes(c) \/ PeerLeaves(c)
       PROVE Life'
  BY <1>16 DEF PeerStalls, PeerResumes, PeerLeaves, PeerBecomes
<1>17. CASE UNCHANGED vars
  BY <1>17 DEF vars
<1>18. QED
  BY <1>1, <1>2, <1>3, <1>4, <1>5, <1>6, <1>7, <1>8, <1>9, <1>10, <1>11, <1>12,
     <1>13, <1>14, <1>15, <1>16, <1>17 DEF Next, WriterStep

-----------------------------------------------------------------------------
(* The stream of messages of every client.                                 *)

Stream == InOrderNoGap /\ NothingMissed

streamVars == <<hubVars, send, inHand, written>>

\* The part of InOrderNoGap that is about one client.
Ordered(c) ==
  /\ \A i \in 1 .. Len(written[c]) : written[c][i] = joined[c] + i
  /\ inHand[c] # 0 => inHand[c] = joined[c] + Len(written[c]) + 1
  /\ \A i \in 1 .. Len(send[c]) : send[c][i] = joined[c] + Len(written[c]) + Held(c) + i

LEMMA StreamInit == Init => Stream
<1> SUFFICES ASSUME Init PROVE Stream
  OBVIOUS
<1>1. clients = {} /\ \A c \in Clients : inHand[c] = 0
  BY DEF Init
<1>2. \A c \in Clients : send[c] = << >> /\ written[c] = << >>
  BY Zenon DEF Init
<1>3. QED
  BY <1>1, <1>2, EmptySeq DEF Stream, InOrderNoGap, NothingMissed

LEMMA StreamQuiet ==
  ASSUME Stream, UNCHANGED streamVars
  PROVE  Stream'
  BY DEF Stream, InOrderNoGap, NothingMissed, Held, Accepted, streamVars

\* A step that leaves the stream of every client but c alone.
LEMMA StreamOne ==
  ASSUME TypeOK, Stream, NEW c \in Clients,
         \A d \in Clients \ {c} : /\ send'[d] = send[d] /\ written'[d] = written[d]
                                  /\ inHand'[d] = inHand[d] /\ joined'[d] = joined[d],
         Ordered(c)'
  PROVE  /\ InOrderNoGap'
         /\ \A d \in Clients \ {c} : Accepted(d)' = Accepted(d)
<1>1. \A d \in Clients : Ordered(d)
  BY DEF Stream, InOrderNoGap, Ordered
<1>2. ASSUME NEW d \in Clients \ {c}
      PROVE  Ordered(d)' /\ Accepted(d)' = Accepted(d)
  <2>1. Ordered(d)
    BY <1>1
  <2>2. /\ send'[d] = send[d] /\ written'[d] = written[d]
        /\ inHand'[d] = inHand[d] /\ joined'[d] = joined[d]
    OBVIOUS
  <2>3. QED
    BY <2>1, <2>2 DEF Ordered, Held, Accepted
<1>3. \A d \in Clients : Ordered(d)'
  BY <1>2
<1>4. QED
  BY <1>2, <1>3 DEF InOrderNoGap, Ordered

LEMMA StreamOffer ==
  ASSUME TypeOK, Life, Stream, NEW c \in Clients, HubOffer(c)
  PROVE  Stream'
<1>1. c \in clients /\ c \in pending
  BY DEF HubOffer, Life, Lifecycle
<1>2. CASE Len(send[c]) < BufCap
  <2> DEFINE new == Append(send[c], published)
  <2>1. send[c] \in Seq(Nat) /\ written[c] \in Seq(Nat)
    BY DEF TypeOK
  <2>2. published \in Nat /\ joined[c] \in Nat
    BY DEF TypeOK
  <2>3. PICK ls \in Nat, lw \in Nat, hd \in Nat :
          ls = Len(send[c]) /\ lw = Len(written[c]) /\ hd = Held(c)
    BY <2>1, LenProperties DEF Held
  <2>4. /\ Len(new) = ls + 1 /\ new[ls + 1] = published
        /\ \A i \in 1 .. ls : new[i] = send[c][i]
    BY <2>1, <2>2, <2>3, AppendProperties
  <2>5. /\ send'[c] = new /\ \A d \in Clients \ {c} : send'[d] = send[d]
        /\ UNCHANGED <<written, inHand, joined, clients, published>>
        /\ pending' = pending \ {c}
    BY <1>2 DEF HubOffer, TypeOK
  <2> HIDE DEF new
  <2>6. Held(c)' = hd
    BY <2>3, <2>5 DEF Held
  <2>7. published = joined[c] + lw + hd + ls + 1
    <3>1. joined[c] + Accepted(c) = published - 1
      BY <1>1 DEF Stream, NothingMissed
    <3>2. Accepted(c) = lw + hd + ls
      BY <2>3 DEF Accepted
    <3>3. QED
      BY <2>2, <3>1, <3>2
  <2>8. Ordered(c)'
    <3>1. /\ \A i \in 1 .. lw : written[c][i] = joined[c] + i
          /\ inHand[c] # 0 => inHand[c] = joined[c] + lw + 1
          /\ \A i \in 1 .. ls : send[c][i] = joined[c] + lw + hd + i
      BY <2>3 DEF Stream, InOrderNoGap
    <3>2. ASSUME NEW i \in 1 .. ls + 1 PROVE new[i] = joined[c] + lw + hd + i
      <4>1. CASE i = ls + 1
        BY <2>2, <2>4, <2>7, <4>1
      <4>2. CASE i # ls + 1
        <5>1. i \in 1 .. ls
          BY <4>2
        <5>2. QED
          BY <2>4, <3>1, <5>1
      <4>3. QED
        BY <4>1, <4>2
    <3>3. QED
      BY <2>3, <2>4, <2>5, <2>6, <3>1, <3>2 DEF Ordered
  <2>9. InOrderNoGap' /\ \A d \in Clients \ {c} : Accepted(d)' = Accepted(d)
    BY <2>5, <2>8, StreamOne
  <2>10. joined'[c] + Accepted(c)' = published' /\ c \notin pending'
    <3>1. Accepted(c)' = lw + hd + (ls + 1)
      BY <2>3, <2>4, <2>5, <2>6 DEF Accepted
    <3>2. QED
      BY <2>2, <2>5, <2>7, <3>1
  <2>11. NothingMissed'
    <3>1. ASSUME NEW d \in clients', d # c
          PROVE  joined'[d] + Accepted(d)' = IF d \in pending' THEN published' - 1 ELSE published'
      BY <2>5, <2>9, <3>1 DEF Stream, NothingMissed, TypeOK
    <3>2. QED
      BY <2>10, <3>1 DEF NothingMissed
  <2>12. QED
    BY <2>9, <2>11 DEF Stream
<1>3. CASE ~(Len(send[c]) < BufCap)
  <2>1. /\ UNCHANGED <<send, written, inHand, joined, published>>
        /\ clients' = clients \ {c} /\ pending' = pending \ {c}
    BY <1>3 DEF HubOffer, Remove
  <2>2. QED
    BY <2>1 DEF Stream, InOrderNoGap, NothingMissed, Held, Accepted
<1>4. QED
  BY <1>2, <1>3

LEMMA StreamTakes ==
  ASSUME TypeOK, Life, Stream, NEW c \in Clients, WriterTakes(c)
  PROVE  Stream'
<1> DEFINE rest == Tail(send[c])
<1>1. send[c] \in Seq(Nat) /\ send[c] # << >> /\ written[c] \in Seq(Nat)
  BY DEF TypeOK, WriterTakes
<1>2. inHand[c] = 0 /\ joined[c] \in Nat
  BY DEF TypeOK, Life, Lifecycle, WriterTakes
<1>3. PICK ls \in Nat, lw \in Nat : ls + 1 = Len(send[c]) /\ lw = Len(written[c])
  <2>1. Len(send[c]) \in Nat \ {0} /\ Len(written[c]) \in Nat
    BY <1>1, LenProperties, EmptySeq
  <2>2. PICK n \in Nat \ {0} : n = Len(send[c])
    BY <2>1
  <2>3. n - 1 \in Nat /\ (n - 1) + 1 = Len(send[c])
    BY <2>2
  <2>4. QED
    BY <2>1, <2>3
<1>4. /\ Head(send[c]) = send[c][1] /\ Len(rest) = ls
      /\ \A i \in 1 .. ls : rest[i] = send[c][i + 1]
  BY <1>1, <1>3, HeadTailProperties
<1>5. /\ send'[c] = rest /\ inHand'[c] = Head(send[c])
      /\ \A d \in Clients \ {c} : send'[d] = send[d] /\ inHand'[d] = inHand[d]
      /\ UNCHANGED <<written, joined, clients, published, pending>>
  BY DEF WriterTakes, TypeOK
<1> HIDE DEF rest
<1>6. /\ \A i \in 1 .. lw : written[c][i] = joined[c] + i
      /\ \A i \in 1 .. ls + 1 : send[c][i] = joined[c] + lw + i
  <2>1. Held(c) = 0
    BY <1>2 DEF Held
  <2>2. \A i \in 1 .. ls + 1 : send[c][i] = joined[c] + lw + 0 + i
    BY <1>3, <2>1 DEF Stream, InOrderNoGap
  <2>3. \A i \in 1 .. lw : written[c][i] = joined[c] + i
    BY <1>3 DEF Stream, InOrderNoGap
  <2>4. QED
    BY <1>2, <2>2, <2>3
<1>7. /\ inHand'[c] = joined[c] + lw + 1 /\ inHand'[c] # 0
      /\ \A i \in 1 .. ls : rest[i] = joined[c] + lw + 1 + i
  <2>1. send[c][1] = joined[c] + lw + 1
    <3>1. 1 \in 1 .. ls + 1
      OBVIOUS
    <3>2. QED
      BY <1>6, <3>1
  <2>2. ASSUME NEW i \in 1 .. ls PROVE rest[i] = joined[c] + lw + 1 + i
    <3>1. i + 1 \in 1 .. ls + 1
      OBVIOUS
    <3>2. send[c][i + 1] = joined[c] + lw + (i + 1)
      BY <1>6, <3>1
    <3>3. rest[i] = send[c][i + 1]
      BY <1>4
    <3>4. joined[c] + lw + (i + 1) = joined[c] + lw + 1 + i
      BY <1>2
    <3>5. QED
      BY <3>2, <3>3, <3>4
  <2>3. QED
    BY <1>2, <1>4, <1>5, <2>1, <2>2
<1>8. Held(c) = 0 /\ Held(c)' = 1
  BY <1>2, <1>7 DEF Held
<1>9. Ordered(c)'
  BY <1>3, <1>4, <1>5, <1>6, <1>7, <1>8 DEF Ordered
<1>10. InOrderNoGap' /\ \A d \in Clients \ {c} : Accepted(d)' = Accepted(d)
  BY <1>5, <1>9, StreamOne
<1>11. Accepted(c)' = Accepted(c)
  <2>1. Accepted(c) = lw + 0 + (ls + 1) /\ Accepted(c)' = lw + 1 + ls
    BY <1>3, <1>4, <1>5, <1>8 DEF Accepted
  <2>2. QED
    BY <2>1
<1>12. NothingMissed'
  BY <1>5, <1>10, <1>11 DEF Stream, NothingMissed, TypeOK
<1>13. QED
  BY <1>10, <1>12 DEF Stream

LEMMA StreamWrites ==
  ASSUME TypeOK, Life, Stream, NEW c \in Clients, WriterWrites(c)
  PROVE  Stream'
<1> DEFINE new == Append(written[c], inHand[c])
<1>1. send[c] \in Seq(Nat) /\ written[c] \in Seq(Nat) /\ inHand[c] \in Nat
  BY DEF TypeOK
<1>2. inHand[c] # 0 /\ joined[c] \in Nat
  BY DEF TypeOK, Life, Lifecycle, WriterWrites
<1>3. PICK ls \in Nat, lw \in Nat : ls = Len(send[c]) /\ lw = Len(written[c])
  BY <1>1, LenProperties
<1>4. /\ Len(new) = lw + 1 /\ new[lw + 1] = inHand[c]
      /\ \A i \in 1 .. lw : new[i] = written[c][i]
  BY <1>1, <1>3, AppendProperties
<1>5. /\ written'[c] = new /\ inHand'[c] = 0
      /\ \A d \in Clients \ {c} : written'[d] = written[d] /\ inHand'[d] = inHand[d]
      /\ UNCHANGED <<send, joined, clients, published, pending>>
  BY DEF WriterWrites, TypeOK
<1> HIDE DEF new
<1>6. Held(c) = 1 /\ Held(c)' = 0
  BY <1>2, <1>5 DEF Held
<1>7. /\ \A i \in 1 .. lw : written[c][i] = joined[c] + i
      /\ inHand[c] = joined[c] + lw + 1
      /\ \A i \in 1 .. ls : send[c][i] = joined[c] + lw + 1 + i
  BY <1>2, <1>3, <1>6 DEF Stream, InOrderNoGap
<1>8. /\ \A i \in 1 .. lw + 1 : new[i] = joined[c] + i
      /\ \A i \in 1 .. ls : send[c][i] = joined[c] + (lw + 1) + 0 + i
  <2>1. ASSUME NEW i \in 1 .. lw + 1 PROVE new[i] = joined[c] + i
    <3>1. CASE i = lw + 1
      BY <1>2, <1>4, <1>7, <3>1
    <3>2. CASE i # lw + 1
      <4>1. i \in 1 .. lw
        BY <3>2
      <4>2. QED
        BY <1>4, <1>7, <4>1
    <3>3. QED
      BY <3>1, <3>2
  <2>2. ASSUME NEW i \in 1 .. ls PROVE send[c][i] = joined[c] + (lw + 1) + 0 + i
    <3>1. send[c][i] = joined[c] + lw + 1 + i
      BY <1>7
    <3>2. QED
      BY <1>2, <3>1
  <2>3. QED
    BY <2>1, <2>2
<1>9. Ordered(c)'
  BY <1>3, <1>4, <1>5, <1>6, <1>8 DEF Ordered
<1>10. InOrderNoGap' /\ \A d \in Clients \ {c} : Accepted(d)' = Accepted(d)
  BY <1>5, <1>9, StreamOne
<1>11. Accepted(c)' = Accepted(c)
  <2>1. Accepted(c) = lw + 1 + ls /\ Accepted(c)' = (lw + 1) + 0 + ls
    BY <1>3, <1>4, <1>5, <1>6 DEF Accepted
  <2>2. QED
    BY <2>1
<1>12. NothingMissed'
  BY <1>5, <1>10, <1>11 DEF Stream, NothingMissed, TypeOK
<1>13. QED
  BY <1>10, <1>12 DEF Stream

LEMMA StreamRegister ==
  ASSUME TypeOK, Life, Stream, NEW c \in Clients, HubRegister(c)
  PROVE  Stream'
<1>1. /\ send[c] = << >> /\ written[c] = << >> /\ inHand[c] = 0
      /\ pending = {} /\ published \in Nat
  BY DEF Life, Lifecycle, HubRegister, InSelect, Registered, TypeOK
<1>2. /\ joined'[c] = published /\ \A d \in Clients \ {c} : joined'[d] = joined[d]
      /\ clients' = clients \cup {c}
      /\ UNCHANGED <<send, written, inHand, published, pending>>
  BY DEF HubRegister, TypeOK
<1>3. Len(send[c]) = 0 /\ Len(written[c]) = 0 /\ Held(c) = 0
  BY <1>1, EmptySeq DEF Held
<1>4. Ordered(c)'
  BY <1>1, <1>2, <1>3 DEF Ordered
<1>5. InOrderNoGap' /\ \A d \in Clients \ {c} : Accepted(d)' = Accepted(d)
  BY <1>2, <1>4, StreamOne
<1>6. joined'[c] + Accepted(c)' = published'
  <2>1. Held(c)' = 0 /\ Len(send'[c]) = 0 /\ Len(written'[c]) = 0
    BY <1>1, <1>2, <1>3 DEF Held
  <2>2. Accepted(c)' = 0 + 0 + 0
    BY <2>1 DEF Accepted
  <2>3. QED
    BY <1>1, <1>2, <2>2
<1>7. NothingMissed'
  BY <1>1, <1>2, <1>5, <1>6 DEF Stream, NothingMissed, TypeOK
<1>8. QED
  BY <1>5, <1>7 DEF Stream

LEMMA StreamBroadcast ==
  ASSUME TypeOK, Stream, NEW h \in Handlers, HubBroadcast(h)
  PROVE  Stream'
<1>1. /\ UNCHANGED <<send, written, inHand, joined, clients>>
      /\ published' = published + 1 /\ published \in Nat
      /\ pending = {} /\ pending' = clients
  BY DEF HubBroadcast, InSelect, TypeOK
<1>2. \A c \in Clients : Accepted(c)' = Accepted(c)
  BY <1>1 DEF Accepted, Held
<1>3. InOrderNoGap'
  BY <1>1 DEF Stream, InOrderNoGap, Held
<1>4. NothingMissed'
  BY <1>1, <1>2 DEF Stream, NothingMissed, TypeOK
<1>5. QED
  BY <1>3, <1>4 DEF Stream

LEMMA StreamStep == TypeOK /\ Life /\ Stream /\ [Next]_vars => Stream'
<1> SUFFICES ASSUME TypeOK, Life, Stream, [Next]_vars PROVE Stream'
  OBVIOUS
<1>1. ASSUME NEW h \in Handlers, StartBroadcast(h) PROVE Stream'
  BY <1>1, StreamQuiet DEF StartBroadcast, streamVars
<1>2. ASSUME NEW h \in Handlers, HubBroadcast(h) PROVE Stream'
  BY <1>2, StreamBroadcast
<1>3. ASSUME NEW c \in Clients, HubRegister(c) PROVE Stream'
  BY <1>3, StreamRegister
<1>4. ASSUME NEW c \in Clients, HubUnregister(c) PROVE Stream'
  <2>1. /\ UNCHANGED <<send, written, inHand, joined, published, pending>>
        /\ clients' \subseteq clients
    BY <1>4 DEF HubUnregister, Remove
  <2>2. QED
    BY <2>1 DEF Stream, InOrderNoGap, NothingMissed, Held, Accepted
<1>5. ASSUME NEW c \in Clients, HubOffer(c) PROVE Stream'
  BY <1>5, StreamOffer
<1>6. ASSUME NEW c \in Clients, Upgrade(c) \/ ArmTimer(c) \/ StartPumps(c) PROVE Stream'
  BY <1>6, StreamQuiet DEF Upgrade, ArmTimer, StartPumps, streamVars
<1>7. ASSUME NEW c \in Clients, TimerFires(c) \/ WaiterStops(c) PROVE Stream'
  BY <1>7, StreamQuiet DEF TimerFires, WaiterStops, streamVars
<1>8. ASSUME NEW c \in Clients, WriterTakes(c) PROVE Stream'
  BY <1>8, StreamTakes
<1>9. ASSUME NEW c \in Clients, WriterWrites(c) PROVE Stream'
  BY <1>9, StreamWrites
<1>10. ASSUME NEW c \in Clients,
              WriterFails(c) \/ WriterSeesDone(c) \/ WriterSaysBye(c) \/ WriterExits(c)
       PROVE  Stream'
  BY <1>10, StreamQuiet DEF WriterFails, WriterSeesDone, WriterSaysBye, WriterExits, streamVars
<1>11. ASSUME NEW c \in Clients, ReaderFails(c) \/ ReaderOverLimit(c) \/ ReaderCloses(c)
       PROVE  Stream'
  BY <1>11, StreamQuiet DEF ReaderFails, ReaderOverLimit, ReaderCloses, streamVars
<1>12. ASSUME NEW c \in Clients, PeerStalls(c) \/ PeerResumes(c) \/ PeerLeaves(c)
       PROVE  Stream'
  BY <1>12, StreamQuiet DEF PeerStalls, PeerResumes, PeerLeaves, PeerBecomes, streamVars
<1>13. CASE UNCHANGED vars
  BY <1>13, StreamQuiet DEF vars, streamVars
<1>14. QED
  BY <1>1, <1>2, <1>3, <1>4, <1>5, <1>6, <1>7, <1>8, <1>9, <1>10, <1>11, <1>12, <1>13
     DEF Next, WriterStep

-----------------------------------------------------------------------------

\* The inductive invariant holds in every reachable state of the hub.
THEOREM HubInvariant == Spec => []HubInv
<1>1. Init => HubInv
  BY TypeInit, LifeInit, StreamInit DEF HubInv, Life, Stream
<1>2. HubInv /\ [Next]_vars => HubInv'
  BY TypeStep, LifeStep, StreamStep DEF HubInv, Life, Stream
<1>3. QED
  BY <1>1, <1>2, PTL DEF Spec

\* Whichever of the two paths removes a client first, its done channel is closed
\* once and it does not come back: the process never panics on a second close.
THEOREM DoneClosedOnce == Spec => []DoneExactlyWhenRemoved
<1>1. HubInv => DoneExactlyWhenRemoved
  BY DEF HubInv
<1>2. QED
  BY <1>1, HubInvariant, PTL

\* Every client is sent an unbroken run of the broadcasts, in order.
THEOREM DeliveryInOrder == Spec => []InOrderNoGap
<1>1. HubInv => InOrderNoGap
  BY DEF HubInv
<1>2. QED
  BY <1>1, HubInvariant, PTL

\* No broadcast is lost on a client that is still registered.
THEOREM RegisteredMissNothing == Spec => []NothingMissed
<1>1. HubInv => NothingMissed
  BY DEF HubInv
<1>2. QED
  BY <1>1, HubInvariant, PTL

-----------------------------------------------------------------------------
(* The hub implements PubSub.  A broadcast taken by the hub is Publish, a   *)
(* registration Join, a removal by either path Leave and a completed write  *)
(* Handover; every other step is invisible.                                 *)

\* What the subscribers of PubSub are, as functions of the hub's state.
Status == [c \in Clients |-> IF c \in clients THEN "in" ELSE IF done[c] THEN "left" ELSE "out"]
Upto   == [c \in Clients |-> IF done[c] THEN joined[c] + Accepted(c) ELSE 0]

abstractVars == <<published, Status, joined, Upto, written>>

\* What has been accepted for a client is a number, and its messages are numbered
\* no higher than the last one published.
LEMMA AcceptedBounds ==
  ASSUME HubInv, NEW c \in Clients
  PROVE  /\ joined[c] \in Nat /\ published \in Nat /\ Len(written[c]) \in Nat
         /\ Accepted(c) \in Nat /\ Len(written[c]) + Held(c) <= Accepted(c)
         /\ c \in clients => joined[c] + Accepted(c) <= published
<1>1. send[c] \in Seq(Nat) /\ written[c] \in Seq(Nat)
  BY DEF HubInv, TypeOK
<1>2. Len(written[c]) \in Nat /\ Len(send[c]) \in Nat /\ Held(c) \in Nat
  BY <1>1, LenProperties DEF Held
<1>3. joined[c] \in Nat /\ published \in Nat
  BY DEF HubInv, TypeOK
<1>4. Accepted(c) \in Nat /\ Len(written[c]) + Held(c) <= Accepted(c)
  BY <1>2 DEF Accepted
<1>5. ASSUME c \in clients PROVE joined[c] + Accepted(c) <= published
  <2>1. joined[c] + Accepted(c) \in {published - 1, published}
    BY <1>5 DEF HubInv, NothingMissed
  <2>2. QED
    BY <1>3, <2>1
<1>6. QED
  BY <1>2, <1>3, <1>4, <1>5

LEMMA ServedIsRegistered ==
  ASSUME HubInv, NEW c \in Clients
  PROVE  /\ c \in clients => ~done[c]
         /\ serve[c] = "register" => c \notin clients /\ ~done[c]
         /\ writer[c] # "off" => (c \notin clients <=> done[c])
BY DEF HubInv, Lifecycle, DoneExactlyWhenRemoved, Registered

LEMMA Invisible ==
  ASSUME UNCHANGED <<clients, published, joined, send, done, inHand, written>>
  PROVE  UNCHANGED abstractVars
BY DEF abstractVars, Status, Upto, Accepted, Held

LEMMA RegisterIsJoin ==
  ASSUME HubInv, NEW c \in Clients, HubRegister(c)
  PROVE  Promise!Join(c)
<1>1. /\ clients' = clients \cup {c} /\ joined' = [joined EXCEPT ![c] = published]
      /\ UNCHANGED <<published, send, done, inHand, written>>
  BY DEF HubRegister
<1>2. c \notin clients /\ ~done[c]
  BY ServedIsRegistered DEF HubRegister
<1>3. Status[c] = "out" /\ Status' = [Status EXCEPT ![c] = "in"]
  BY <1>1, <1>2 DEF Status
<1>4. Upto' = Upto
  <2>1. ASSUME NEW d \in Clients, done[d] PROVE joined'[d] = joined[d] /\ Accepted(d)' = Accepted(d)
    BY <1>1, <1>2, <2>1 DEF Accepted, Held, HubInv, TypeOK
  <2>2. QED
    BY <1>1, <2>1 DEF Upto
<1>5. QED
  BY <1>1, <1>3, <1>4 DEF Promise!Join, Status, Upto

LEMMA RemoveIsLeave ==
  ASSUME HubInv, NEW c \in clients, Remove(c),
         UNCHANGED <<published, joined, send, inHand, written>>
  PROVE  Promise!Leave(c)
<1>1. c \in Clients /\ done \in [Clients -> BOOLEAN]
  BY DEF HubInv, TypeOK
<1>2. clients' = clients \ {c} /\ done' = [done EXCEPT ![c] = TRUE]
  BY DEF Remove
<1>3. \A d \in Clients : Accepted(d)' = Accepted(d)
  BY DEF Accepted, Held
<1>4. Status[c] = "in" /\ Status' = [Status EXCEPT ![c] = "left"]
  BY <1>1, <1>2 DEF Status
<1>5. Upto' = [Upto EXCEPT ![c] = joined[c] + Accepted(c)]
  BY <1>1, <1>2, <1>3 DEF Upto
<1>6. joined[c] + Accepted(c) \in joined[c] + Len(written[c]) .. published
  <2>1. /\ joined[c] \in Nat /\ published \in Nat /\ Len(written[c]) \in Nat
        /\ Accepted(c) \in Nat /\ Len(written[c]) + Held(c) <= Accepted(c)
        /\ joined[c] + Accepted(c) <= published
    BY <1>1, AcceptedBounds
  <2>2. Held(c) \in Nat
    BY DEF Held
  <2>3. QED
    BY <2>1, <2>2
<1>7. QED
  BY <1>4, <1>5, <1>6 DEF Promise!Leave, Promise!Position, Status, Upto

LEMMA OfferIsInvisibleOrLeave ==
  ASSUME HubInv, NEW c \in Clients, HubOffer(c)
  PROVE  Promise!Leave(c) \/ UNCHANGED abstractVars
<1>1. c \in clients /\ ~done[c]
  BY ServedIsRegistered DEF HubOffer, HubInv, Lifecycle
<1>2. CASE Len(send[c]) < BufCap
  <2>1. /\ UNCHANGED <<clients, published, joined, done, inHand, written>>
        /\ \A d \in Clients \ {c} : send'[d] = send[d]
    BY <1>2 DEF HubOffer, HubInv, TypeOK
  <2>2. ASSUME NEW d \in Clients, done[d] PROVE Accepted(d)' = Accepted(d)
    BY <1>1, <2>1, <2>2 DEF Accepted, Held
  <2>3. QED
    BY <2>1, <2>2 DEF abstractVars, Status, Upto
<1>3. CASE ~(Len(send[c]) < BufCap)
  BY <1>1, <1>3, RemoveIsLeave DEF HubOffer
<1>4. QED
  BY <1>2, <1>3

\* Taking a message from the buffer changes nothing of what was accepted.
LEMMA TakeIsInvisible ==
  ASSUME HubInv, HubInv', NEW c \in Clients, WriterTakes(c)
  PROVE  UNCHANGED abstractVars
<1>1. /\ send[c] \in Seq(Nat) /\ send[c] # << >> /\ written[c] \in Seq(Nat)
      /\ inHand[c] = 0
  BY DEF HubInv, TypeOK, Lifecycle, WriterTakes
<1>2. inHand'[c] # 0
  BY DEF HubInv, TypeOK, Lifecycle, WriterTakes
<1>3. /\ send'[c] = Tail(send[c])
      /\ \A d \in Clients \ {c} : send'[d] = send[d] /\ inHand'[d] = inHand[d]
      /\ UNCHANGED <<written, joined, clients, published, done>>
  BY DEF WriterTakes, HubInv, TypeOK
<1>4. Accepted(c)' = Accepted(c)
  <2>1. PICK ls \in Nat, lw \in Nat : ls = Len(send[c]) /\ lw = Len(written[c])
    BY <1>1, LenProperties
  <2>2. Len(Tail(send[c])) = ls - 1
    BY <1>1, <2>1, HeadTailProperties
  <2>3. Held(c) = 0 /\ Held(c)' = 1
    BY <1>1, <1>2 DEF Held
  <2>4. Accepted(c) = lw + 0 + ls /\ Accepted(c)' = lw + 1 + (ls - 1)
    BY <1>3, <2>1, <2>2, <2>3 DEF Accepted
  <2>5. QED
    BY <2>4
<1>5. ASSUME NEW d \in Clients PROVE Accepted(d)' = Accepted(d)
  BY <1>3, <1>4 DEF Accepted, Held
<1>6. QED
  BY <1>3, <1>5 DEF abstractVars, Status, Upto

LEMMA WriteIsHandover ==
  ASSUME HubInv, NEW c \in Clients, WriterWrites(c)
  PROVE  Promise!Handover(c)
<1>1. /\ inHand[c] # 0 /\ inHand[c] = joined[c] + Len(written[c]) + 1
      /\ (c \notin clients <=> done[c])
  BY ServedIsRegistered DEF HubInv, Lifecycle, InOrderNoGap, WriterWrites
<1>2. /\ written' = [written EXCEPT ![c] = Append(@, inHand[c])]
      /\ inHand' = [inHand EXCEPT ![c] = 0]
      /\ UNCHANGED <<send, joined, clients, published, done>>
  BY DEF WriterWrites
<1>3. /\ joined[c] \in Nat /\ published \in Nat /\ Len(written[c]) \in Nat
      /\ Accepted(c) \in Nat /\ Len(written[c]) + 1 <= Accepted(c)
      /\ c \in clients => joined[c] + Accepted(c) <= published
  BY <1>1, AcceptedBounds DEF Held
<1>4. \/ Status[c] = "in" /\ joined[c] + Len(written[c]) < published
      \/ Status[c] = "left" /\ joined[c] + Len(written[c]) < Upto[c]
  BY <1>1, <1>3 DEF Status, Upto
<1>5. \A d \in Clients : Accepted(d)' = Accepted(d)
  <2>1. Accepted(c)' = Accepted(c)
    <3>1. written[c] \in Seq(Nat) /\ inHand[c] \in Nat /\ send[c] \in Seq(Nat)
      BY DEF HubInv, TypeOK
    <3>2. PICK ls \in Nat, lw \in Nat : ls = Len(send[c]) /\ lw = Len(written[c])
      BY <3>1, LenProperties
    <3>3. Len(written'[c]) = lw + 1
      BY <1>2, <3>1, <3>2, AppendProperties DEF HubInv, TypeOK
    <3>4. Held(c) = 1 /\ Held(c)' = 0
      BY <1>1, <1>2 DEF Held, HubInv, TypeOK
    <3>5. Accepted(c) = lw + 1 + ls /\ Accepted(c)' = (lw + 1) + 0 + ls
      BY <1>2, <3>2, <3>3, <3>4 DEF Accepted
    <3>6. QED
      BY <3>5
  <2>2. ASSUME NEW d \in Clients \ {c} PROVE Accepted(d)' = Accepted(d)
    BY <1>2 DEF Accepted, Held, HubInv, TypeOK
  <2>3. QED
    BY <2>1, <2>2
<1>6. UNCHANGED <<published, Status, joined, Upto>>
  BY <1>2, <1>5 DEF Status, Upto
<1>7. QED
  BY <1>1, <1>2, <1>4, <1>6 DEF Promise!Handover, Promise!Position, Status, Upto

LEMMA BroadcastIsPublish ==
  ASSUME NEW h \in Handlers, HubBroadcast(h)
  PROVE  Promise!Publish
<1>1. /\ published' = published + 1
      /\ UNCHANGED <<clients, joined, send, done, inHand, written>>
  BY DEF HubBroadcast
<1>2. \A d \in Clients : Accepted(d)' = Accepted(d)
  BY <1>1 DEF Accepted, Held
<1>3. UNCHANGED <<Status, Upto>>
  BY <1>1, <1>2 DEF Status, Upto
<1>4. QED
  BY <1>1, <1>3 DEF Promise!Publish, Status, Upto

LEMMA UnregisterIsInvisibleOrLeave ==
  ASSUME HubInv, NEW c \in Clients, HubUnregister(c)
  PROVE  Promise!Leave(c) \/ UNCHANGED abstractVars
<1>1. UNCHANGED <<published, joined, send, inHand, written>>
  BY DEF HubUnregister
<1>2. CASE c \in clients
  BY <1>1, <1>2, RemoveIsLeave DEF HubUnregister
<1>3. CASE c \notin clients
  BY <1>1, <1>3, Invisible DEF HubUnregister
<1>4. QED
  BY <1>2, <1>3

LEMMA RefinementInit == Init => Promise!Init
<1> SUFFICES ASSUME Init PROVE Promise!Init
  OBVIOUS
<1>1. /\ published = 0 /\ clients = {} /\ done = [c \in Clients |-> FALSE]
      /\ joined = [c \in Clients |-> 0]
  BY DEF Init
<1>2. written = [c \in Clients |-> << >>]
  BY Zenon DEF Init
<1>3. \A c \in Clients : c \notin clients /\ ~done[c]
  BY <1>1
<1>4. Status = [c \in Clients |-> "out"] /\ Upto = [c \in Clients |-> 0]
  BY <1>3 DEF Status, Upto
<1>5. QED
  BY <1>1, <1>2, <1>4, Zenon DEF Promise!Init, Status, Upto

LEMMA RefinementStep ==
  HubInv /\ HubInv' /\ [Next]_vars => Promise!Next \/ UNCHANGED abstractVars
<1> SUFFICES ASSUME HubInv, HubInv', [Next]_vars
             PROVE  Promise!Next \/ UNCHANGED abstractVars
  OBVIOUS
<1>1. ASSUME NEW h \in Handlers, StartBroadcast(h) PROVE UNCHANGED abstractVars
  BY <1>1, Invisible DEF StartBroadcast
<1>2. ASSUME NEW h \in Handlers, HubBroadcast(h) PROVE Promise!Next
  BY <1>2, BroadcastIsPublish DEF Promise!Next
<1>3. ASSUME NEW c \in Clients, HubRegister(c) PROVE Promise!Next
  BY <1>3, RegisterIsJoin DEF Promise!Next
<1>4. ASSUME NEW c \in Clients, HubUnregister(c) \/ HubOffer(c)
      PROVE  Promise!Next \/ UNCHANGED abstractVars
  BY <1>4, UnregisterIsInvisibleOrLeave, OfferIsInvisibleOrLeave DEF Promise!Next
<1>5. ASSUME NEW c \in Clients, Upgrade(c) \/ ArmTimer(c) \/ StartPumps(c)
      PROVE  UNCHANGED abstractVars
  BY <1>5, Invisible DEF Upgrade, ArmTimer, StartPumps
<1>6. ASSUME NEW c \in Clients, TimerFires(c) \/ WaiterStops(c) PROVE UNCHANGED abstractVars
  BY <1>6, Invisible DEF TimerFires, WaiterStops
<1>7. ASSUME NEW c \in Clients, WriterTakes(c) PROVE UNCHANGED abstractVars
  BY <1>7, TakeIsInvisible
<1>8. ASSUME NEW c \in Clients, WriterWrites(c) PROVE Promise!Next
  BY <1>8, WriteIsHandover DEF Promise!Next
<1>9. ASSUME NEW c \in Clients,
             WriterFails(c) \/ WriterSeesDone(c) \/ WriterSaysBye(c) \/ WriterExits(c)
      PROVE  UNCHANGED abstractVars
  BY <1>9, Invisible DEF WriterFails, WriterSeesDone, WriterSaysBye, WriterExits
<1>10. ASSUME NEW c \in Clients, ReaderFails(c) \/ ReaderOverLimit(c) \/ ReaderCloses(c)
       PROVE  UNCHANGED abstractVars
  BY <1>10, Invisible DEF ReaderFails, ReaderOverLimit, ReaderCloses
<1>11. ASSUME NEW c \in Clients, PeerStalls(c) \/ PeerResumes(c) \/ PeerLeaves(c)
       PROVE  UNCHANGED abstractVars
  BY <1>11, Invisible DEF PeerStalls, PeerResumes, PeerLeaves, PeerBecomes
<1>12. CASE UNCHANGED vars
  BY <1>12, Invisible DEF vars
<1>13. QED
  BY <1>1, <1>2, <1>3, <1>4, <1>5, <1>6, <1>7, <1>8, <1>9, <1>10, <1>11, <1>12
     DEF Next, WriterStep

\* The hub with its pumps, timers and handlers (hub.go) keeps the promise of PubSub:
\* whatever it does, a dashboard sees a publish/subscribe service that may let go of a
\* subscriber but hands it a run of the broadcasts without gap or repetition.
THEOREM HubImplementsPubSub == Spec => ImplementsPubSub
<1>1. HubInv /\ HubInv' /\ [Next]_vars => [Promise!Next]_(Promise!psVars)
  BY RefinementStep DEF abstractVars, Promise!psVars, Status, Upto
<1>2. QED
  BY <1>1, RefinementInit, HubInvariant, PTL DEF Spec, ImplementsPubSub, Promise!Spec
=============================================================================
