-------------------------------- MODULE Hub --------------------------------
(***************************************************************************)
(* internal/websocket/hub.go: the goroutine that fans broadcasts out to    *)
(* the dashboards, the two goroutines (pumps) of every connection, the     *)
(* re-authentication timer, and the request handlers that block on the     *)
(* unbuffered Broadcast channel.                                           *)
(*                                                                         *)
(* A message is its number in the order the hub took them.  A send on an   *)
(* unbuffered channel is a rendezvous: the sender waits at a pc, and the   *)
(* hub's action moves both.  json.Marshal (60-64) cannot fail: what the    *)
(* handlers broadcast is decoded JSON, strings, numbers and times.         *)
(***************************************************************************)
EXTENDS Naturals, Sequences

CONSTANTS Clients,   \* the connections; each is upgraded at most once
          Timed,     \* those opened by HandleWebSocketWithTimeout
          Handlers,  \* the request goroutines that broadcast
          BufCap,    \* capacity of a client's Send channel (256 in the code)
          MaxMsgs    \* bound: no new broadcast starts once MaxMsgs were taken

ASSUME HubAssumption == /\ Timed \subseteq Clients
                        /\ BufCap \in Nat \ {0}
                        /\ MaxMsgs \in Nat

VARIABLES
  clients,    \* Hub.clients
  pending,    \* clients the range loop of a broadcast has not visited; {} = in select
  published,  \* number of messages taken from Broadcast
  handler,    \* "idle" | "sending", per handler
  serve,      \* where HandleWebSocket[WithTimeout] is, per client
  conn,       \* "none" | "open" | "closed": our end of the connection
  peer,       \* "reading" | "stalled" | "gone": the other end
  send,       \* Client.Send
  done,       \* TRUE once Client.done is closed
  crashed,    \* a closed channel was closed again: the process panics
  writer,     \* writePump: "off", "select", "write", "bye", "exit", "end"
  inHand,     \* the message writePump has taken from Send, 0 if none
  written,    \* history: the messages writePump has written, in order
  reader,     \* readPump: "off", "read", "unregister", "close", "end"
  timer,      \* "none" | "armed" | "fired" | "stopped"
  waiter,     \* the goroutine that stops the timer: "off" | "wait" | "end"
  joined      \* history: published when the client was registered

hubVars  == <<clients, pending, published, joined>>
connVars == <<conn, peer>>
pumpVars == <<writer, inHand, written, reader>>
timeVars == <<timer, waiter>>
vars == <<hubVars, handler, serve, connVars, send, done, crashed, pumpVars, timeVars>>

TypeOK ==
  /\ clients \subseteq Clients
  /\ pending \subseteq Clients
  /\ published \in Nat
  /\ handler \in [Handlers -> {"idle", "sending"}]
  /\ serve \in [Clients -> {"idle", "register", "arm", "start", "served"}]
  /\ conn \in [Clients -> {"none", "open", "closed"}]
  /\ peer \in [Clients -> {"reading", "stalled", "gone"}]
  /\ send \in [Clients -> Seq(Nat)]
  /\ done \in [Clients -> BOOLEAN]
  /\ crashed \in BOOLEAN
  /\ writer \in [Clients -> {"off", "select", "write", "bye", "exit", "end"}]
  /\ inHand \in [Clients -> Nat]
  /\ written \in [Clients -> Seq(Nat)]
  /\ reader \in [Clients -> {"off", "read", "unregister", "close", "end"}]
  /\ timer \in [Clients -> {"none", "armed", "fired", "stopped"}]
  /\ waiter \in [Clients -> {"off", "wait", "end"}]
  /\ joined \in [Clients -> Nat]

Init ==
  /\ clients = {} /\ pending = {} /\ published = 0
  /\ handler = [h \in Handlers |-> "idle"]
  /\ serve = [c \in Clients |-> "idle"]
  /\ conn = [c \in Clients |-> "none"]
  /\ peer = [c \in Clients |-> "reading"]
  /\ send = [c \in Clients |-> << >>]
  /\ done = [c \in Clients |-> FALSE]
  /\ crashed = FALSE
  /\ writer = [c \in Clients |-> "off"]
  /\ inHand = [c \in Clients |-> 0]
  /\ written = [c \in Clients |-> << >>]
  /\ reader = [c \in Clients |-> "off"]
  /\ timer = [c \in Clients |-> "none"]
  /\ waiter = [c \in Clients |-> "off"]
  /\ joined = [c \in Clients |-> 0]

-----------------------------------------------------------------------------
(* The hub's goroutine.                                                    *)

InSelect == pending = {}

(* The operators named ...Bug are plausible mistakes in the code modelled   *)
(* by the definition below them.  No action uses them: each is there to    *)
(* show which property would catch it.                                     *)

RemoveForgetsCloseBug(c) == /\ clients' = clients \ {c}
                            /\ UNCHANGED <<done, crashed>>

\* delete(h.clients, client) followed by close(client.done)
Remove(c) == /\ clients' = clients \ {c}
             /\ done' = [done EXCEPT ![c] = TRUE]
             /\ crashed' = (crashed \/ done[c])

RegisterOffByOneBug(c) ==
  /\ InSelect
  /\ serve[c] = "register"
  /\ serve' = [serve EXCEPT ![c] = IF c \in Timed THEN "arm" ELSE "start"]
  /\ clients' = clients \cup {c}
  /\ joined' = [joined EXCEPT ![c] = published - 1]
  /\ UNCHANGED <<pending, published, handler, connVars, send, done, crashed, pumpVars, timeVars>>

HubRegister(c) ==
  /\ InSelect
  /\ serve[c] = "register"
  /\ serve' = [serve EXCEPT ![c] = IF c \in Timed THEN "arm" ELSE "start"]
  /\ clients' = clients \cup {c}
  /\ joined' = [joined EXCEPT ![c] = published]
  /\ UNCHANGED <<pending, published, handler, connVars, send, done, crashed, pumpVars, timeVars>>

UnregisterTwiceBug(c) ==
  /\ InSelect
  /\ reader[c] = "unregister"
  /\ reader' = [reader EXCEPT ![c] = "close"]
  /\ Remove(c)
  /\ UNCHANGED <<pending, published, joined, handler, serve, connVars, send,
                 writer, inHand, written, timeVars>>

HubUnregister(c) ==
  /\ InSelect
  /\ reader[c] = "unregister"
  /\ reader' = [reader EXCEPT ![c] = "close"]
  /\ IF c \in clients THEN Remove(c) ELSE UNCHANGED <<clients, done, crashed>>
  /\ UNCHANGED <<pending, published, joined, handler, serve, connVars, send,
                 writer, inHand, written, timeVars>>

HubBroadcast(h) ==
  /\ InSelect
  /\ handler[h] = "sending"
  /\ handler' = [handler EXCEPT ![h] = "idle"]
  /\ published' = published + 1
  /\ pending' = clients
  /\ UNCHANGED <<clients, joined, serve, connVars, send, done, crashed, pumpVars, timeVars>>

OfferDropsOldestBug(c) ==
  /\ c \in pending
  /\ pending' = pending \ {c}
  /\ send' = [send EXCEPT ![c] = Append(IF Len(@) < BufCap THEN @ ELSE Tail(@), published)]
  /\ UNCHANGED <<clients, done, crashed>>
  /\ UNCHANGED <<published, joined, handler, serve, connVars, pumpVars, timeVars>>

OfferSkipsFullBug(c) ==
  /\ c \in pending
  /\ pending' = pending \ {c}
  /\ send' = [send EXCEPT ![c] = IF Len(@) < BufCap THEN Append(@, published) ELSE @]
  /\ UNCHANGED <<clients, done, crashed>>
  /\ UNCHANGED <<published, joined, handler, serve, connVars, pumpVars, timeVars>>

OfferBlocksBug(c) ==
  /\ c \in pending
  /\ Len(send[c]) < BufCap
  /\ pending' = pending \ {c}
  /\ send' = [send EXCEPT ![c] = Append(@, published)]
  /\ UNCHANGED <<clients, done, crashed>>
  /\ UNCHANGED <<published, joined, handler, serve, connVars, pumpVars, timeVars>>

\* One iteration of the range loop: a send that never blocks.
HubOffer(c) ==
  /\ c \in pending
  /\ pending' = pending \ {c}
  /\ IF Len(send[c]) < BufCap
     THEN /\ send' = [send EXCEPT ![c] = Append(@, published)]
          /\ UNCHANGED <<clients, done, crashed>>
     ELSE Remove(c) /\ UNCHANGED send
  /\ UNCHANGED <<published, joined, handler, serve, connVars, pumpVars, timeVars>>

-----------------------------------------------------------------------------
(* A request handler broadcasts and waits until the hub takes the message. *)

StartBroadcast(h) ==
  /\ handler[h] = "idle"
  /\ published < MaxMsgs
  /\ handler' = [handler EXCEPT ![h] = "sending"]
  /\ UNCHANGED <<hubVars, serve, connVars, send, done, crashed, pumpVars, timeVars>>

-----------------------------------------------------------------------------
(* HandleWebSocket and HandleWebSocketWithTimeout.                         *)

Upgrade(c) ==
  /\ serve[c] = "idle"
  /\ serve' = [serve EXCEPT ![c] = "register"]
  /\ conn' = [conn EXCEPT ![c] = "open"]
  /\ UNCHANGED <<hubVars, handler, peer, send, done, crashed, pumpVars, timeVars>>

ArmTimer(c) ==
  /\ serve[c] = "arm"
  /\ serve' = [serve EXCEPT ![c] = "start"]
  /\ timer' = [timer EXCEPT ![c] = "armed"]
  /\ UNCHANGED <<hubVars, handler, connVars, send, done, crashed, pumpVars, waiter>>

StartPumps(c) ==
  /\ serve[c] = "start"
  /\ serve' = [serve EXCEPT ![c] = "served"]
  /\ writer' = [writer EXCEPT ![c] = "select"]
  /\ reader' = [reader EXCEPT ![c] = "read"]
  /\ waiter' = [waiter EXCEPT ![c] = IF c \in Timed THEN "wait" ELSE "off"]
  /\ UNCHANGED <<hubVars, handler, connVars, send, done, crashed, inHand, written, timer>>

CloseConn(c) == conn' = [conn EXCEPT ![c] = "closed"]

TimerFires(c) ==
  /\ timer[c] = "armed"
  /\ timer' = [timer EXCEPT ![c] = "fired"]
  /\ CloseConn(c)
  /\ UNCHANGED <<hubVars, handler, serve, peer, send, done, crashed, pumpVars, waiter>>

WaiterStops(c) ==
  /\ waiter[c] = "wait"
  /\ done[c]
  /\ waiter' = [waiter EXCEPT ![c] = "end"]
  /\ timer' = [timer EXCEPT ![c] = IF @ = "armed" THEN "stopped" ELSE @]
  /\ UNCHANGED <<hubVars, handler, serve, connVars, send, done, crashed, pumpVars>>

-----------------------------------------------------------------------------
(* writePump.  There is no write deadline: a write to a peer that has      *)
(* stopped reading blocks until the connection is closed.  A write to a    *)
(* peer that is gone may succeed (the kernel still takes it) or fail.      *)

Takes(c) == conn[c] = "open" /\ peer[c] # "stalled"
Fails(c) == conn[c] = "closed" \/ peer[c] = "gone"

writerElse == <<hubVars, handler, serve, peer, done, crashed, reader, timeVars>>

WriterTakes(c) ==
  /\ writer[c] = "select"
  /\ send[c] # << >>
  /\ writer' = [writer EXCEPT ![c] = "write"]
  /\ inHand' = [inHand EXCEPT ![c] = Head(send[c])]
  /\ send' = [send EXCEPT ![c] = Tail(@)]
  /\ UNCHANGED <<conn, written, writerElse>>

WriterSkipsBug(c) ==
  /\ writer[c] = "write"
  /\ writer' = [writer EXCEPT ![c] = "select"]
  /\ inHand' = [inHand EXCEPT ![c] = 0]
  /\ UNCHANGED <<conn, send, written, writerElse>>

WriterWrites(c) ==
  /\ writer[c] = "write"
  /\ Takes(c)
  /\ writer' = [writer EXCEPT ![c] = "select"]
  /\ written' = [written EXCEPT ![c] = Append(@, inHand[c])]
  /\ inHand' = [inHand EXCEPT ![c] = 0]
  /\ UNCHANGED <<conn, send, writerElse>>

WriterFails(c) ==
  /\ writer[c] = "write"
  /\ Fails(c)
  /\ writer' = [writer EXCEPT ![c] = "exit"]
  /\ UNCHANGED <<conn, send, inHand, written, writerElse>>

WriterSeesDone(c) ==
  /\ writer[c] = "select"
  /\ done[c]
  /\ writer' = [writer EXCEPT ![c] = "bye"]
  /\ UNCHANGED <<conn, send, inHand, written, writerElse>>

\* The close frame; its error is ignored.
WriterSaysBye(c) ==
  /\ writer[c] = "bye"
  /\ Takes(c) \/ Fails(c)
  /\ writer' = [writer EXCEPT ![c] = "exit"]
  /\ UNCHANGED <<conn, send, inHand, written, writerElse>>

WriterLeavesOpenBug(c) ==
  /\ writer[c] = "exit"
  /\ writer' = [writer EXCEPT ![c] = "end"]
  /\ UNCHANGED <<conn, send, inHand, written, writerElse>>

\* defer c.Conn.Close()
WriterExits(c) ==
  /\ writer[c] = "exit"
  /\ writer' = [writer EXCEPT ![c] = "end"]
  /\ CloseConn(c)
  /\ UNCHANGED <<send, inHand, written, writerElse>>

WriterStep(c) == \/ WriterTakes(c) \/ WriterWrites(c) \/ WriterFails(c)
                 \/ WriterSeesDone(c) \/ WriterSaysBye(c) \/ WriterExits(c)

-----------------------------------------------------------------------------
(* readPump.                                                               *)

readerElse == <<hubVars, handler, serve, peer, send, done, crashed,
                writer, inHand, written, timeVars>>

ReaderForgetsUnregisterBug(c) ==
  /\ reader[c] = "read"
  /\ Fails(c)
  /\ reader' = [reader EXCEPT ![c] = "close"]
  /\ UNCHANGED <<conn, readerElse>>

ReaderFails(c) ==
  /\ reader[c] = "read"
  /\ Fails(c)
  /\ reader' = [reader EXCEPT ![c] = "unregister"]
  /\ UNCHANGED <<conn, readerElse>>

\* SetReadLimit(512): a longer message is a read error on a live connection.
ReaderOverLimit(c) ==
  /\ reader[c] = "read"
  /\ ~Fails(c)
  /\ reader' = [reader EXCEPT ![c] = "unregister"]
  /\ UNCHANGED <<conn, readerElse>>

ReaderCloses(c) ==
  /\ reader[c] = "close"
  /\ reader' = [reader EXCEPT ![c] = "end"]
  /\ CloseConn(c)
  /\ UNCHANGED readerElse

-----------------------------------------------------------------------------
(* The dashboard at the other end.                                         *)

PeerBecomes(c, from, to) ==
  /\ conn[c] = "open"
  /\ peer[c] \in from
  /\ peer' = [peer EXCEPT ![c] = to]
  /\ UNCHANGED <<hubVars, handler, serve, conn, send, done, crashed, pumpVars, timeVars>>

PeerStalls(c)  == PeerBecomes(c, {"reading"}, "stalled")
PeerResumes(c) == PeerBecomes(c, {"stalled"}, "reading")
PeerLeaves(c)  == PeerBecomes(c, {"reading", "stalled"}, "gone")

-----------------------------------------------------------------------------
Next ==
  \/ \E h \in Handlers : StartBroadcast(h) \/ HubBroadcast(h)
  \/ \E c \in Clients :
       \/ HubRegister(c) \/ HubUnregister(c) \/ HubOffer(c)
       \/ Upgrade(c) \/ ArmTimer(c) \/ StartPumps(c)
       \/ TimerFires(c) \/ WaiterStops(c)
       \/ WriterStep(c)
       \/ ReaderFails(c) \/ ReaderOverLimit(c) \/ ReaderCloses(c)
       \/ PeerStalls(c) \/ PeerResumes(c) \/ PeerLeaves(c)

Spec == Init /\ [][Next]_vars

(***************************************************************************)
(* Goroutines that can run do run.  A goroutine waiting on one of the      *)
(* hub's channels competes with others: the waiters of a channel are       *)
(* served in order and select picks a ready channel at random, hence       *)
(* strong fairness for the three rendezvous.  So it is for writePump: a    *)
(* blocked write ends when the peer reads again, however short a while.    *)
(* Nothing is assumed of the peers, of new requests, of the timer, or of a *)
(* read beyond the limit.                                                  *)
(***************************************************************************)
Fairness ==
  /\ \A h \in Handlers : SF_vars(HubBroadcast(h))
  /\ \A c \in Clients :
       /\ SF_vars(HubRegister(c)) /\ SF_vars(HubUnregister(c)) /\ WF_vars(HubOffer(c))
       /\ WF_vars(ArmTimer(c)) /\ WF_vars(StartPumps(c))
       /\ WF_vars(WaiterStops(c)) /\ SF_vars(WriterStep(c))
       /\ WF_vars(ReaderFails(c)) /\ WF_vars(ReaderCloses(c))

FairSpec == Spec /\ Fairness

-----------------------------------------------------------------------------
(* Safety.                                                                 *)

Registered(c) == serve[c] \in {"arm", "start", "served"}

\* Two paths remove a client: readPump's Unregister (51-57) and a full buffer
\* (68-74).  Whatever their order, done is closed exactly when the client
\* leaves the map, once, and a removed client never comes back.
DoneExactlyWhenRemoved ==
  /\ ~crashed
  /\ \A c \in Clients : Registered(c) => (c \in clients <=> ~done[c])

Held(c) == IF inHand[c] = 0 THEN 0 ELSE 1

\* The number of messages the hub has accepted for c.
Accepted(c) == Len(written[c]) + Held(c) + Len(send[c])

\* What a client is sent is an unbroken run of the broadcasts, in order,
\* starting with the first one after its registration, also when the hub
\* drops it or its peer dies half way (59-75 and 143-160).
InOrderNoGap ==
  \A c \in Clients :
    /\ \A i \in 1 .. Len(written[c]) : written[c][i] = joined[c] + i
    /\ inHand[c] # 0 => inHand[c] = joined[c] + Len(written[c]) + 1
    /\ \A i \in 1 .. Len(send[c]) :
         send[c][i] = joined[c] + Len(written[c]) + Held(c) + i

\* A client still in the map has been handed every broadcast since it joined
\* (but for the one being fanned out, if the loop has not reached it).
NothingMissed ==
  \A c \in clients :
    joined[c] + Accepted(c) = IF c \in pending THEN published - 1 ELSE published

\* How far the goroutines of a connection can be at each stage of its life.
Lifecycle ==
  /\ pending \subseteq clients
  /\ \A c \in Clients :
       /\ ~Registered(c) => /\ c \notin clients /\ ~done[c]
                            /\ send[c] = << >> /\ written[c] = << >>
       /\ serve[c] # "served" => writer[c] = "off" /\ reader[c] = "off"
       /\ writer[c] \in {"off", "select", "bye"} => inHand[c] = 0
       /\ writer[c] = "write" => inHand[c] # 0

\* The inductive invariant behind the three safety properties.
HubInv == /\ TypeOK /\ Lifecycle /\ DoneExactlyWhenRemoved
          /\ InOrderNoGap /\ NothingMissed

-----------------------------------------------------------------------------
(* The hub implements the abstract publish/subscribe service.              *)

Promise == INSTANCE PubSub WITH
  Subscribers <- Clients,
  status <- [c \in Clients |-> IF c \in clients THEN "in"
                               ELSE IF done[c] THEN "left" ELSE "out"],
  from <- joined,
  upto <- [c \in Clients |-> IF done[c] THEN joined[c] + Accepted(c) ELSE 0],
  got <- written

\* Every step of the hub and its pumps is a step of PubSub or invisible to it.
ImplementsPubSub == Promise!Spec

-----------------------------------------------------------------------------
(* Liveness, under FairSpec.                                               *)

\* A handler that broadcasts gets its response out: no dashboard, however
\* slow, stalled or dead, keeps the hub from taking the message (59-75).
BroadcastersProceed == \A h \in Handlers : handler[h] = "sending" ~> handler[h] = "idle"

Released(c) == /\ c \notin clients
               /\ writer[c] = "end" /\ reader[c] = "end"
               /\ waiter[c] # "wait" /\ timer[c] # "armed"

\* Once a connection is dead, by whichever end, the hub forgets it, its
\* goroutines end and no timer is left behind (131-139, 170-174).
ConnectionsAreReclaimed ==
  \A c \in Clients : (conn[c] = "closed" \/ peer[c] = "gone") ~> Released(c)

Stuck(c) == [](peer[c] = "stalled")

\* A client the hub drops is disconnected (68-74, 155-161), unless its peer
\* has stalled for good.
DroppedUnlessStalled ==
  \A c \in Clients : done[c] ~> (conn[c] = "closed" \/ Stuck(c))

\* A broadcast accepted for a client is written, unless the connection is
\* closed, the client dropped or its peer stalled for good (143-161).
AcceptedIsWritten ==
  \A c \in Clients : \A n \in 1 .. MaxMsgs :
    (c \in clients /\ Accepted(c) >= n)
      ~> (Len(written[c]) >= n \/ conn[c] = "closed" \/ done[c] \/ Stuck(c))

\* hub.go:69, "Client's send buffer is full; disconnect it.": every client
\* the hub removes ends up with its connection closed.
DroppedIsDisconnected == \A c \in Clients : done[c] ~> conn[c] = "closed"
=============================================================================
