------------------------------ MODULE ChatProofs ------------------------------
(***************************************************************************)
(* Proofs about the chat for any number of sockets and rooms, any bound on *)
(* the queues and any history: that broadcasts go to the sockets in a      *)
(* room, that a _send left behind on an old queue wakes up, that a settled *)
(* screen shows one room, and that it misses nothing said there.           *)
(***************************************************************************)
EXTENDS Chat, FiniteSetTheorems, WellFoundedInduction, TLAPS

Message == Payload \cup {Wake}

\* Where the loops of one socket can be: it is nowhere before it joins; the room
\* a switch goes to is one its user may read, and the one it is in once it has
\* swapped; outside a switch _send waits on the current queue or is writing.
LoopInv ==
    \A s \in Socket :
        /\ conn[s] # "open" => room[s] = Lobby /\ recv[s] = "idle" /\ sender[s] = "off"
        /\ conn[s] = "closed" => screen[s] = {}
        /\ recv[s] = "checked" => arg[s] \in MayRead[s]
        /\ recv[s] = "swapped" => arg[s] = room[s]
        /\ recv[s] = "stored" => arg[s] \in Post
        /\ conn[s] = "open" => sender[s] # "off"
        /\ Settled(s) => sender[s] \in {"now", "busy"}
        /\ room[s] \in MayRead[s]

\* Besides the sentinel and announcements, a queue holds posts of the room its
\* socket is in, and one left behind those of a room its user may read.
QueueInv ==
    \A s \in Socket :
        /\ \A m \in RangeOf(queues[Current(s)]) : m \in Post => m.room = room[s]
        /\ \A m \in RangeOf(queues[Left(s)]) : m \in Post => m.room \in MayRead[s]

Inv == TypeOK /\ LoopInv /\ QueueInv /\ SubscribersAreLive /\ SenderIsWoken /\ OneRoomOnScreen

USE ChatAssumption, PayloadAssumption DEF Queue

-----------------------------------------------------------------------------

\* Nobody is connected at first.
LEMMA InitInv == Init => Inv
  <1> SUFFICES ASSUME Init PROVE Inv
    OBVIOUS
  <1>1. TypeOK
    BY DEF Init, TypeOK
  <1>2. LoopInv
    BY DEF Init, LoopInv, Settled
  <1>3. QueueInv
    BY DEF Init, QueueInv, RangeOf, Current, Left
  <1>4. SubscribersAreLive
    BY DEF Init, SubscribersAreLive, Holders
  <1>5. SenderIsWoken
    BY DEF Init, SenderIsWoken
  <1>6. OneRoomOnScreen
    BY DEF Init, OneRoomOnScreen, Settled
  <1> QED
    BY <1>1, <1>2, <1>3, <1>4, <1>5, <1>6 DEF Inv

LEMMA EmptyHolds == RangeOf(<<>>) = {} /\ Len(<<>>) = 0 /\ Len(<<>>) <= MaxQueued
  BY DEF RangeOf

\* What a shorter, a longer and an empty queue hold.
LEMMA TailHolds ==
    ASSUME NEW q \in Seq(Message), q # <<>>
    PROVE  /\ Tail(q) \in Seq(Message) /\ Head(q) \in RangeOf(q)
           /\ Len(Tail(q)) <= Len(q)
           /\ RangeOf(Tail(q)) \subseteq RangeOf(q)
  <1>1. /\ Tail(q) \in Seq(Message) /\ Len(q) > 0 /\ Len(Tail(q)) = Len(q) - 1
        /\ \A i \in 1..Len(q) - 1 : Tail(q)[i] = q[i + 1]
    OBVIOUS
  <1>2. RangeOf(Tail(q)) \subseteq RangeOf(q)
    BY <1>1 DEF RangeOf
  <1>3. Head(q) \in RangeOf(q)
    BY <1>1 DEF RangeOf
  <1> QED
    BY <1>1, <1>2, <1>3

LEMMA AppendHolds ==
    ASSUME NEW q \in Seq(Message), NEW p \in Message
    PROVE  /\ Append(q, p) \in Seq(Message) /\ Append(q, p) # <<>>
           /\ Len(Append(q, p)) = Len(q) + 1
           /\ RangeOf(Append(q, p)) = RangeOf(q) \cup {p}
  <1>1. /\ Append(q, p) \in Seq(Message) /\ Len(Append(q, p)) = Len(q) + 1
        /\ \A i \in 1..Len(q) : Append(q, p)[i] = q[i]
        /\ Append(q, p)[Len(q) + 1] = p
    OBVIOUS
  <1>2. RangeOf(Append(q, p)) = RangeOf(q) \cup {p}
    <2>1. DOMAIN Append(q, p) = 1..(Len(q) + 1) /\ DOMAIN q = 1..Len(q) /\ Len(q) \in Nat
      BY <1>1
    <2>2. RangeOf(Append(q, p)) \subseteq RangeOf(q) \cup {p}
      BY <1>1, <2>1 DEF RangeOf
    <2>3. RangeOf(q) \cup {p} \subseteq RangeOf(Append(q, p))
      BY <1>1, <2>1 DEF RangeOf
    <2> QED
      BY <2>2, <2>3
  <1> QED
    BY <1>1, <1>2

\* What offering does to a queue.
LEMMA OfferedHolds ==
    ASSUME TypeOK, SenderIsWoken, NEW p \in Payload, NEW Q \in SUBSET Queue
    PROVE  /\ Offered(p, Q) \in [Queue -> Seq(Message)]
           /\ \A q \in Queue :
                 /\ Len(Offered(p, Q)[q]) <= MaxQueued
                 /\ queues[q] # <<>> => Offered(p, Q)[q] # <<>>
                 /\ RangeOf(Offered(p, Q)[q]) \subseteq RangeOf(queues[q]) \cup {p}
                 /\ q \notin Q => Offered(p, Q)[q] = queues[q]
  <1> SUFFICES ASSUME NEW q \in Queue
               PROVE  /\ Offered(p, Q)[q] \in Seq(Message)
                      /\ Len(Offered(p, Q)[q]) <= MaxQueued
                      /\ queues[q] # <<>> => Offered(p, Q)[q] # <<>>
                      /\ RangeOf(Offered(p, Q)[q]) \subseteq RangeOf(queues[q]) \cup {p}
                      /\ q \notin Q => Offered(p, Q)[q] = queues[q]
    BY DEF Offered
  <1>1. /\ queues[q] \in Seq(Message) /\ Len(queues[q]) <= MaxQueued
        /\ p \in Message
    BY DEF TypeOK, Message, SenderIsWoken
  <1>2. CASE q \in Q /\ ~Full(q)
    <2>1. Offered(p, Q)[q] = Append(queues[q], p)
      BY <1>2 DEF Offered
    <2>2. Len(queues[q]) < MaxQueued
      BY <1>1, <1>2 DEF Full
    <2> QED
      BY <1>1, <1>2, <2>1, <2>2, AppendHolds
  <1>3. CASE ~(q \in Q /\ ~Full(q))
    BY <1>1, <1>3 DEF Offered
  <1> QED
    BY <1>2, <1>3

-----------------------------------------------------------------------------
(* A connection's life *)

\* Connect, Join and what undoes them touch one socket, its queues and its room.
LEMMA ConnectStep ==
    ASSUME Inv, NEW s \in Socket, Connect(s)
    PROVE  Inv'
  <1> USE DEF Inv, Connect
  <1>1. TypeOK'
    BY DEF TypeOK, db, Current
  <1>2. room[s] = Lobby /\ recv[s] = "idle" /\ sender[s] = "off" /\ screen[s] = {}
    BY DEF LoopInv
  <1>3. LoopInv'
    BY <1>2 DEF LoopInv, Settled, TypeOK
  <1>4. QueueInv'
    BY DEF QueueInv, Current, Left
  <1>5. SubscribersAreLive'
    BY <1>2 DEF SubscribersAreLive, Holders, Current, TypeOK
  <1>6. SenderIsWoken'
    BY DEF SenderIsWoken
  <1>7. OneRoomOnScreen'
    BY <1>2 DEF OneRoomOnScreen, Settled, TypeOK
  <1> QED
    BY <1>1, <1>3, <1>4, <1>5, <1>6, <1>7

\* A history is of one room.
LEMMA HistoryHolds ==
    ASSUME TypeOK, NEW r \in Room
    PROVE  Recent(r) \subseteq Post /\ \A m \in Recent(r) : m.room = r
  BY DEF TypeOK, Recent

LEMMA JoinStep ==
    ASSUME Inv, NEW s \in Socket, Join(s)
    PROVE  Inv'
  <1> USE DEF Inv, Join, Shows
  <1>1. Recent(Lobby) \subseteq Post /\ \A m \in Recent(Lobby) : m.room = Lobby
    BY HistoryHolds
  <1>2. TypeOK'
    BY <1>1 DEF TypeOK, db, Payload
  <1>3. room[s] = Lobby /\ recv[s] = "idle" /\ Lobby \in MayRead[s]
    BY DEF LoopInv
  <1>4. LoopInv'
    BY <1>3 DEF LoopInv, Settled, TypeOK
  <1>5. QueueInv'
    BY DEF QueueInv, Current, Left
  <1>6. SubscribersAreLive'
    BY DEF SubscribersAreLive, Holders, Current, TypeOK
  <1>7. SenderIsWoken'
    BY DEF SenderIsWoken, TypeOK
  <1>8. OneRoomOnScreen'
    BY <1>1, <1>3 DEF OneRoomOnScreen, Settled, TypeOK
  <1> QED
    BY <1>2, <1>4, <1>5, <1>6, <1>7, <1>8

LEMMA DownStep ==
    ASSUME Inv, NEW s \in Socket, conn[s] # "closed", Down(s)
    PROVE  Inv'
  <1> USE DEF Inv, Down
  <1>1. TypeOK'
    <2>1. recv[s] = "stored" => arg[s] \in Post
      BY DEF LoopInv
    <2>2. queues' \in [Queue -> Seq(Message)]
      BY DEF TypeOK, Message
    <2> QED
      BY <2>1, <2>2 DEF TypeOK, Message
  <1>2. LoopInv'
    BY DEF LoopInv, Settled, TypeOK
  <1>3. QueueInv'
    <2>1. \A q \in Queue : queues'[q] = IF q[1] = s THEN <<>> ELSE queues[q]
      OBVIOUS
    <2>2. ASSUME NEW q \in Queue PROVE RangeOf(queues'[q]) \subseteq RangeOf(queues[q])
      <3>1. CASE q[1] = s
        <4>1. queues'[q] = <<>>
          BY <2>1, <3>1
        <4> QED
          BY <4>1, EmptyHolds
      <3>2. CASE q[1] # s
        BY <2>1, <3>2
      <3> QED
        BY <3>1, <3>2
    <2>3. \A t \in Socket : t # s => room'[t] = room[t]
      BY DEF TypeOK
    <2>4. queues'[Current(s)] = <<>> /\ Current(s) \in Queue /\ Left(s) \in Queue
      BY <2>1 DEF Current, Left
    <2>5. ASSUME NEW t \in Socket
          PROVE  /\ RangeOf(queues'[Current(t)]) \subseteq RangeOf(queues[Current(t)])
                 /\ RangeOf(queues'[Left(t)]) \subseteq RangeOf(queues[Left(t)])
      BY <2>2 DEF Current, Left
    <2>6. RangeOf(queues'[Current(s)]) = {}
      BY <2>4, EmptyHolds
    <2>7. \A t \in Socket : Current(t)' = Current(t) /\ Left(t)' = Left(t)
      BY DEF Current, Left
    <2> HIDE DEF Down
    <2> QED
      BY <2>3, <2>5, <2>6, <2>7 DEF QueueInv
  <1>4. SubscribersAreLive'
    <2> SUFFICES ASSUME NEW r \in Room
                 PROVE  subscribers'[r] = {<<t, "now">> : t \in {u \in Socket : conn'[u] # "closed" /\ room'[u] = r}}
      BY DEF SubscribersAreLive, Holders, Current
    <2>1. subscribers[r] = {<<t, "now">> : t \in {u \in Socket : conn[u] # "closed" /\ room[u] = r}}
      BY DEF SubscribersAreLive, Holders, Current
    <2>2. subscribers'[r] = subscribers[r] \ {<<s, "now">>}
      BY <2>1 DEF Current, TypeOK
    <2>3. \A t \in Socket \ {s} : conn'[t] = conn[t] /\ room'[t] = room[t]
      BY DEF TypeOK
    <2>4. conn'[s] = "closed"
      BY DEF TypeOK
    <2> QED
      BY <2>1, <2>2, <2>3, <2>4
  <1>5. SenderIsWoken'
    <2>1. \A q \in Queue : queues'[q] \in {queues[q], <<>>} /\ (q[1] # s => queues'[q] = queues[q])
      OBVIOUS
    <2>2. ASSUME NEW t \in Socket, sender'[t] = "left"
          PROVE  queues'[Left(t)] # <<>> /\ recv'[t] = "swapped"
      <3>1. t # s /\ sender[t] = "left" /\ recv'[t] = recv[t]
        BY <2>2 DEF TypeOK
      <3>2. Left(t) \in Queue /\ Left(t)[1] = t
        BY DEF Left
      <3> QED
        BY <2>1, <3>1, <3>2 DEF SenderIsWoken
    <2>3. \A q \in Queue : Len(queues'[q]) <= MaxQueued
      BY <2>1, EmptyHolds DEF SenderIsWoken
    <2>4. \A t \in Socket : Left(t)' = Left(t)
      BY DEF Left
    <2> HIDE DEF Down
    <2> QED
      BY <2>2, <2>3, <2>4 DEF SenderIsWoken
  <1>6. OneRoomOnScreen'
    BY DEF OneRoomOnScreen, Settled, TypeOK
  <1> QED
    BY <1>1, <1>2, <1>3, <1>4, <1>5, <1>6

-----------------------------------------------------------------------------
(* The loops *)

LEMMA CheckStep ==
    ASSUME Inv, NEW s \in Socket, NEW r \in Room, Check(s, r)
    PROVE  Inv'
  <1> USE DEF Inv, Check
  <1>1. TypeOK'
    BY DEF TypeOK, db
  <1>2. LoopInv'
    BY DEF LoopInv, Settled, TypeOK
  <1>3. QueueInv' /\ SenderIsWoken'
    BY DEF QueueInv, SenderIsWoken, Current, Left, TypeOK
  <1>4. SubscribersAreLive'
    BY DEF SubscribersAreLive, Holders, Current
  <1>5. OneRoomOnScreen'
    BY DEF OneRoomOnScreen, Settled, TypeOK
  <1> QED
    BY <1>1, <1>2, <1>3, <1>4, <1>5

\* The one step that moves a socket: its old queue is emptied, left as it is, or
\* given the sentinel, so that a _send that waits on it has something to read.
LEMMA SwapStep ==
    ASSUME Inv, NEW s \in Socket, Swap(s)
    PROVE  Inv'
  <1> DEFINE old == Current(s)
             behind == Left(s)
             left == IF sender[s] = "now"
                     THEN IF Full(old) THEN queues[old] ELSE Append(queues[old], Wake)
                     ELSE <<>>
  <1> USE DEF Inv
  <1>1. /\ conn[s] = "open" /\ recv[s] = "checked"
        /\ subscribers' = Resubscribed(s)
        /\ room' = [room EXCEPT ![s] = arg[s]]
        /\ queues' = [queues EXCEPT ![behind] = left, ![old] = <<>>]
        /\ sender' = [sender EXCEPT ![s] = IF @ = "now" THEN "left" ELSE @]
        /\ recv' = [recv EXCEPT ![s] = "swapped"]
        /\ UNCHANGED <<posts, channels, broadcasts, unsent, standing, conn, arg, screen, dropped>>
    BY DEF Swap, Leave, StillRead, db
  <1>2. arg[s] \in Room /\ arg[s] \in MayRead[s] /\ room[s] \in Room /\ room[s] \in MayRead[s]
    BY <1>1 DEF LoopInv, TypeOK
  <1>3. /\ old \in Queue /\ behind \in Queue /\ old # behind
        /\ \A t \in Socket \ {s} : {Current(t), Left(t)} \subseteq Queue \ {old, behind}
        /\ \A t \in Socket : Current(t)' = Current(t) /\ Left(t)' = Left(t)
    BY DEF Current, Left
  <1>4. /\ left \in Seq(Message) /\ Len(left) <= MaxQueued
        /\ sender[s] = "now" => left # <<>>
        /\ RangeOf(left) \subseteq RangeOf(queues[old]) \cup {Wake}
    <2>1. queues[old] \in Seq(Message) /\ Len(queues[old]) <= MaxQueued /\ Wake \in Message
      BY <1>3 DEF TypeOK, Message, SenderIsWoken
    <2>2. CASE sender[s] # "now"
      BY <2>2 DEF RangeOf
    <2>3. CASE sender[s] = "now" /\ Full(old)
      BY <2>1, <2>3 DEF Full
    <2>4. CASE sender[s] = "now" /\ ~Full(old)
      <3>1. left = Append(queues[old], Wake)
        BY <2>4
      <3>2. Len(queues[old]) < MaxQueued
        BY <2>1, <2>4 DEF Full
      <3> HIDE DEF left, old
      <3>3. /\ Append(queues[old], Wake) \in Seq(Message) /\ Append(queues[old], Wake) # <<>>
            /\ Len(Append(queues[old], Wake)) = Len(queues[old]) + 1
            /\ RangeOf(Append(queues[old], Wake)) = RangeOf(queues[old]) \cup {Wake}
        BY <2>1, AppendHolds
      <3> QED
        BY <2>1, <3>1, <3>2, <3>3
    <2> QED
      BY <2>2, <2>3, <2>4
  <1> HIDE DEF left, old, behind
  <1>5. /\ queues' \in [Queue -> Seq(Message)]
        /\ queues'[behind] = left /\ queues'[old] = <<>>
        /\ \A q \in Queue \ {old, behind} : queues'[q] = queues[q]
    <2>1. queues \in [Queue -> Seq(Message)] /\ <<>> \in Seq(Message) /\ left \in Seq(Message)
      BY <1>4 DEF TypeOK, Message
    <2> QED
      BY <1>1, <1>3, <2>1
  <1>6. /\ \A t \in Socket \ {s} : /\ conn'[t] = conn[t] /\ room'[t] = room[t]
                                   /\ recv'[t] = recv[t] /\ sender'[t] = sender[t]
        /\ room'[s] = arg[s] /\ conn'[s] = "open" /\ recv'[s] = "swapped"
        /\ sender'[s] = IF sender[s] = "now" THEN "left" ELSE sender[s]
    BY <1>1 DEF TypeOK
  <1>7. sender[s] # "left"
    BY <1>1 DEF SenderIsWoken
  <1>8. SubscribersAreLive'
    <2> SUFFICES ASSUME NEW r \in Room
                 PROVE  subscribers'[r] = {<<t, "now">> : t \in {u \in Socket : conn'[u] # "closed" /\ room'[u] = r}}
      BY DEF SubscribersAreLive, Holders, Current
    <2> DEFINE there == {IF q = <<s, "now">> THEN <<s, "left">> ELSE q : q \in subscribers[r]}
               others == {<<t, "now">> : t \in {u \in Socket \ {s} : conn[u] # "closed" /\ room[u] = r}}
    <2>1. subscribers[r] = {<<t, "now">> : t \in {u \in Socket : conn[u] # "closed" /\ room[u] = r}}
      BY DEF SubscribersAreLive, Holders, Current
    <2>2. subscribers'[r] = (IF r = arg[s] THEN there \cup {<<s, "now">>} ELSE there)
                               \ (IF r = room[s] THEN {<<s, "left">>} ELSE {})
      BY <1>1 DEF Resubscribed, Current, Left
    <2>3. there = others \cup (IF r = room[s] THEN {<<s, "left">>} ELSE {})
      BY <1>1, <2>1
    <2>4. <<s, "left">> \notin others
      OBVIOUS
    <2>5. subscribers'[r] = others \cup (IF r = arg[s] THEN {<<s, "now">>} ELSE {})
      <3> HIDE DEF there, others
      <3> QED
        BY <2>2, <2>3, <2>4
    <2> QED
      BY <1>6, <2>5
  <1>9. TypeOK'
    <2>1. subscribers' \in [Room -> SUBSET Queue]
      <3>1. \A r \in Room : subscribers'[r] \subseteq Queue
        BY <1>8 DEF SubscribersAreLive, Holders, Current
      <3>2. subscribers' = [r \in Room |-> subscribers'[r]]
        BY <1>1 DEF Resubscribed
      <3> QED
        BY <3>1, <3>2
    <2>2. sender' \in [Socket -> {"now", "left", "busy", "off"}]
      BY <1>1 DEF TypeOK
    <2> QED
      BY <1>1, <1>2, <1>5, <2>1, <2>2 DEF TypeOK, Message
  <1>10. LoopInv'
    BY <1>1, <1>2, <1>6 DEF LoopInv, Settled, TypeOK
  <1>11. QueueInv'
    <2>1. ASSUME NEW t \in Socket \ {s}
          PROVE  /\ queues'[Current(t)] = queues[Current(t)] /\ queues'[Left(t)] = queues[Left(t)]
                 /\ room'[t] = room[t]
      BY <1>3, <1>5, <1>6
    <2>2. RangeOf(queues'[Current(s)]) = {}
      BY <1>5, EmptyHolds DEF old
    <2>3. \A m \in RangeOf(queues'[Left(s)]) : m \in Post => m.room \in MayRead[s]
      BY <1>2, <1>4, <1>5 DEF QueueInv, old, behind
    <2> QED
      BY <1>3, <2>1, <2>2, <2>3 DEF QueueInv
  <1>12. SenderIsWoken'
    <2>1. ASSUME NEW t \in Socket, sender'[t] = "left"
          PROVE  queues'[Left(t)] # <<>> /\ recv'[t] = "swapped"
      <3>1. CASE t = s
        BY <1>4, <1>5, <1>6, <1>7, <2>1, <3>1 DEF behind
      <3>2. CASE t # s
        BY <1>3, <1>5, <1>6, <2>1, <3>2 DEF SenderIsWoken
      <3> QED
        BY <3>1, <3>2
    <2>2. \A q \in Queue : Len(queues'[q]) <= MaxQueued
      BY <1>3, <1>4, <1>5, EmptyHolds DEF SenderIsWoken
    <2> QED
      BY <1>3, <2>1, <2>2 DEF SenderIsWoken
  <1>13. OneRoomOnScreen'
    BY <1>1, <1>6 DEF OneRoomOnScreen, Settled
  <1> QED
    BY <1>8, <1>9, <1>10, <1>11, <1>12, <1>13

\* The history of the room swapped to.  _send cannot be on another queue: it
\* would have something to read there, and would have read it (SenderFirst).
LEMMA HistoryStep ==
    ASSUME Inv, NEW s \in Socket, History(s)
    PROVE  Inv'
  <1> USE DEF Inv, History, Shows
  <1>1. arg[s] = room[s] /\ room[s] \in Room /\ room[s] \in MayRead[s]
    BY DEF LoopInv, TypeOK
  <1>2. Recent(arg[s]) \subseteq Post /\ \A m \in Recent(arg[s]) : m.room = arg[s]
    BY <1>1, HistoryHolds
  <1>3. sender[s] \in {"now", "busy", "off"}
    BY DEF SenderFirst, SenderIsWoken, TypeOK
  <1>4. TypeOK'
    BY <1>2 DEF TypeOK, db, Payload
  <1>5. LoopInv'
    <2>1. sender[s] # "off"
      BY DEF LoopInv
    <2> QED
      BY <1>1, <1>3, <2>1 DEF LoopInv, Settled, TypeOK
  <1>6. QueueInv' /\ SenderIsWoken'
    BY <1>3 DEF QueueInv, SenderIsWoken, Current, Left, TypeOK
  <1>7. SubscribersAreLive'
    BY DEF SubscribersAreLive, Holders, Current
  <1>8. OneRoomOnScreen'
    BY <1>1, <1>2 DEF OneRoomOnScreen, Settled, TypeOK
  <1> QED
    BY <1>4, <1>5, <1>6, <1>7, <1>8

LEMMA StoreStep ==
    ASSUME Inv, NEW s \in Socket, Store(s)
    PROVE  Inv'
  <1> USE DEF Inv
  <1>1. PICK m \in Post :
            /\ posts' \in {posts, posts \cup {m}}
            /\ arg' = [arg EXCEPT ![s] = m]
    <2> DEFINE m == [id |-> IF standing[s] = "gone" THEN 0 ELSE broadcasts + 1, room |-> room[s], by |-> s]
    <2>1. m \in Post
      BY DEF Store, Post, TypeOK
    <2>2. posts' \in {posts, posts \cup {m}} /\ arg' = [arg EXCEPT ![s] = m]
      BY DEF Store
    <2> QED
      BY <2>1, <2>2
  <1>2. /\ conn[s] = "open" /\ recv[s] = "idle"
        /\ recv' = [recv EXCEPT ![s] = "stored"]
        /\ broadcasts' = broadcasts + 1 /\ broadcasts < MaxBroadcasts
        /\ UNCHANGED <<channels, unsent, standing, conn, room, sender, queues, subscribers, screen, dropped>>
    BY DEF Store
  <1>3. TypeOK'
    <2>1. broadcasts' \in 0..MaxBroadcasts
      BY <1>2 DEF TypeOK
    <2> QED
      BY <1>1, <1>2, <2>1 DEF TypeOK
  <1>4. LoopInv'
    BY <1>1, <1>2 DEF LoopInv, Settled, TypeOK
  <1>5. QueueInv' /\ SenderIsWoken'
    BY <1>2 DEF QueueInv, SenderIsWoken, Current, Left, TypeOK
  <1>6. SubscribersAreLive'
    BY <1>2 DEF SubscribersAreLive, Holders, Current
  <1>7. OneRoomOnScreen'
    BY <1>2 DEF OneRoomOnScreen, Settled, TypeOK
  <1> QED
    BY <1>3, <1>4, <1>5, <1>6, <1>7

\* Whatever is offered to queues of its own room, or has none, belongs there.
LEMMA OfferStep ==
    ASSUME Inv, NEW p \in Payload, NEW Q \in SUBSET Queue,
           p \in Post => \A t \in Socket :
                            /\ Left(t) \notin Q
                            /\ Current(t) \in Q => room[t] = p.room,
           queues' = Offered(p, Q),
           UNCHANGED <<room, sender>>,
           \A t \in Socket : recv[t] = "swapped" => recv'[t] = "swapped"
    PROVE  queues' \in [Queue -> Seq(Message)] /\ QueueInv' /\ SenderIsWoken'
  <1> USE DEF Inv
  <1>1. /\ queues' \in [Queue -> Seq(Message)]
        /\ \A q \in Queue :
              /\ Len(queues'[q]) <= MaxQueued
              /\ queues[q] # <<>> => queues'[q] # <<>>
              /\ RangeOf(queues'[q]) \subseteq RangeOf(queues[q]) \cup {p}
              /\ q \notin Q => queues'[q] = queues[q]
    <2>1. TypeOK /\ SenderIsWoken
      OBVIOUS
    <2>2. Offered(p, Q) \in [Queue -> Seq(Message)]
      BY <2>1, OfferedHolds
    <2>3. \A q \in Queue :
             /\ Len(Offered(p, Q)[q]) <= MaxQueued
             /\ queues[q] # <<>> => Offered(p, Q)[q] # <<>>
      BY <2>1, OfferedHolds
    <2>4. \A q \in Queue : RangeOf(Offered(p, Q)[q]) \subseteq RangeOf(queues[q]) \cup {p}
      BY <2>1, OfferedHolds
    <2>5. \A q \in Queue : q \notin Q => Offered(p, Q)[q] = queues[q]
      BY <2>1, OfferedHolds
    <2> QED
      BY <2>2, <2>3, <2>4, <2>5
  <1>2. QueueInv'
    <2> SUFFICES ASSUME NEW t \in Socket
                 PROVE  /\ \A m \in RangeOf(queues'[Current(t)]) : m \in Post => m.room = room[t]
                        /\ \A m \in RangeOf(queues'[Left(t)]) : m \in Post => m.room \in MayRead[t]
      BY DEF QueueInv, Current, Left
    <2>1. Current(t) \in Queue /\ Left(t) \in Queue
      BY DEF Current, Left
    <2>2. ASSUME NEW m \in RangeOf(queues'[Current(t)]), m \in Post PROVE m.room = room[t]
      <3>1. CASE m \in RangeOf(queues[Current(t)])
        BY <2>2, <3>1 DEF QueueInv
      <3>2. CASE m \notin RangeOf(queues[Current(t)])
        <4>1. m = p /\ Current(t) \in Q
          BY <1>1, <2>1, <2>2, <3>2
        <4> QED
          BY <2>2, <4>1
      <3> QED
        BY <3>1, <3>2
    <2>3. ASSUME NEW m \in RangeOf(queues'[Left(t)]), m \in Post PROVE m.room \in MayRead[t]
      <3>1. CASE m \in RangeOf(queues[Left(t)])
        BY <2>3, <3>1 DEF QueueInv
      <3>2. CASE m \notin RangeOf(queues[Left(t)])
        <4>1. m = p /\ Left(t) \in Q
          BY <1>1, <2>1, <2>3, <3>2
        <4> QED
          BY <2>3, <4>1
      <3> QED
        BY <3>1, <3>2
    <2> QED
      BY <2>2, <2>3
  <1>3. SenderIsWoken'
    <2>1. \A t \in Socket : Left(t) \in Queue /\ Left(t)' = Left(t)
      BY DEF Left
    <2> QED
      BY <1>1, <2>1 DEF SenderIsWoken
  <1> QED
    BY <1>1, <1>2, <1>3

LEMMA DeliverStep ==
    ASSUME Inv, NEW s \in Socket, Deliver(s)
    PROVE  Inv'
  <1> USE DEF Inv, Deliver
  <1>1. arg[s] \in Post /\ arg[s].room \in Room
    BY DEF LoopInv, Post
  <1> DEFINE Q == subscribers[arg[s].room]
  <1>2. \A t \in Socket : Left(t) \notin Q /\ (Current(t) \in Q => room[t] = arg[s].room)
    BY <1>1 DEF SubscribersAreLive, Holders, Current, Left
  <1>3. queues' \in [Queue -> Seq(Message)] /\ QueueInv' /\ SenderIsWoken'
    <2>1. Q \in SUBSET Queue /\ arg[s] \in Payload /\ queues' = Offered(arg[s], Q)
      BY <1>1 DEF TypeOK, Payload
    <2>2. \A t \in Socket : recv[t] = "swapped" => recv'[t] = "swapped"
      BY DEF TypeOK
    <2>3. UNCHANGED <<room, sender>>
      OBVIOUS
    <2> HIDE DEF Q, Deliver
    <2> QED
      BY <1>2, <2>1, <2>2, <2>3, OfferStep
  <1>4. dropped' \in [Socket -> SUBSET Post]
    BY <1>1 DEF TypeOK
  <1>5. TypeOK'
    BY <1>3, <1>4 DEF TypeOK, db, Message
  <1>6. LoopInv'
    BY DEF LoopInv, Settled, TypeOK
  <1>7. SubscribersAreLive'
    BY DEF SubscribersAreLive, Holders, Current
  <1>8. OneRoomOnScreen'
    BY DEF OneRoomOnScreen, Settled, TypeOK
  <1> QED
    BY <1>3, <1>5, <1>6, <1>7, <1>8

\* What _send reads off a queue is of the queue's room; outside a switch that is
\* the room on the screen, and always one the user may read.
LEMMA TakeStep ==
    ASSUME Inv, NEW s \in Socket, Take(s)
    PROVE  Inv'
  <1> DEFINE q == <<s, sender[s]>>
             m == Head(queues[q])
  <1> USE DEF Inv
  <1>1. /\ conn[s] = "open" /\ sender[s] \in {"now", "left"} /\ q \in Queue
        /\ queues[q] # <<>> /\ queues[q] \in Seq(Message) /\ Len(queues[q]) <= MaxQueued
    BY DEF Take, TypeOK, Message, SenderIsWoken
  <1>2. /\ queues' = [queues EXCEPT ![q] = IF sender[s] = "now" THEN Tail(@) ELSE <<>>]
        /\ \/ m = Wake /\ sender' = [sender EXCEPT ![s] = "now"] /\ UNCHANGED screen
           \/ /\ m # Wake /\ sender' = [sender EXCEPT ![s] = "busy"]
              /\ screen' = [screen EXCEPT ![s] = @ \cup {m}]
        /\ UNCHANGED <<posts, channels, broadcasts, unsent, standing, conn, room, recv, arg, subscribers, dropped>>
    BY DEF Take, db, loops
  <1>3. /\ Tail(queues[q]) \in Seq(Message) /\ m \in RangeOf(queues[q])
        /\ Len(Tail(queues[q])) <= MaxQueued
        /\ RangeOf(Tail(queues[q])) \subseteq RangeOf(queues[q])
    <2>1. Len(Tail(queues[q])) \in Nat /\ Len(queues[q]) \in Nat
      BY <1>1
    <2>2. /\ Tail(queues[q]) \in Seq(Message) /\ m \in RangeOf(queues[q])
          /\ Len(Tail(queues[q])) <= Len(queues[q])
          /\ RangeOf(Tail(queues[q])) \subseteq RangeOf(queues[q])
      BY <1>1, TailHolds
    <2>3. ASSUME NEW x \in Nat, NEW y \in Nat, x <= y, y <= MaxQueued PROVE x <= MaxQueued
      BY <2>3
    <2> HIDE DEF q, m
    <2> QED
      BY <1>1, <2>1, <2>2, <2>3
  <1>4. /\ m \in Message
        /\ m \in Post => m.room \in MayRead[s] /\ (sender[s] = "now" => m.room = room[s])
    <2>1. m \in Message
      BY <1>1, <1>3 DEF RangeOf
    <2>2. sender[s] = "now" => q = Current(s)
      BY DEF Current
    <2>3. sender[s] = "left" => q = Left(s)
      BY DEF Left
    <2> HIDE DEF q, m
    <2> QED
      BY <1>1, <1>3, <2>1, <2>2, <2>3 DEF QueueInv, LoopInv
  <1> HIDE DEF q, m
  <1>5. PICK rest \in Seq(Message) :
            /\ queues' = [queues EXCEPT ![q] = rest]
            /\ Len(rest) <= MaxQueued /\ RangeOf(rest) \subseteq RangeOf(queues[q])
    <2>1. CASE sender[s] = "now"
      <3>1. queues' = [queues EXCEPT ![q] = Tail(queues[q])]
        BY <1>2, <2>1
      <3> QED
        BY <1>3, <3>1
    <2>2. CASE sender[s] # "now"
      <3>1. queues' = [queues EXCEPT ![q] = <<>>]
        BY <1>2, <2>2
      <3>2. <<>> \in Seq(Message)
        OBVIOUS
      <3> QED
        BY <3>1, <3>2, EmptyHolds
    <2> QED
      BY <2>1, <2>2
  <1>6. /\ queues' \in [Queue -> Seq(Message)] /\ queues'[q] = rest
        /\ \A p \in Queue \ {q} : queues'[p] = queues[p]
    BY <1>1, <1>5 DEF TypeOK, Message
  <1>7. room[s] \in Room
    BY DEF TypeOK
  <1>8. TypeOK'
    <2>1. m # Wake => m \in Payload
      BY <1>4 DEF Message
    <2>2. sender' \in [Socket -> {"now", "left", "busy", "off"}] /\ screen' \in [Socket -> SUBSET Payload]
      <3>1. sender \in [Socket -> {"now", "left", "busy", "off"}] /\ screen \in [Socket -> SUBSET Payload]
        BY DEF TypeOK
      <3>2. CASE m = Wake
        BY <1>2, <1>7, <3>1, <3>2
      <3>3. CASE m # Wake
        <4>1. sender' = [sender EXCEPT ![s] = "busy"] /\ screen' = [screen EXCEPT ![s] = @ \cup {m}]
          BY <1>2, <3>3
        <4> HIDE DEF Payload
        <4> QED
          BY <2>1, <3>1, <3>3, <4>1
      <3> QED
        BY <3>2, <3>3
    <2> QED
      BY <1>2, <1>6, <2>2 DEF TypeOK, Message
  <1>9. LoopInv'
    <2>1. sender \in [Socket -> {"now", "left", "busy", "off"}] /\ screen \in [Socket -> SUBSET Payload]
      BY DEF TypeOK
    <2>2. sender'[s] \in {"now", "busy"} /\ \A t \in Socket \ {s} : sender'[t] = sender[t]
      BY <1>2, <2>1
    <2>3. \A t \in Socket \ {s} : screen'[t] = screen[t]
      BY <1>2, <2>1
    <2> QED
      BY <1>1, <1>2, <2>1, <2>2, <2>3 DEF LoopInv, Settled
  <1>10. QueueInv'
    <2>1. \A p \in Queue : RangeOf(queues'[p]) \subseteq RangeOf(queues[p])
      BY <1>5, <1>6
    <2>2. /\ \A t \in Socket : Current(t) \in Queue /\ Left(t) \in Queue
          /\ \A t \in Socket : Current(t)' = Current(t) /\ Left(t)' = Left(t)
      BY DEF Current, Left
    <2> HIDE DEF Queue
    <2> QED
      BY <1>2, <2>1, <2>2 DEF QueueInv
  <1>11. SubscribersAreLive'
    BY <1>2 DEF SubscribersAreLive, Holders, Current
  <1>12. SenderIsWoken'
    <2>1. ASSUME NEW t \in Socket, sender'[t] = "left"
          PROVE  queues'[Left(t)] # <<>> /\ recv'[t] = "swapped"
      <3>1. t # s /\ sender[t] = "left"
        BY <1>2, <2>1 DEF TypeOK
      <3>2. Left(t) # q /\ Left(t) \in Queue
        BY <3>1 DEF q, Left
      <3> QED
        BY <1>2, <1>6, <2>1, <3>1, <3>2 DEF SenderIsWoken
    <2>2. \A p \in Queue : Len(queues'[p]) <= MaxQueued
      BY <1>5, <1>6 DEF SenderIsWoken
    <2>3. \A t \in Socket : Left(t)' = Left(t)
      BY DEF Left
    <2> QED
      BY <2>1, <2>2, <2>3 DEF SenderIsWoken
  <1>13. OneRoomOnScreen'
    <2>1. CASE m = Wake
      BY <1>2, <2>1 DEF OneRoomOnScreen, Settled
    <2>2. CASE m # Wake
      <3>1. \/ m = Announcement
            \/ m \in Post /\ m.room \in MayRead[s] /\ (sender[s] = "now" => m.room = room[s])
        BY <1>4, <2>2 DEF Message, Payload
      <3>2. Settled(s) => sender[s] = "now"
        BY <1>1 DEF LoopInv
      <3>3. screen' = [screen EXCEPT ![s] = @ \cup {m}]
        BY <1>2, <2>2
      <3> QED
        BY <1>2, <3>1, <3>2, <3>3 DEF OneRoomOnScreen, Settled, TypeOK
    <2> QED
      BY <2>1, <2>2
  <1> QED
    BY <1>8, <1>9, <1>10, <1>11, <1>12, <1>13

LEMMA WrittenStep ==
    ASSUME Inv, NEW s \in Socket, Written(s)
    PROVE  Inv'
  <1> USE DEF Inv, Written
  <1>1. room[s] \in Room
    BY DEF TypeOK
  <1>2. TypeOK'
    BY <1>1 DEF TypeOK, db, loops
  <1>3. LoopInv'
    BY <1>1 DEF LoopInv, Settled, TypeOK, loops
  <1>4. QueueInv' /\ SubscribersAreLive'
    BY DEF QueueInv, SubscribersAreLive, Holders, Current, Left, loops
  <1>5. SenderIsWoken'
    BY DEF SenderIsWoken, Left, TypeOK, loops
  <1>6. OneRoomOnScreen'
    BY DEF OneRoomOnScreen, Settled, loops
  <1> QED
    BY <1>2, <1>3, <1>4, <1>5, <1>6

-----------------------------------------------------------------------------
(* Requests beside the sockets *)

LEMMA AnnounceStep ==
    ASSUME Inv, Announce
    PROVE  Inv'
  <1> USE DEF Inv, Announce
  <1>1. queues' \in [Queue -> Seq(Message)] /\ QueueInv' /\ SenderIsWoken'
    <2>1. UNION {subscribers[r] : r \in Room} \in SUBSET Queue
      BY DEF TypeOK
    <2>2. Announcement \in Payload /\ Announcement \notin Post
      BY DEF Payload
    <2>3. UNCHANGED <<room, sender, recv>>
      BY DEF loops
    <2> HIDE DEF Queue
    <2> QED
      BY <2>1, <2>2, <2>3, OfferStep
  <1>2. TypeOK'
    <2>1. broadcasts' \in 0..MaxBroadcasts
      BY DEF TypeOK
    <2> QED
      BY <1>1, <2>1 DEF TypeOK, Message, loops
  <1>3. LoopInv'
    BY DEF LoopInv, Settled, loops
  <1>4. SubscribersAreLive' /\ OneRoomOnScreen'
    BY DEF SubscribersAreLive, Holders, Current, OneRoomOnScreen, Settled, loops
  <1> QED
    BY <1>1, <1>2, <1>3, <1>4

\* Rows, channels and sessions come and go, and the sockets hear nothing of it.
LEMMA QuietStep ==
    ASSUME Inv, UNCHANGED <<loops, sender, queues, subscribers, screen, dropped, unsent, broadcasts>>,
           posts' \subseteq posts, channels' \subseteq Named,
           standing' \in [Socket -> {"live", "ended", "gone"}]
    PROVE  Inv'
  <1> USE DEF Inv, loops
  <1>1. TypeOK'
    BY DEF TypeOK
  <1>2. LoopInv'
    BY DEF LoopInv, Settled
  <1>3. QueueInv' /\ SenderIsWoken'
    BY DEF QueueInv, SenderIsWoken, Current, Left
  <1>4. SubscribersAreLive' /\ OneRoomOnScreen'
    BY DEF SubscribersAreLive, Holders, Current, OneRoomOnScreen, Settled
  <1> QED
    BY <1>1, <1>2, <1>3, <1>4

LEMMA NextInv == Inv /\ [Next]_vars => Inv'
  <1> SUFFICES ASSUME Inv, [Next]_vars PROVE Inv'
    OBVIOUS
  <1>1. CASE \E s \in Socket : Connect(s) \/ Join(s) \/ Disconnect(s) \/ Ping(s)
    BY <1>1, ConnectStep, JoinStep, DownStep DEF Disconnect, Ping
  <1>2. CASE \E s \in Socket : Recv(s)
    BY <1>2, CheckStep, SwapStep, HistoryStep, StoreStep, DeliverStep DEF Recv
  <1>3. CASE \E s \in Socket : Send(s)
    BY <1>3, TakeStep, WrittenStep DEF Send
  <1>4. CASE \E s \in Socket, how \in {"ended", "gone"} : EndSession(s, how)
    BY <1>4, QuietStep DEF EndSession, Inv, TypeOK
  <1>5. CASE Others
    <2>1. CASE Announce
      BY <2>1, AnnounceStep
    <2>2. CASE \E m \in posts : DeleteMessage(m)
      BY <2>2, QuietStep DEF DeleteMessage, Inv, TypeOK
    <2>3. CASE \E r \in Named : CreateChannel(r) \/ DeleteChannel(r)
      BY <2>3, QuietStep DEF CreateChannel, DeleteChannel, Inv, TypeOK
    <2> QED
      BY <1>5, <2>1, <2>2, <2>3 DEF Others
  <1>6. CASE UNCHANGED vars
    BY <1>6, QuietStep DEF vars, db, Inv, TypeOK
  <1> QED
    BY <1>1, <1>2, <1>3, <1>4, <1>5, <1>6 DEF Next

-----------------------------------------------------------------------------
(* No gap between the history and the live feed *)

\* What is on a client's screen or on its way there.
Seen(s) == screen[s] \cup RangeOf(queues[Current(s)])

Above(S, n) == {k \in S \ {Announcement} : k.id > n}

\* What NothingMissed says of one post that is not missed.
Fed(s, m) ==
    \/ m \in Seen(s) \cup dropped[s] \cup InFlight \cup unsent
    \/ Cardinality(Above(Seen(s), m.id)) >= HistoryLimit

\* The sets that are counted are finite, and no socket waits to be woken on the
\* queue it is to read.
FeedInv ==
    /\ IsFiniteSet(posts) /\ \A s \in Socket : IsFiniteSet(screen[s])
    /\ \A s \in Socket : Wake \notin RangeOf(queues[Current(s)])

\* A set of numbers has a smallest.
LEMMA Smallest ==
    ASSUME NEW S \in SUBSET Nat, S # {}
    PROVE  \E n \in S : \A k \in S : n <= k
  <1>1. PICK n \in S : \A k \in S : ~(<<k, n>> \in OpToRel(<, Nat))
    BY NatLessThanWellFounded, WFMin
  <1>2. \A k \in S : ~(k < n)
    BY <1>1 DEF OpToRel
  <1> QED
    BY <1>2

\* Of some posts, one has the highest id.
LEMMA Newest ==
    ASSUME NEW S \in SUBSET Post, S # {}
    PROVE  \E k \in S : \A l \in S : l.id <= k.id
  <1> DEFINE below(k) == MaxBroadcasts - k.id
             B == {below(k) : k \in S}
  <1>1. \A k \in S : k.id \in Nat /\ below(k) \in Nat
    BY DEF Post
  <1>2. B \in SUBSET Nat /\ B # {}
    BY <1>1
  <1>3. PICK n \in B : \A k \in B : n <= k
    BY <1>2, Smallest
  <1>4. PICK k \in S : n = below(k)
    OBVIOUS
  <1>5. \A l \in S : below(k) <= below(l)
    BY <1>3, <1>4
  <1>6. \A l \in S : l.id <= k.id
    BY <1>1, <1>5
  <1> QED
    BY <1>6

\* A row that is too old for the history has enough newer ones in it.
LEMMA HistoryFull ==
    ASSUME TypeOK, IsFiniteSet(posts), NEW m \in posts, m \notin Recent(m.room)
    PROVE  Cardinality({k \in Recent(m.room) : k.id > m.id}) >= HistoryLimit
  <1> DEFINE kept == {k \in Recent(m.room) : k.id > m.id}
             lost == {k \in Newer(m) : k \notin Recent(m.room)}
  <1>1. /\ posts \subseteq Post /\ m.id \in Nat
        /\ \A k \in posts : k.id \in Nat
    BY DEF TypeOK, Post
  <1>2. ASSUME NEW k \in posts, k.room = m.room, k \notin Recent(m.room)
        PROVE  /\ IsFiniteSet(Newer(k)) /\ Cardinality(Newer(k)) \in Nat
               /\ Cardinality(Newer(k)) >= HistoryLimit
    <2>1. IsFiniteSet(Newer(k)) /\ Cardinality(Newer(k)) \in Nat
      BY FS_Subset, FS_CardinalityType DEF Newer
    <2>2. ~(Cardinality(Newer(k)) < HistoryLimit)
      BY <1>2 DEF Recent
    <2> QED
      BY <2>1, <2>2
  <1>3. IsFiniteSet(kept) /\ Cardinality(kept) \in Nat
    BY FS_Subset, FS_CardinalityType DEF Recent
  <1>4. SUFFICES \E k \in posts : /\ k.room = m.room /\ k \notin Recent(m.room)
                                  /\ Newer(k) \subseteq kept
    <2>1. PICK k \in posts : k.room = m.room /\ k \notin Recent(m.room) /\ Newer(k) \subseteq kept
      BY <1>4
    <2>2. Cardinality(Newer(k)) <= Cardinality(kept)
      BY <1>3, <2>1, FS_Subset
    <2>3. Cardinality(Newer(k)) >= HistoryLimit /\ Cardinality(Newer(k)) \in Nat
      BY <1>2, <2>1
    <2>4. ASSUME NEW x \in Nat, NEW y \in Nat, x >= HistoryLimit, x <= y
          PROVE  y >= HistoryLimit
      BY <2>4
    <2>5. Cardinality(kept) >= HistoryLimit
      BY <1>3, <2>2, <2>3, <2>4
    <2> QED
      BY <2>5
  <1>5. CASE lost = {}
    <2>1. Newer(m) \subseteq kept
      BY <1>5 DEF Newer
    <2> QED
      BY <2>1
  <1>6. CASE lost # {}
    <2>1. lost \in SUBSET Post
      BY <1>1 DEF Newer
    <2>2. PICK k \in lost : \A l \in lost : l.id <= k.id
      BY <1>6, <2>1, Newest
    <2>3. k \in posts /\ k.room = m.room /\ k.id > m.id /\ k \notin Recent(m.room)
      BY DEF Newer
    <2>4. Newer(k) \subseteq kept
      <3> SUFFICES ASSUME NEW l \in Newer(k) PROVE l \in kept
        OBVIOUS
      <3>1. l \in posts /\ l.room = m.room /\ l.id > k.id
        BY <2>3 DEF Newer
      <3>2. l.id > m.id /\ ~(l.id <= k.id)
        BY <1>1, <2>3, <3>1
      <3>3. l \notin lost
        BY <2>2, <3>2
      <3> QED
        BY <3>1, <3>2, <3>3 DEF Newer
    <2> QED
      BY <2>3, <2>4
  <1> QED
    BY <1>5, <1>6

LEMMA QueueFinite ==
    ASSUME NEW q \in Seq(Message)
    PROVE  IsFiniteSet(RangeOf(q))
  <1>1. DOMAIN q = 1..Len(q) /\ Len(q) \in Nat
    OBVIOUS
  <1>2. IsFiniteSet(DOMAIN q)
    BY <1>1, FS_Interval
  <1>3. q \in Surjection(DOMAIN q, RangeOf(q))
    BY DEF Surjection, RangeOf
  <1> QED
    BY <1>2, <1>3, FS_Surjection

\* A post stays fed as what is seen grows.
LEMMA StaysFed ==
    ASSUME NEW s \in Socket, NEW m, Fed(s, m), IsFiniteSet(Seen(s)'), Seen(s) \subseteq Seen(s)',
           m \in dropped[s] \cup InFlight \cup unsent =>
               m \in (Seen(s) \cup dropped[s] \cup InFlight \cup unsent)'
    PROVE  Fed(s, m)'
  <1>1. CASE m \in Seen(s) \cup dropped[s] \cup InFlight \cup unsent
    BY <1>1 DEF Fed
  <1>2. CASE Cardinality(Above(Seen(s), m.id)) >= HistoryLimit
    <2> DEFINE A == Above(Seen(s), m.id)
               B == Above(Seen(s)', m.id)
    <2>1. A \subseteq B /\ B \subseteq Seen(s)'
      BY DEF Above
    <2>2. IsFiniteSet(B) /\ IsFiniteSet(A) /\ Cardinality(A) <= Cardinality(B)
      <3> HIDE DEF A, B
      <3>1. IsFiniteSet(B)
        BY <2>1, FS_Subset
      <3> QED
        BY <2>1, <3>1, FS_Subset
    <2>3. Cardinality(A) \in Nat /\ Cardinality(B) \in Nat
      BY <2>2, FS_CardinalityType
    <2>4. ASSUME NEW x \in Nat, NEW y \in Nat, x >= HistoryLimit, x <= y
          PROVE  y >= HistoryLimit
      BY <2>4
    <2>5. Cardinality(B) >= HistoryLimit
      BY <1>2, <2>2, <2>3, <2>4
    <2>6. Above(Seen(s), m.id)' = B
      BY DEF Above
    <2> QED
      BY <2>5, <2>6 DEF Fed
  <1> QED
    BY <1>1, <1>2 DEF Fed

\* Sockets that a step shows no less to, and takes to no other room.
LEMMA FeedKept ==
    ASSUME TypeOK, TypeOK', FeedInv', NothingMissed, NEW C \in SUBSET Socket,
           posts' \subseteq posts \cup InFlight',
           \A t \in C : Settled(t)' =>
               /\ Settled(t) /\ room'[t] = room[t]
               /\ Seen(t) \subseteq Seen(t)' /\ dropped[t] \subseteq dropped'[t]
               /\ \A m \in InFlight \cup unsent : m.room = room[t] =>
                      m \in (Seen(t) \cup dropped[t] \cup InFlight \cup unsent)'
    PROVE  \A t \in C : Settled(t)' => \A m \in posts' : m.room = room'[t] => Fed(t, m)'
  <1> SUFFICES ASSUME NEW t \in C, Settled(t)', NEW m \in posts', m.room = room'[t]
               PROVE  Fed(t, m)'
    OBVIOUS
  <1>1. t \in Socket /\ Settled(t) /\ m.room = room[t]
    OBVIOUS
  <1>2. CASE m \in posts
    <2>1. Fed(t, m)
      BY <1>1, <1>2 DEF NothingMissed, Fed, Seen, Above
    <2>2. IsFiniteSet(Seen(t)')
      <3>1. queues'[Current(t)'] \in Seq(Message)
        BY <1>1 DEF TypeOK, Message, Current
      <3>2. IsFiniteSet(RangeOf(queues'[Current(t)']))
        BY <3>1, QueueFinite
      <3>3. IsFiniteSet(screen'[t])
        BY <1>1 DEF FeedInv
      <3> QED
        BY <3>2, <3>3, FS_Union DEF Seen
    <2>3. m \in dropped[t] \cup InFlight \cup unsent =>
               m \in (Seen(t) \cup dropped[t] \cup InFlight \cup unsent)'
      BY <1>1
    <2>4. Seen(t) \subseteq Seen(t)'
      OBVIOUS
    <2> HIDE DEF Seen, Fed
    <2> QED
      BY <1>1, <2>1, <2>2, <2>3, <2>4, StaysFed
  <1>3. CASE m \notin posts
    BY <1>3 DEF Fed
  <1> QED
    BY <1>2, <1>3

\* A socket that has just been shown a history.
LEMMA ShownIsFed ==
    ASSUME TypeOK, FeedInv, FeedInv', TypeOK', NEW s \in Socket, screen'[s] = Recent(room'[s]),
           posts' = posts
    PROVE  \A m \in posts' : m.room = room'[s] => Fed(s, m)'
  <1> SUFFICES ASSUME NEW m \in posts, m.room = room'[s]
               PROVE  Fed(s, m)'
    OBVIOUS
  <1>1. CASE m \in Recent(m.room)
    BY <1>1 DEF Fed, Seen
  <1>2. CASE m \notin Recent(m.room)
    <2> DEFINE A == {k \in Recent(m.room) : k.id > m.id}
               B == Above(Seen(s)', m.id)
    <2>1. Cardinality(A) >= HistoryLimit
      BY <1>2, HistoryFull DEF FeedInv
    <2>2. A \subseteq B /\ B \subseteq Seen(s)'
      <3>1. Announcement \notin Recent(m.room)
        BY DEF Recent, TypeOK
      <3> QED
        BY <3>1 DEF Above, Seen
    <2>3. IsFiniteSet(Seen(s)')
      <3>1. queues'[Current(s)'] \in Seq(Message)
        BY DEF TypeOK, Message, Current
      <3>2. IsFiniteSet(RangeOf(queues'[Current(s)']))
        BY <3>1, QueueFinite
      <3> QED
        BY <3>2, FS_Union DEF Seen, FeedInv
    <2>4. IsFiniteSet(B) /\ IsFiniteSet(A) /\ Cardinality(A) <= Cardinality(B)
      <3> HIDE DEF A, B
      <3>1. IsFiniteSet(B)
        BY <2>2, <2>3, FS_Subset
      <3> QED
        BY <2>2, <3>1, FS_Subset
    <2>5. Cardinality(A) \in Nat /\ Cardinality(B) \in Nat
      BY <2>4, FS_CardinalityType
    <2>6. ASSUME NEW x \in Nat, NEW y \in Nat, x >= HistoryLimit, x <= y
          PROVE  y >= HistoryLimit
      BY <2>6
    <2>7. Cardinality(B) >= HistoryLimit
      BY <2>1, <2>4, <2>5, <2>6
    <2>8. Above(Seen(s), m.id)' = B
      BY DEF Above
    <2> QED
      BY <2>7, <2>8 DEF Fed
  <1> QED
    BY <1>1, <1>2

LEMMA AllFed ==
    ASSUME \A t \in Socket : Settled(t)' => \A m \in posts' : m.room = room'[t] => Fed(t, m)'
    PROVE  NothingMissed'
  BY DEF NothingMissed, Fed, Seen, Above

\* A step that leaves queues, screens and what is under way as they are, and
\* settles nobody: Connect, Check, Written and the requests beside the sockets.
LEMMA QuietFeed ==
    ASSUME Inv, Inv', FeedInv, NothingMissed, posts' \subseteq posts,
           InFlight \cup unsent \subseteq (InFlight \cup unsent)',
           \A t \in Socket : Settled(t)' => Settled(t),
           UNCHANGED <<room, queues, screen, dropped>>
    PROVE  FeedInv' /\ NothingMissed'
  <1>1. IsFiniteSet(posts')
    BY FS_Subset DEF FeedInv
  <1>2. FeedInv'
    BY <1>1 DEF FeedInv, Current
  <1>3. \A t \in Socket : Seen(t)' = Seen(t)
    BY DEF Seen, Current
  <1>4. TypeOK /\ TypeOK'
    BY DEF Inv
  <1> HIDE DEF Seen
  <1>5. \A t \in Socket : Settled(t)' => \A m \in posts' : m.room = room'[t] => Fed(t, m)'
    BY <1>2, <1>3, <1>4, FeedKept
  <1> QED
    BY <1>2, <1>5, AllFed

\* What is under way before and after a step that changes recv of one socket.
LEMMA UnderWay ==
    ASSUME TypeOK, NEW s \in Socket,
           \A t \in Socket \ {s} : recv'[t] = recv[t] /\ arg'[t] = arg[t]
    PROVE  /\ \A m \in InFlight : m \in InFlight' \/ (recv[s] = "stored" /\ m = arg[s])
           /\ recv'[s] = "stored" => arg'[s] \in InFlight'
  BY DEF InFlight

LEMMA CheckFeed ==
    ASSUME Inv, Inv', FeedInv, NothingMissed, NEW s \in Socket, NEW r \in Room, Check(s, r)
    PROVE  FeedInv' /\ NothingMissed'
  <1>1. /\ TypeOK /\ recv[s] = "idle" /\ posts' = posts /\ unsent' = unsent
        /\ UNCHANGED <<conn, room, queues, screen, dropped>>
        /\ recv' = [recv EXCEPT ![s] = "checked"] /\ arg' = [arg EXCEPT ![s] = r]
    BY DEF Inv, Check, db
  <1>2. InFlight \subseteq InFlight'
    BY <1>1, UnderWay DEF TypeOK
  <1>3. \A t \in Socket : Settled(t)' => Settled(t)
    BY <1>1 DEF Settled, TypeOK
  <1> QED
    BY <1>1, <1>2, <1>3, QuietFeed

LEMMA ShownFeed ==
    ASSUME Inv, Inv', FeedInv, NothingMissed, NEW s \in Socket, Join(s) \/ History(s)
    PROVE  FeedInv' /\ NothingMissed'
  <1>1. /\ TypeOK /\ TypeOK' /\ UNCHANGED <<posts, unsent, room, queues>>
        /\ screen' = [screen EXCEPT ![s] = Recent(room[s])]
        /\ dropped' = [dropped EXCEPT ![s] = {}]
        /\ recv[s] # "stored" /\ recv'[s] # "stored"
        /\ \A t \in Socket \ {s} : recv'[t] = recv[t] /\ arg'[t] = arg[t] /\ conn'[t] = conn[t]
    BY DEF Inv, Join, History, Shows, db, LoopInv, TypeOK
  <1>2. /\ screen'[s] = Recent(room'[s])
        /\ \A t \in Socket \ {s} : screen'[t] = screen[t] /\ dropped'[t] = dropped[t]
    BY <1>1 DEF TypeOK
  <1>3. IsFiniteSet(Recent(room[s]))
    BY FS_Subset DEF FeedInv, Recent
  <1>4. FeedInv'
    BY <1>1, <1>2, <1>3 DEF FeedInv, Current
  <1>5. InFlight \subseteq InFlight'
    BY <1>1, UnderWay
  <1>6. \A t \in Socket \ {s} : /\ Settled(t)' => Settled(t)
                                /\ Seen(t)' = Seen(t)
    BY <1>1, <1>2 DEF Settled, Seen, Current
  <1>7. \A m \in posts' : m.room = room'[s] => Fed(s, m)'
    BY <1>1, <1>2, <1>4, ShownIsFed
  <1> DEFINE C == Socket \ {s}
  <1>8. \A t \in C : Settled(t)' => \A m \in posts' : m.room = room'[t] => Fed(t, m)'
    <2>1. \A t \in C : Settled(t)' =>
               /\ Settled(t) /\ room'[t] = room[t]
               /\ Seen(t) \subseteq Seen(t)' /\ dropped[t] \subseteq dropped'[t]
               /\ \A m \in InFlight \cup unsent : m.room = room[t] =>
                      m \in (Seen(t) \cup dropped[t] \cup InFlight \cup unsent)'
      BY <1>1, <1>2, <1>5, <1>6
    <2>2. posts' \subseteq posts \cup InFlight' /\ C \in SUBSET Socket
      BY <1>1
    <2> HIDE DEF C
    <2> QED
      BY <1>1, <1>4, <2>1, <2>2, FeedKept
  <1> QED
    BY <1>4, <1>7, <1>8, AllFed

LEMMA DownFeed ==
    ASSUME Inv, Inv', FeedInv, NothingMissed, NEW s \in Socket, Down(s)
    PROVE  FeedInv' /\ NothingMissed'
  <1>1. /\ TypeOK /\ TypeOK' /\ posts' = posts
        /\ conn'[s] = "closed" /\ screen'[s] = {} /\ recv'[s] = "idle"
        /\ unsent' = IF recv[s] = "stored" THEN unsent \cup {arg[s]} ELSE unsent
        /\ queues'[<<s, "now">>] = <<>>
        /\ \A t \in Socket \ {s} : queues'[<<t, "now">>] = queues[<<t, "now">>]
        /\ \A t \in Socket \ {s} : /\ recv'[t] = recv[t] /\ arg'[t] = arg[t] /\ conn'[t] = conn[t]
                                   /\ room'[t] = room[t] /\ screen'[t] = screen[t]
                                   /\ dropped'[t] = dropped[t]
    BY DEF Inv, Down, TypeOK
  <1>2. /\ \A t \in Socket \ {s} : Current(t)' = Current(t) /\ queues'[Current(t)] = queues[Current(t)]
        /\ queues'[Current(s)'] = <<>>
    BY <1>1 DEF Current, TypeOK
  <1>3. FeedInv'
    <2>1. \A t \in Socket : IsFiniteSet(screen'[t])
      BY <1>1, FS_EmptySet DEF FeedInv
    <2>2. \A t \in Socket : Wake \notin RangeOf(queues'[Current(t)'])
      BY <1>2, EmptyHolds DEF FeedInv
    <2> QED
      BY <1>1, <2>1, <2>2 DEF FeedInv
  <1>4. InFlight \cup unsent \subseteq InFlight' \cup unsent'
    BY <1>1, UnderWay
  <1>5. /\ \A t \in Socket : Settled(t)' => t # s /\ Settled(t)
        /\ \A t \in Socket \ {s} : Seen(t)' = Seen(t)
    BY <1>1, <1>2 DEF Settled, Seen
  <1>6. \A t \in Socket : Settled(t)' => \A m \in posts' : m.room = room'[t] => Fed(t, m)'
    BY <1>1, <1>3, <1>4, <1>5, FeedKept
  <1> QED
    BY <1>3, <1>6, AllFed

LEMMA SwapFeed ==
    ASSUME Inv, Inv', FeedInv, NothingMissed, NEW s \in Socket, Swap(s)
    PROVE  FeedInv' /\ NothingMissed'
  <1>1. /\ TypeOK /\ TypeOK' /\ UNCHANGED <<posts, unsent, conn, arg, screen, dropped>>
        /\ recv[s] = "checked" /\ recv' = [recv EXCEPT ![s] = "swapped"]
        /\ room' = [room EXCEPT ![s] = arg[s]] /\ arg[s] \in Room
    BY DEF Inv, Swap, Leave, db, LoopInv, TypeOK
  <1>2. /\ queues'[<<s, "now">>] = <<>>
        /\ \A t \in Socket \ {s} : queues'[<<t, "now">>] = queues[<<t, "now">>]
    BY <1>1 DEF Swap, Leave, TypeOK, Current, Left
  <1>3. /\ \A t \in Socket \ {s} : /\ Current(t)' = Current(t) /\ room'[t] = room[t]
                                   /\ queues'[Current(t)] = queues[Current(t)]
                                   /\ recv'[t] = recv[t]
        /\ queues'[Current(s)'] = <<>> /\ recv'[s] = "swapped"
    BY <1>1, <1>2 DEF Current, TypeOK
  <1>4. FeedInv'
    BY <1>1, <1>3, EmptyHolds DEF FeedInv
  <1>5. InFlight \subseteq InFlight'
    BY <1>1, <1>3, UnderWay
  <1>6. /\ \A t \in Socket : Settled(t)' => t # s /\ Settled(t)
        /\ \A t \in Socket \ {s} : Seen(t)' = Seen(t)
    BY <1>1, <1>3 DEF Settled, Seen
  <1>7. \A t \in Socket : Settled(t)' => \A m \in posts' : m.room = room'[t] => Fed(t, m)'
    BY <1>1, <1>3, <1>4, <1>5, <1>6, FeedKept
  <1> QED
    BY <1>4, <1>7, AllFed

LEMMA StoreFeed ==
    ASSUME Inv, Inv', FeedInv, NothingMissed, NEW s \in Socket, Store(s)
    PROVE  FeedInv' /\ NothingMissed'
  <1>1. PICK m \in Post : /\ posts' \in {posts, posts \cup {m}}
                         /\ arg' = [arg EXCEPT ![s] = m]
    <2> DEFINE m == [id |-> IF standing[s] = "gone" THEN 0 ELSE broadcasts + 1, room |-> room[s], by |-> s]
    <2>1. m \in Post
      BY DEF Inv, Store, Post, TypeOK
    <2>2. posts' \in {posts, posts \cup {m}} /\ arg' = [arg EXCEPT ![s] = m]
      BY DEF Store
    <2> QED
      BY <2>1, <2>2
  <1>2. /\ TypeOK /\ TypeOK' /\ recv[s] = "idle" /\ recv' = [recv EXCEPT ![s] = "stored"]
        /\ UNCHANGED <<unsent, conn, room, queues, screen, dropped>>
    BY DEF Inv, Store
  <1>3. recv'[s] = "stored" /\ arg'[s] = m
    BY <1>1, <1>2 DEF TypeOK
  <1>4. InFlight \subseteq InFlight' /\ m \in InFlight'
    <2>1. \A t \in Socket \ {s} : recv'[t] = recv[t] /\ arg'[t] = arg[t]
      BY <1>1, <1>2 DEF TypeOK
    <2> QED
      BY <1>2, <1>3, <2>1, UnderWay
  <1>5. FeedInv'
    <2>1. IsFiniteSet(posts')
      BY <1>1, FS_AddElement DEF FeedInv
    <2> QED
      BY <1>2, <2>1 DEF FeedInv, Current
  <1>6. \A t \in Socket : Seen(t)' = Seen(t) /\ (Settled(t)' => Settled(t))
    BY <1>2 DEF Seen, Current, Settled, TypeOK
  <1>7. posts' \subseteq posts \cup InFlight'
    BY <1>1, <1>4
  <1>8. \A t \in Socket : Settled(t)' => \A k \in posts' : k.room = room'[t] => Fed(t, k)'
    BY <1>2, <1>4, <1>5, <1>6, <1>7, FeedKept
  <1> QED
    BY <1>5, <1>8, AllFed

\* Offering a payload that is not the sentinel.
LEMMA OfferedFeed ==
    ASSUME Inv, FeedInv, NEW p \in Payload, NEW Q \in SUBSET Queue, queues' = Offered(p, Q),
           UNCHANGED <<room, screen>>
    PROVE  \A t \in Socket : /\ Seen(t) \subseteq Seen(t)' /\ Wake \notin RangeOf(queues'[Current(t)'])
                             /\ Current(t) \in Q /\ ~Full(Current(t)) => p \in Seen(t)'
  <1> SUFFICES ASSUME NEW t \in Socket
               PROVE  /\ Seen(t) \subseteq Seen(t)' /\ Wake \notin RangeOf(queues'[Current(t)'])
                      /\ Current(t) \in Q /\ ~Full(Current(t)) => p \in Seen(t)'
    OBVIOUS
  <1>1. Current(t) \in Queue /\ Current(t)' = Current(t)
    BY DEF Inv, TypeOK, Current
  <1> DEFINE q == queues[Current(t)]
             n == queues'[Current(t)]
  <1>2. q \in Seq(Message) /\ p \in Message /\ p # Wake
    BY <1>1 DEF Inv, TypeOK, Message, Payload
  <1>3. n = IF Current(t) \in Q /\ ~Full(Current(t)) THEN Append(q, p) ELSE q
    BY <1>1 DEF Offered
  <1>4. RangeOf(Append(q, p)) = RangeOf(q) \cup {p}
    BY <1>2, AppendHolds
  <1>5. Wake \notin RangeOf(q)
    BY DEF FeedInv
  <1>6. Seen(t) = screen[t] \cup RangeOf(q) /\ Seen(t)' = screen[t] \cup RangeOf(n)
    BY <1>1 DEF Seen
  <1> HIDE DEF q, n
  <1>7. /\ RangeOf(q) \subseteq RangeOf(n) /\ Wake \notin RangeOf(n)
        /\ Current(t) \in Q /\ ~Full(Current(t)) => p \in RangeOf(n)
    BY <1>2, <1>3, <1>4, <1>5
  <1> QED
    BY <1>1, <1>6, <1>7 DEF n

LEMMA DeliverFeed ==
    ASSUME Inv, Inv', FeedInv, NothingMissed, NEW s \in Socket, Deliver(s)
    PROVE  FeedInv' /\ NothingMissed'
  <1> DEFINE m == arg[s]
             Q == subscribers[m.room]
  <1>1. /\ TypeOK /\ TypeOK' /\ recv[s] = "stored" /\ m \in Post /\ m.room \in Room
        /\ queues' = Offered(m, Q)
        /\ dropped' = [t \in Socket |-> IF \E q \in Q : q[1] = t /\ Full(q)
                                        THEN dropped[t] \cup {m} ELSE dropped[t]]
        /\ recv' = [recv EXCEPT ![s] = "idle"] /\ arg' = [arg EXCEPT ![s] = Lobby]
        /\ UNCHANGED <<posts, unsent, conn, room, screen>>
    BY DEF Inv, Deliver, db, LoopInv, Post
  <1>2. Q = {Current(t) : t \in Holders(m.room)} /\ Q \in SUBSET Queue
    BY <1>1 DEF Inv, SubscribersAreLive, TypeOK
  <1>3. m \in Payload
    BY <1>1 DEF Payload
  <1> HIDE DEF m, Q
  <1>4. \A t \in Socket : /\ Seen(t) \subseteq Seen(t)' /\ Wake \notin RangeOf(queues'[Current(t)'])
                          /\ Current(t) \in Q /\ ~Full(Current(t)) => m \in Seen(t)'
    BY <1>1, <1>2, <1>3, OfferedFeed
  <1>5. FeedInv'
    BY <1>1, <1>4 DEF FeedInv
  <1>6. \A k \in InFlight : k \in InFlight' \/ k = m
    <2>1. \A t \in Socket \ {s} : recv'[t] = recv[t] /\ arg'[t] = arg[t]
      BY <1>1 DEF TypeOK
    <2> QED
      BY <1>1, <2>1, UnderWay DEF m
  <1>7. \A t \in Socket : Settled(t)' => Settled(t)
    BY <1>1 DEF Settled, TypeOK
  <1>8. \A t \in Socket : dropped[t] \subseteq dropped'[t]
    BY <1>1
  <1>9. \A t \in Socket : Settled(t) /\ m.room = room[t] => m \in (Seen(t) \cup dropped[t])'
    <2> SUFFICES ASSUME NEW t \in Socket, Settled(t), m.room = room[t]
                 PROVE  m \in Seen(t)' \cup dropped'[t]
      OBVIOUS
    <2>1. Current(t) \in Q
      BY <1>2 DEF Holders, Settled
    <2>2. CASE Full(Current(t))
      <3>1. Current(t)[1] = t
        BY DEF Current
      <3> QED
        BY <1>1, <2>1, <2>2, <3>1
    <2>3. CASE ~Full(Current(t))
      BY <1>4, <2>1, <2>3
    <2> QED
      BY <2>2, <2>3
  <1>10. \A t \in Socket : Settled(t)' => \A k \in posts' : k.room = room'[t] => Fed(t, k)'
    <2>1. \A t \in Socket : Settled(t)' =>
               /\ Settled(t) /\ room'[t] = room[t]
               /\ Seen(t) \subseteq Seen(t)' /\ dropped[t] \subseteq dropped'[t]
               /\ \A k \in InFlight \cup unsent : k.room = room[t] =>
                      k \in (Seen(t) \cup dropped[t] \cup InFlight \cup unsent)'
      BY <1>1, <1>4, <1>6, <1>7, <1>8, <1>9
    <2> QED
      BY <1>1, <1>5, <2>1, FeedKept
  <1> QED
    BY <1>5, <1>10, AllFed

LEMMA AnnounceFeed ==
    ASSUME Inv, Inv', FeedInv, NothingMissed, Announce
    PROVE  FeedInv' /\ NothingMissed'
  <1> DEFINE Q == UNION {subscribers[r] : r \in Room}
  <1>1. /\ TypeOK /\ TypeOK' /\ queues' = Offered(Announcement, Q)
        /\ UNCHANGED <<posts, unsent, conn, room, recv, arg, screen, dropped>>
    BY DEF Inv, Announce, loops
  <1>2. Q \in SUBSET Queue /\ Announcement \in Payload
    BY <1>1 DEF TypeOK, Payload
  <1> HIDE DEF Q
  <1>3. \A t \in Socket : /\ Seen(t) \subseteq Seen(t)' /\ Wake \notin RangeOf(queues'[Current(t)'])
    BY <1>1, <1>2, OfferedFeed
  <1>4. FeedInv'
    BY <1>1, <1>3 DEF FeedInv
  <1>5. InFlight' = InFlight /\ \A t \in Socket : Settled(t)' <=> Settled(t)
    BY <1>1 DEF InFlight, Settled
  <1>6. \A t \in Socket : Settled(t)' => \A k \in posts' : k.room = room'[t] => Fed(t, k)'
    BY <1>1, <1>3, <1>4, <1>5, FeedKept
  <1> QED
    BY <1>4, <1>6, AllFed

\* What _send takes off the current queue is on the screen, and a settled _send
\* takes from no other.
LEMMA TakeFeed ==
    ASSUME Inv, Inv', FeedInv, NothingMissed, NEW s \in Socket, Take(s)
    PROVE  FeedInv' /\ NothingMissed'
  <1> DEFINE q == <<s, sender[s]>>
             m == Head(queues[q])
  <1>1. /\ TypeOK /\ TypeOK' /\ sender[s] \in {"now", "left"} /\ q \in Queue
        /\ queues[q] # <<>> /\ queues[q] \in Seq(Message)
        /\ queues' = [queues EXCEPT ![q] = IF sender[s] = "now" THEN Tail(@) ELSE <<>>]
        /\ \/ m = Wake /\ UNCHANGED screen
           \/ m # Wake /\ screen' = [screen EXCEPT ![s] = @ \cup {m}]
        /\ UNCHANGED <<posts, unsent, conn, room, recv, arg, dropped>>
    BY DEF Inv, Take, TypeOK, Message, db, loops
  <1>2. RangeOf(queues[q]) = {m} \cup RangeOf(Tail(queues[q]))
    <2>1. RangeOf(Tail(queues[q])) \subseteq RangeOf(queues[q]) /\ m \in RangeOf(queues[q])
      BY <1>1, TailHolds
    <2>2. /\ Len(queues[q]) \in Nat /\ DOMAIN queues[q] = 1..Len(queues[q]) /\ m = queues[q][1]
          /\ DOMAIN Tail(queues[q]) = 1..(Len(queues[q]) - 1)
          /\ \A i \in 1..(Len(queues[q]) - 1) : Tail(queues[q])[i] = queues[q][i + 1]
      BY <1>1
    <2>3. ASSUME NEW i \in DOMAIN queues[q], i # 1
          PROVE  queues[q][i] \in RangeOf(Tail(queues[q]))
      <3>1. i - 1 \in 1..(Len(queues[q]) - 1) /\ (i - 1) + 1 = i
        BY <2>2, <2>3
      <3>2. Tail(queues[q])[i - 1] = queues[q][i]
        BY <2>2, <3>1
      <3> QED
        BY <2>2, <3>1, <3>2 DEF RangeOf
    <2> QED
      BY <2>1, <2>2, <2>3 DEF RangeOf
  <1>3. /\ Current(s) \in Queue /\ Current(s)' = Current(s)
        /\ \A t \in Socket \ {s} : /\ Current(t) \in Queue /\ Current(t)' = Current(t)
                                   /\ Current(t) # q
        /\ q = Current(s) <=> sender[s] = "now"
    BY <1>1 DEF Current, TypeOK
  <1> HIDE DEF m
  <1>4. \A t \in Socket \ {s} : queues'[Current(t)] = queues[Current(t)] /\ screen'[t] = screen[t]
    BY <1>1, <1>3 DEF TypeOK
  <1>5. /\ q = Current(s) => m # Wake /\ queues'[Current(s)] = Tail(queues[q])
        /\ q # Current(s) => queues'[Current(s)] = queues[Current(s)]
    BY <1>1, <1>2, <1>3 DEF FeedInv, TypeOK
  <1> HIDE DEF q
  <1>6. FeedInv'
    <2>1. \A t \in Socket : IsFiniteSet(screen'[t])
      <3>1. IsFiniteSet(screen[s] \cup {m})
        BY FS_AddElement DEF FeedInv
      <3>2. screen'[s] \in {screen[s], screen[s] \cup {m}}
        BY <1>1 DEF TypeOK
      <3> QED
        BY <1>4, <3>1, <3>2 DEF FeedInv
    <2>2. Wake \notin RangeOf(queues'[Current(s)])
      BY <1>2, <1>5 DEF FeedInv
    <2> QED
      BY <1>1, <1>3, <1>4, <2>1, <2>2 DEF FeedInv
  <1>7. Settled(s) => Seen(s) \subseteq Seen(s)'
    <2> SUFFICES ASSUME Settled(s) PROVE Seen(s) \subseteq Seen(s)'
      OBVIOUS
    <2>1. sender[s] = "now"
      BY <1>1 DEF Inv, LoopInv
    <2>2. q = Current(s)
      BY <1>3, <2>1
    <2>3. screen'[s] = screen[s] \cup {m}
      BY <1>1, <1>5, <2>2 DEF TypeOK
    <2> QED
      BY <1>2, <1>3, <1>5, <2>2, <2>3 DEF Seen
  <1>8. /\ InFlight' = InFlight /\ \A t \in Socket : Settled(t)' <=> Settled(t)
        /\ \A t \in Socket \ {s} : Seen(t)' = Seen(t)
    BY <1>1, <1>3, <1>4 DEF InFlight, Settled, Seen
  <1>9. \A t \in Socket : Settled(t)' => \A k \in posts' : k.room = room'[t] => Fed(t, k)'
    BY <1>1, <1>6, <1>7, <1>8, FeedKept
  <1> QED
    BY <1>6, <1>9, AllFed

LEMMA NextFeed ==
    ASSUME Inv, Inv', FeedInv, NothingMissed, [Next]_vars
    PROVE  FeedInv' /\ NothingMissed'
  <1>1. CASE \E s \in Socket : Connect(s)
    <2>1. PICK s \in Socket : Connect(s)
      BY <1>1
    <2>2. /\ UNCHANGED <<posts, unsent, room, recv, arg, queues, screen, dropped>>
          /\ conn' = [conn EXCEPT ![s] = "joining"]
      BY <2>1 DEF Connect, db
    <2>3. \A t \in Socket : Settled(t)' => Settled(t)
      BY <2>2 DEF Settled, Inv, TypeOK
    <2> QED
      BY <2>2, <2>3, QuietFeed DEF InFlight
  <1>2. CASE \E s \in Socket : Join(s) \/ History(s)
    BY <1>2, ShownFeed
  <1>3. CASE \E s \in Socket : Disconnect(s) \/ Ping(s)
    BY <1>3, DownFeed DEF Disconnect, Ping
  <1>4. CASE \E s \in Socket : (\E r \in Room : Check(s, r)) \/ Swap(s) \/ Store(s) \/ Deliver(s)
    BY <1>4, CheckFeed, SwapFeed, StoreFeed, DeliverFeed
  <1>5. CASE \E s \in Socket : Take(s)
    BY <1>5, TakeFeed
  <1>6. CASE \E s \in Socket : Written(s)
    BY <1>6, QuietFeed DEF Written, InFlight, Settled, db, loops
  <1>7. CASE Announce
    BY <1>7, AnnounceFeed
  <1>8. CASE \/ \E s \in Socket, how \in {"ended", "gone"} : EndSession(s, how)
             \/ \E m \in posts : DeleteMessage(m)
             \/ \E r \in Named : CreateChannel(r) \/ DeleteChannel(r)
             \/ UNCHANGED vars
    <2>1. /\ UNCHANGED <<unsent, loops, queues, screen, dropped>>
          /\ posts' \subseteq posts
      BY <1>8 DEF EndSession, DeleteMessage, CreateChannel, DeleteChannel, vars, db
    <2> QED
      BY <2>1, QuietFeed DEF InFlight, Settled, loops
  <1> QED
    BY <1>1, <1>2, <1>3, <1>4, <1>5, <1>6, <1>7, <1>8 DEF Next, Recv, Send, Others

-----------------------------------------------------------------------------
(* What follows *)

LEMMA SpecInv == Spec => []Inv
  BY InitInv, NextInv, PTL DEF Spec

\* The chat's state is always of its type, queues within their bound.
THEOREM ChatTypes == Spec => []TypeOK
  BY SpecInv, PTL DEF Inv

\* Broadcasts go to the current queues of the sockets in a room, and to no other
\* (ChatManager.subscribe and unsubscribe, and the finally of ws_chat).
THEOREM BroadcastsReachTheRoom == Spec => []SubscribersAreLive
  BY SpecInv, PTL DEF Inv

\* For any sockets and rooms and any bound on the queues, what broadcast iterates
\* over are the sockets connected and in the room, once each.
THEOREM ChatSound == Spec => []ChatIsSound
  BY ChatTypes, BroadcastsReachTheRoom, PTL DEF ChatIsSound

\* A dropped sentinel is harmless, as ws_chat says: a _send on a queue that has
\* been left behind has something to read there.
THEOREM NoSenderSleepsOn == Spec => []SenderIsWoken
  BY SpecInv, PTL DEF Inv

\* A settled screen shows the room that the next frame is posted to, and nobody
\* is sent what they may not read.
THEOREM ScreensShowOneRoom == Spec => []OneRoomOnScreen
  BY SpecInv, PTL DEF Inv

\* The history and the live feed leave no gap, whatever is stored, offered, sent,
\* switched and deleted meanwhile (subscribe before recent_messages in ws_chat).
THEOREM NoGap == Spec => []NothingMissed
  <1>1. Init => FeedInv /\ NothingMissed
    <2> SUFFICES ASSUME Init PROVE FeedInv /\ NothingMissed
      OBVIOUS
    <2>1. FeedInv
      BY FS_EmptySet, EmptyHolds DEF Init, FeedInv, Current
    <2> QED
      BY <2>1 DEF Init, NothingMissed, Settled
  <1>2. Inv /\ Inv' /\ FeedInv /\ NothingMissed /\ [Next]_vars => FeedInv' /\ NothingMissed'
    BY NextFeed
  <1> QED
    BY <1>1, <1>2, SpecInv, PTL DEF Spec

=============================================================================
