--------------------------------- MODULE Chat ---------------------------------
(***************************************************************************)
(* The chat: lib/chat.py's ChatManager and the /ws/chat endpoint of        *)
(* lib/routes/chat_routes.py.  A socket runs three loops, _recv, _send and *)
(* _ping; each runs until it awaits, and each action below is what one of  *)
(* them does between two awaits that matter.                               *)
(*                                                                         *)
(* Two things the event loop guarantees are used.  Reading a history and   *)
(* sending it is one step: the one database thread serves requests in      *)
(* order, so a row inserted after that SELECT is offered, two round trips  *)
(* later, after the history has been written.  And a _send woken on a      *)
(* queue runs before a _recv that waits for the database (SenderFirst).    *)
(***************************************************************************)
EXTENDS Naturals, Sequences, FiniteSets

CONSTANTS
    Socket,         \* connections; a closed one may be opened again
    Room, Lobby,    \* channel names, direct messages among them
    Named,          \* the rooms that are rows of chat_channels
    MayRead,        \* MayRead[s]: the rooms open to the user of s, of the direct
                    \* messages only their own
    Asks,           \* bound: Asks[s] are the rooms the client of s asks for
    Announcement,   \* the payload of an announcement, which has no room
    Wake,           \* the None that _recv puts into a queue it leaves
    MaxQueued,      \* MAX_QUEUED_MESSAGES, 256 in the code
    HistoryLimit,   \* 50 in the code
    MaxBroadcasts,  \* bound on posts and announcements
    MaxEnded        \* bound on sessions that end

ASSUME ChatAssumption ==
    /\ Lobby \in Room
    /\ Named \subseteq Room \ {Lobby}
    /\ MayRead \in [Socket -> SUBSET Room]
    /\ Asks \in [Socket -> SUBSET Room]
    /\ \A s \in Socket : Lobby \in MayRead[s] /\ Asks[s] \subseteq MayRead[s]
    /\ MaxQueued \in Nat \ {0}
    /\ HistoryLimit \in Nat
    /\ MaxBroadcasts \in Nat /\ MaxEnded \in Nat
    /\ Wake # Announcement

\* Every switch makes a new queue, one into the room the socket is in as well.  A
\* socket has the queue its state names now and the one it has left, on which
\* _send may still be waiting: never two of those (SenderIsWoken).
Queue == Socket \X {"now", "left"}

Post == [id : 0..MaxBroadcasts, room : Room, by : Socket]   \* id 0: not in chat_messages
Payload == Post \cup {Announcement}

ASSUME PayloadAssumption == Wake \notin Post /\ Announcement \notin Post

VARIABLES
    posts,        \* the rows of chat_messages
    channels,     \* the rows of chat_channels
    broadcasts,   \* how many there have been; the last row's id
    standing,     \* of each socket's user: "live", "ended" (no session) or "gone"
    conn,         \* "closed", "joining" (waiting for its history) or "open"
    room,         \* state["channel"], whose queue is state["queue"]
    recv,         \* where _recv is: "idle", "checked", "swapped" or "stored"
    arg,          \* the room _recv switches to, or the post it has stored
    sender,       \* the queue _send waits on, "now" or "left", or "busy" writing, or "off"
    queues,
    subscribers,  \* ChatManager._subscribers
    screen,       \* what the client shows: the last history and what came after
    dropped,      \* posts a full queue refused since the last history
    unsent        \* posts whose socket went down before offering them

db == <<posts, channels, broadcasts, unsent>>
loops == <<conn, room, recv, arg>>
vars == <<db, standing, loops, sender, queues, subscribers, screen, dropped>>

-----------------------------------------------------------------------------
(* ChatManager *)

RangeOf(q) == {q[i] : i \in DOMAIN q}
Current(s) == <<s, "now">>
Left(s) == <<s, "left">>
Full(q) == Len(queues[q]) >= MaxQueued

\* ChatManager.offer of p to every queue of Q.
Offered(p, Q) ==
    [q \in Queue |-> IF q \in Q /\ ~Full(q) THEN Append(queues[q], p) ELSE queues[q]]

\* recent_messages: the newest rows of a room.
Newer(m) == {k \in posts : k.room = m.room /\ k.id > m.id}
Recent(r) == {m \in posts : m.room = r /\ Cardinality(Newer(m)) < HistoryLimit}

Init ==
    /\ posts = {} /\ channels \in SUBSET Named /\ broadcasts = 0 /\ unsent = {}
    /\ standing = [s \in Socket |-> "live"]
    /\ conn = [s \in Socket |-> "closed"]
    /\ room = [s \in Socket |-> Lobby]
    /\ recv = [s \in Socket |-> "idle"]
    /\ arg = [s \in Socket |-> Lobby]
    /\ sender = [s \in Socket |-> "off"]
    /\ queues = [q \in Queue |-> <<>>]
    /\ subscribers = [r \in Room |-> {}]
    /\ screen = [s \in Socket |-> {}]
    /\ dropped = [s \in Socket |-> {}]

-----------------------------------------------------------------------------
(* A connection's life *)

\* The handshake: the session is looked up, and the lobby subscribed to before
\* its history is asked for.
Connect(s) ==
    /\ conn[s] = "closed" /\ standing[s] = "live"
    /\ conn' = [conn EXCEPT ![s] = "joining"]
    /\ subscribers' = [subscribers EXCEPT ![Lobby] = @ \cup {Current(s)}]
    /\ UNCHANGED <<db, standing, room, recv, arg, sender, queues, screen, dropped>>

\* The slip of a client that adds a history to what it shows.
ShowsMore(s, r) ==
    /\ screen' = [screen EXCEPT ![s] = @ \cup Recent(r)]
    /\ dropped' = [dropped EXCEPT ![s] = {}]

\* What the client shows after a history of r.  A post its queue has refused is
\* in it, or is too old for it.
Shows(s, r) ==
    /\ screen' = [screen EXCEPT ![s] = Recent(r)]
    /\ dropped' = [dropped EXCEPT ![s] = {}]

\* The lobby's history goes out, and only then do the three loops start.
Join(s) ==
    /\ conn[s] = "joining"
    /\ Shows(s, Lobby)
    /\ conn' = [conn EXCEPT ![s] = "open"]
    /\ sender' = [sender EXCEPT ![s] = "now"]
    /\ UNCHANGED <<db, standing, room, recv, arg, queues, subscribers>>

\* The finally of ws_chat.  Whichever loop ended, the scope has cancelled the
\* others: _recv may have stored a post that it will not offer.
Down(s) ==
    /\ conn' = [conn EXCEPT ![s] = "closed"]
    /\ room' = [room EXCEPT ![s] = Lobby]
    /\ recv' = [recv EXCEPT ![s] = "idle"]
    /\ arg' = [arg EXCEPT ![s] = Lobby]
    /\ sender' = [sender EXCEPT ![s] = "off"]
    /\ subscribers' = [subscribers EXCEPT ![room[s]] = @ \ {Current(s)}]
    /\ queues' = [q \in Queue |-> IF q[1] = s THEN <<>> ELSE queues[q]]
    /\ screen' = [screen EXCEPT ![s] = {}]
    /\ dropped' = [dropped EXCEPT ![s] = {}]
    /\ unsent' = IF recv[s] = "stored" THEN unsent \cup {arg[s]} ELSE unsent
    /\ UNCHANGED <<posts, channels, broadcasts, standing>>

\* The client goes away, or a loop raises.
Disconnect(s) == conn[s] # "closed" /\ Down(s)

\* The slip of looking for the user and not for the session.
PingForUser(s) == conn[s] = "open" /\ standing[s] = "gone" /\ Down(s)

\* _ping, when the session is no longer there; it changes nothing otherwise.
Ping(s) == conn[s] = "open" /\ standing[s] # "live" /\ Down(s)

-----------------------------------------------------------------------------
(* _recv *)

\* A frame that asks for another room, once validate_channel has let it through
\* and, for a direct message, the user's row has let it be marked as seen.
Check(s, r) ==
    /\ conn[s] = "open" /\ recv[s] = "idle"
    /\ r \in Asks[s] /\ (r \in Named => r \in channels)
    /\ standing[s] = "gone" => r \in Named \cup {Lobby}
    /\ recv' = [recv EXCEPT ![s] = "checked"]
    /\ arg' = [arg EXCEPT ![s] = r]
    /\ UNCHANGED <<db, standing, conn, room, sender, queues, subscribers, screen, dropped>>

\* The queue there was is the one left; _send, if it waits there, does so still.
Leave(s, left) ==
    /\ conn[s] = "open" /\ recv[s] = "checked"
    /\ room' = [room EXCEPT ![s] = arg[s]]
    /\ queues' = [queues EXCEPT ![Left(s)] = left, ![Current(s)] = <<>>]
    /\ sender' = [sender EXCEPT ![s] = IF @ = "now" THEN "left" ELSE @]
    /\ recv' = [recv EXCEPT ![s] = "swapped"]
    /\ UNCHANGED <<db, standing, conn, arg, screen, dropped>>

\* Once the queue of s is the one left: subscribed to the new room with the new
\* one, gone from the old room with the old.
Resubscribed(s) ==
    [r \in Room |->
        LET there == {IF q = Current(s) THEN Left(s) ELSE q : q \in subscribers[r]}
        IN  (IF r = arg[s] THEN there \cup {Current(s)} ELSE there)
              \ (IF r = room[s] THEN {Left(s)} ELSE {})]

\* What of the queue left is still to be read: if _send does not wait there,
\* nobody will read it again.
StillRead(s, q) == IF sender[s] = "now" THEN q ELSE <<>>

\* The slip of leaving _send asleep on the old queue.
SwapSilently(s) ==
    /\ subscribers' = Resubscribed(s)
    /\ Leave(s, StillRead(s, queues[Current(s)]))

\* The slip of subscribing only once the history has been sent.
SwapUnsubscribed(s) ==
    /\ subscribers' = [subscribers EXCEPT ![room[s]] = @ \ {Current(s)}]
    /\ Leave(s, <<Wake>>)

\* The swap, with the sentinel put where _send may be waiting.  A full queue
\* refuses it.
Swap(s) ==
    LET old == queues[Current(s)]
    IN  /\ subscribers' = Resubscribed(s)
        /\ Leave(s, StillRead(s, IF Full(Current(s)) THEN old ELSE Append(old, Wake)))

\* A _send that has been woken on the queue left behind runs before _recv is
\* back from the database.
SenderFirst(s) == sender[s] = "left" => queues[Left(s)] = <<>>

\* The new room's history goes out; whatever the client showed is replaced.
History(s) ==
    /\ conn[s] = "open" /\ recv[s] = "swapped" /\ SenderFirst(s)
    /\ Shows(s, arg[s])
    /\ recv' = [recv EXCEPT ![s] = "idle"]
    /\ arg' = [arg EXCEPT ![s] = Lobby]
    /\ UNCHANGED <<db, standing, conn, room, sender, queues, subscribers>>

\* broadcast as far as its commit: the post of a deleted account is not stored,
\* and has no id.
Store(s) ==
    /\ conn[s] = "open" /\ recv[s] = "idle" /\ broadcasts < MaxBroadcasts
    /\ LET m == [id |-> IF standing[s] = "gone" THEN 0 ELSE broadcasts + 1, room |-> room[s],
              by |-> s]
       IN  /\ posts' = IF m.id = 0 THEN posts ELSE posts \cup {m}
           /\ arg' = [arg EXCEPT ![s] = m]
    /\ broadcasts' = broadcasts + 1
    /\ recv' = [recv EXCEPT ![s] = "stored"]
    /\ UNCHANGED <<channels, unsent, standing, conn, room, sender, queues, subscribers,
                   screen, dropped>>

\* The rest of broadcast: every subscriber of the room at this moment.
Deliver(s) ==
    LET m == arg[s]
        Q == subscribers[m.room]
    IN  /\ conn[s] = "open" /\ recv[s] = "stored"
        /\ queues' = Offered(m, Q)
        /\ dropped' = [t \in Socket |-> IF \E q \in Q : q[1] = t /\ Full(q)
                                          THEN dropped[t] \cup {m} ELSE dropped[t]]
        /\ recv' = [recv EXCEPT ![s] = "idle"]
        /\ arg' = [arg EXCEPT ![s] = Lobby]
        /\ UNCHANGED <<db, standing, conn, room, sender, subscribers, screen>>

-----------------------------------------------------------------------------
(* _send *)

\* get() returns and the frame is written.  After the sentinel _send reads
\* state["queue"] again; a queue it leaves behind is never read again.
Take(s) ==
    /\ conn[s] = "open" /\ sender[s] \in {"now", "left"}
    /\ LET q == <<s, sender[s]>>
       IN  /\ queues[q] # <<>>
           /\ queues' = [queues EXCEPT ![q] = IF sender[s] = "now" THEN Tail(@) ELSE <<>>]
           /\ IF Head(queues[q]) = Wake
              THEN sender' = [sender EXCEPT ![s] = "now"] /\ UNCHANGED screen
              ELSE /\ sender' = [sender EXCEPT ![s] = "busy"]
                   /\ screen' = [screen EXCEPT ![s] = @ \cup {Head(queues[q])}]
    /\ UNCHANGED <<db, standing, loops, subscribers, dropped>>

\* The write is done; a client that does not read is disconnected instead.
Written(s) ==
    /\ conn[s] = "open" /\ sender[s] = "busy"
    /\ sender' = [sender EXCEPT ![s] = "now"]
    /\ UNCHANGED <<db, standing, loops, queues, subscribers, screen, dropped>>

-----------------------------------------------------------------------------
(* Requests beside the sockets *)

\* announce: broadcast_all
Announce ==
    /\ broadcasts < MaxBroadcasts
    /\ broadcasts' = broadcasts + 1
    /\ queues' = Offered(Announcement, UNION {subscribers[r] : r \in Room})
    /\ UNCHANGED <<posts, channels, unsent, standing, loops, sender, subscribers, screen, dropped>>

\* admin_delete_chat
DeleteMessage(m) ==
    /\ m \in posts
    /\ posts' = posts \ {m}
    /\ UNCHANGED <<channels, broadcasts, unsent, standing, loops, sender, queues, subscribers,
                   screen, dropped>>

\* create_channel
CreateChannel(r) ==
    /\ r \in Named \ channels
    /\ channels' = channels \cup {r}
    /\ UNCHANGED <<posts, broadcasts, unsent, standing, loops, sender, queues, subscribers,
                   screen, dropped>>

\* delete_channel.  Sockets in it stay, and may go on posting.
DeleteChannel(r) ==
    /\ r \in channels
    /\ channels' = channels \ {r}
    /\ posts' = {m \in posts : m.room # r}
    /\ UNCHANGED <<broadcasts, unsent, standing, loops, sender, queues, subscribers, screen,
                   dropped>>

\* A session expires or is logged out, or the account is deleted: sockets hear
\* nothing of it.  delete_user takes the account's posts along.
EndSession(s, how) ==
    /\ standing[s] = "live"
    /\ Cardinality({t \in Socket : standing[t] # "live"}) < MaxEnded
    /\ standing' = [standing EXCEPT ![s] = how]
    /\ posts' = IF how = "gone" THEN {m \in posts : m.by # s} ELSE posts
    /\ UNCHANGED <<channels, broadcasts, unsent, loops, sender, queues, subscribers, screen, dropped>>

Recv(s) ==
    \/ \E r \in Room : Check(s, r)
    \/ Swap(s) \/ History(s) \/ Store(s) \/ Deliver(s)

Send(s) == Take(s) \/ Written(s)

Others ==
    \/ Announce
    \/ \E m \in posts : DeleteMessage(m)
    \/ \E r \in Named : CreateChannel(r) \/ DeleteChannel(r)

Next ==
    \/ \E s \in Socket :
          \/ Connect(s) \/ Join(s) \/ Disconnect(s) \/ Ping(s)
          \/ Recv(s) \/ Send(s)
          \/ \E how \in {"ended", "gone"} : EndSession(s, how)
    \/ Others

\* What the server does of itself: a woken _send runs, a write ends or breaks the
\* connection, and every _PING_INTERVAL the session is looked up.  What clients
\* and users do is up to them.
Fairness ==
    \A s \in Socket : WF_vars(Take(s)) /\ WF_vars(Written(s)) /\ WF_vars(Ping(s))

Spec == Init /\ [][Next]_vars /\ Fairness

-----------------------------------------------------------------------------
(* What is claimed of the chat *)

TypeOK ==
    /\ posts \subseteq Post /\ unsent \subseteq Post
    /\ channels \subseteq Named
    /\ broadcasts \in 0..MaxBroadcasts
    /\ standing \in [Socket -> {"live", "ended", "gone"}]
    /\ conn \in [Socket -> {"closed", "joining", "open"}]
    /\ room \in [Socket -> Room]
    /\ recv \in [Socket -> {"idle", "checked", "swapped", "stored"}]
    /\ arg \in [Socket -> Room \cup Post]
    /\ sender \in [Socket -> {"now", "left", "busy", "off"}]
    /\ queues \in [Queue -> Seq(Payload \cup {Wake})]
    /\ subscribers \in [Room -> SUBSET Queue]
    /\ screen \in [Socket -> SUBSET Payload]
    /\ dropped \in [Socket -> SUBSET Post]

Holders(r) == {s \in Socket : conn[s] # "closed" /\ room[s] = r}

\* What broadcast iterates over is right at every moment: a room's subscribers
\* are the current queues of the sockets connected and in it, one each.  No
\* switch, failure or cancelled loop leaves a queue behind that fills for
\* nobody, and none takes a socket out of the room it shows.
SubscribersAreLive ==
    \A r \in Room : subscribers[r] = {Current(s) : s \in Holders(r)}

\* The chat's state is of its type, and its subscribers are the sockets there are.
ChatIsSound == TypeOK /\ SubscribersAreLive

\* "If the old queue is full _send is not parked on it, so there is nothing to
\* wake and the dropped sentinel is harmless" (ws_chat): a _send that still
\* waits on a queue its socket has left has something in it to wake it, and has
\* gone from there before the socket leaves another; and no queue outgrows its
\* bound.
SenderIsWoken ==
    /\ \A s \in Socket : sender[s] = "left" => queues[Left(s)] # <<>> /\ recv[s] = "swapped"
    /\ \A q \in Queue : Len(queues[q]) <= MaxQueued

Settled(s) == conn[s] = "open" /\ recv[s] # "swapped"

InFlight == {arg[s] : s \in {t \in Socket : recv[t] = "stored"}}

\* The history and the live feed leave no gap between them: whatever is stored
\* in a room is on the screen of everyone settled in it, or waits in their
\* queue, unless the queue was full, its sender has not offered it or went down
\* before it did, or HistoryLimit newer ones are there.
NothingMissed ==
    \A s \in Socket : Settled(s) =>
        LET there == screen[s] \cup RangeOf(queues[Current(s)])
        IN  \A m \in posts : m.room = room[s] =>
              \/ m \in there \cup dropped[s] \cup InFlight \cup unsent
              \/ Cardinality({k \in there \ {Announcement} : k.id > m.id}) >= HistoryLimit

\* A settled screen shows one room, the one the next frame is posted to: a
\* message of the room just left, caught in _send, comes before the new history
\* and is replaced by it.  And nobody is sent what is not theirs to read.
OneRoomOnScreen ==
    \A s \in Socket :
        /\ Settled(s) => \A m \in screen[s] \ {Announcement} : m.room = room[s]
        /\ \A m \in screen[s] \ {Announcement} : m.room \in MayRead[s]

\* Nothing is stuck, whatever rooms a socket goes through: once traffic pauses
\* (a run has finitely many broadcasts) all that waits in the queue of an open
\* socket is sent to it.
BacklogIsSent ==
    \A s \in Socket : []<>(conn[s] # "open" \/ queues[Current(s)] = <<>>)

\* "a socket opened before a logout, session expiry, or account deletion would
\* go on reading and posting indefinitely" (_ping): no socket outlives its
\* session for good.
EndedSessionCloses ==
    \A s \in Socket :
        (conn[s] = "open" /\ standing[s] # "live") ~> (conn[s] = "closed")

=============================================================================
