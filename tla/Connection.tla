------------------------------ MODULE Connection ------------------------------
(***************************************************************************)
(* One client connection: src/src/connection.cpp, and what ServicePort and *)
(* Protocol (server.cpp, protocol.h) do with it.                           *)
(*                                                                         *)
(* The network thread runs the completions of reads, writes and timers;    *)
(* the dispatcher thread sends messages and disconnects.  connectionLock   *)
(* makes every handler and every call atomic.  An asynchronous operation   *)
(* is "pending" until its completion is queued ("ok" or "error") and gone  *)
(* when the handler runs; closing the socket makes pending operations fail *)
(* but does not change completions already queued, and cancelling a timer  *)
(* does not recall a handler that is already queued.                       *)
(*                                                                         *)
(* Data.  Of what the peer sends only the tests of parseHeader are kept,   *)
(* each with either outcome.  A message is an identity.                    *)
(***************************************************************************)
EXTENDS Naturals, Sequences

CONSTANTS
  Message,     \* messages the dispatcher may send, each at most once
  MaxTimeouts  \* bound on the timer handlers queued at one time

ASSUME ConnectionAssumption == MaxTimeouts \in Nat \ {0}

VARIABLES
  connectionState,
  receivedName, receivedLastChar, receivedFirst,
  protocol,      \* Connection::protocol is set
  socketOpen,
  accepting,     \* the async_accept this connection was created for
  reading,       \* the outstanding async_read: none, pending, ok or error
  body,          \* it reads a packet's content and not a header
  writing,       \* the outstanding async_write
  messageQueue,
  readTimer, writeTimer, \* have a pending wait
  timeouts,      \* expired waits whose handleTimeout has not run
  managed,       \* in ConnectionManager::connections
  destroyed,
  released,      \* history: Protocol::release has been posted
  sent,          \* history: the messages queued, in order
  written        \* history: the messages whose write has succeeded, in order

handshake == <<receivedName, receivedLastChar, receivedFirst, protocol>>
history == <<sent, written>>
vars == <<connectionState, handshake, socketOpen, accepting, reading, body, writing,
          messageQueue, readTimer, writeTimer, timeouts, managed, destroyed,
          released, history>>

Operation == {"none", "pending", "ok", "error"}

\* ServicePort::accept creates the connection and waits for a peer.
Init ==
  /\ connectionState = "PENDING"
  /\ receivedName = FALSE /\ receivedLastChar = FALSE /\ receivedFirst = FALSE
  /\ protocol = FALSE
  /\ socketOpen = FALSE
  /\ accepting = "pending"
  /\ reading = "none" /\ body = FALSE
  /\ writing = "none"
  /\ messageQueue = <<>>
  /\ readTimer = FALSE /\ writeTimer = FALSE /\ timeouts = 0
  /\ managed = TRUE
  /\ destroyed = FALSE
  /\ released = FALSE
  /\ sent = <<>> /\ written = <<>>

(***************************************************************************)
(* Helpers                                                                 *)
(***************************************************************************)
\* closeSocket: an open socket is closed and both timers are cancelled.  rt and
\* wt say whether the handler left the timers pending until then.
CloseSocket(rt, wt) ==
  /\ socketOpen' = FALSE
  /\ readTimer' = (rt /\ ~socketOpen)
  /\ writeTimer' = (wt /\ ~socketOpen)

\* close(force), with the messages of queue still to be written.
Close(force, queue, rt, wt) ==
  /\ managed' = FALSE
  /\ connectionState' = "DISCONNECTED"
  /\ released' = (released \/ protocol)
  /\ IF queue = <<>> \/ force
     THEN CloseSocket(rt, wt)
     ELSE readTimer' = rt /\ writeTimer' = wt /\ UNCHANGED socketOpen

\* Arm the read timer and start reading a header or a packet's content.
Read(content) ==
  /\ readTimer' = TRUE
  /\ reading' = "pending"
  /\ body' = content

\* The handler of a read cancels the read timer first; this one reads no more.
StopReading ==
  /\ reading' = "none"
  /\ body' = FALSE

(***************************************************************************)
(* Accepting                                                               *)
(***************************************************************************)
\* ServicePort::onAccept with a peer that may connect.  A service with a
\* single socket makes its protocol now, and its onConnect is posted.
Accept(singleSocket) ==
  /\ accepting = "pending"
  /\ accepting' = "none"
  /\ socketOpen' = TRUE
  /\ protocol' = singleSocket
  /\ connectionState' = IF singleSocket THEN "GAMEWORLD_AUTH" ELSE "REQUEST_CHARLIST"
  /\ Read(FALSE)
  /\ UNCHANGED <<receivedName, receivedLastChar, receivedFirst, writing, messageQueue,
                 writeTimer, timeouts, managed, destroyed, released, history>>

\* ... with one that Ban::acceptConnection refuses.
Refuse ==
  /\ accepting = "pending"
  /\ accepting' = "none"
  /\ managed' = FALSE
  /\ connectionState' = "DISCONNECTED"
  /\ UNCHANGED <<handshake, socketOpen, reading, body, writing, messageQueue, readTimer,
                 writeTimer, timeouts, destroyed, released, history>>

\* ... with an error: nobody closes the connection.
AcceptFails ==
  /\ accepting = "pending"
  /\ accepting' = "error"
  /\ UNCHANGED <<connectionState, handshake, socketOpen, reading, body, writing,
                 messageQueue, readTimer, writeTimer, timeouts, managed, destroyed,
                 released, history>>

(***************************************************************************)
(* Completions and timers                                                  *)
(***************************************************************************)
ReadCompletes(result) ==
  /\ reading = "pending"
  /\ result = "ok" => socketOpen
  /\ reading' = result
  /\ UNCHANGED <<connectionState, handshake, socketOpen, accepting, body, writing,
                 messageQueue, readTimer, writeTimer, timeouts, managed, destroyed,
                 released, history>>

WriteCompletes(result) ==
  /\ writing = "pending"
  /\ result = "ok" => socketOpen
  /\ writing' = result
  /\ written' = IF result = "ok" THEN Append(written, Head(messageQueue)) ELSE written
  /\ UNCHANGED <<connectionState, handshake, socketOpen, accepting, reading, body,
                 messageQueue, readTimer, writeTimer, timeouts, managed, destroyed,
                 released, sent>>

ReadTimerExpires ==
  /\ readTimer /\ timeouts < MaxTimeouts
  /\ readTimer' = FALSE
  /\ timeouts' = timeouts + 1
  /\ UNCHANGED <<connectionState, handshake, socketOpen, accepting, reading, body, writing,
                 messageQueue, writeTimer, managed, destroyed, released, history>>

WriteTimerExpires ==
  /\ writeTimer /\ timeouts < MaxTimeouts
  /\ writeTimer' = FALSE
  /\ timeouts' = timeouts + 1
  /\ UNCHANGED <<connectionState, handshake, socketOpen, accepting, reading, body, writing,
                 messageQueue, readTimer, managed, destroyed, released, history>>

\* handleTimeout: a wait that expired closes the connection even if what it
\* waited for has happened since; it does nothing once the object is gone.
HandleTimeout ==
  /\ timeouts > 0
  /\ timeouts' = timeouts - 1
  /\ IF destroyed
     THEN UNCHANGED <<connectionState, socketOpen, readTimer, writeTimer, managed, released>>
     ELSE Close(TRUE, messageQueue, readTimer, writeTimer)
  /\ UNCHANGED <<handshake, accepting, reading, body, writing, messageQueue, destroyed, history>>

(***************************************************************************)
(* parseHeader and parsePacket                                             *)
(***************************************************************************)
\* parseHeader or parsePacket with an error.
ReadFailed ==
  /\ reading = "error"
  /\ Close(TRUE, messageQueue, FALSE, writeTimer)
  /\ StopReading
  /\ UNCHANGED <<handshake, accepting, writing, messageQueue, timeouts, destroyed, history>>

\* ... after the connection was disconnected.
ReadAfterClose ==
  /\ reading = "ok" /\ connectionState = "DISCONNECTED"
  /\ readTimer' = FALSE
  /\ StopReading
  /\ UNCHANGED <<connectionState, handshake, socketOpen, accepting, writing, messageQueue,
                 writeTimer, timeouts, managed, destroyed, released, history>>

HeaderRead == reading = "ok" /\ ~body /\ connectionState # "DISCONNECTED"

\* More packets per second than the configuration allows: close unforced.
HeaderOverLimit ==
  /\ HeaderRead
  /\ Close(FALSE, messageQueue, FALSE, writeTimer)
  /\ StopReading
  /\ UNCHANGED <<handshake, accepting, writing, messageQueue, timeouts, destroyed, history>>

InHandshake == connectionState = "GAMEWORLD_AUTH" /\ ~receivedLastChar

\* The client sends its world's name first: read it byte by byte up to the
\* line feed.
ReadWorldName(lineFeed) ==
  /\ HeaderRead /\ InHandshake
  /\ receivedName' = TRUE
  /\ receivedLastChar' = (receivedName /\ lineFeed)
  /\ Read(FALSE)
  /\ UNCHANGED <<connectionState, receivedFirst, protocol, socketOpen, accepting, writing,
                 messageQueue, writeTimer, timeouts, managed, destroyed, released, history>>

\* A header ends the handshake (at once, when the client sends no name) ...
HeaderAccepted ==
  /\ HeaderRead
  /\ ~InHandshake \/ ~receivedName
  /\ receivedLastChar' = (receivedLastChar \/ connectionState = "GAMEWORLD_AUTH")

\* ... and announces a packet of a size that fits the buffer
GoodHeader ==
  /\ HeaderAccepted
  /\ connectionState' = IF connectionState = "GAMEWORLD_AUTH" THEN "GAME" ELSE connectionState
  /\ Read(TRUE)
  /\ UNCHANGED <<receivedName, receivedFirst, protocol, socketOpen, accepting, writing,
                 messageQueue, writeTimer, timeouts, managed, destroyed, released, history>>

\* ... or one that does not.
BadHeader ==
  /\ HeaderAccepted
  /\ Close(TRUE, messageQueue, FALSE, writeTimer)
  /\ StopReading
  /\ UNCHANGED <<receivedName, receivedFirst, protocol, accepting, writing, messageQueue,
                 timeouts, destroyed, history>>

PacketRead == reading = "ok" /\ body /\ connectionState # "DISCONNECTED"

\* The first packet names a protocol this port does not serve.
NoProtocol ==
  /\ PacketRead /\ ~receivedFirst /\ ~protocol
  /\ receivedFirst' = TRUE
  /\ Close(TRUE, messageQueue, FALSE, writeTimer)
  /\ StopReading
  /\ UNCHANGED <<receivedName, receivedLastChar, protocol, accepting, writing, messageQueue,
                 timeouts, destroyed, history>>

\* The packet goes to the protocol, and the next header is read.
Packet ==
  /\ PacketRead
  /\ receivedFirst' = TRUE
  /\ protocol' = TRUE
  /\ Read(FALSE)
  /\ UNCHANGED <<connectionState, receivedName, receivedLastChar, socketOpen, accepting,
                 writing, messageQueue, writeTimer, timeouts, managed, destroyed, released,
                 history>>

\* The protocol disconnects while it handles the packet: the next read is
\* started all the same, and its timer armed.
PacketDisconnects ==
  /\ PacketRead
  /\ receivedFirst' = TRUE
  /\ protocol' = TRUE
  /\ managed' = FALSE
  /\ connectionState' = "DISCONNECTED"
  /\ released' = TRUE
  /\ IF messageQueue = <<>>
     THEN socketOpen' = FALSE /\ writeTimer' = (writeTimer /\ ~socketOpen)
     ELSE UNCHANGED <<socketOpen, writeTimer>>
  /\ Read(FALSE)
  /\ UNCHANGED <<receivedName, receivedLastChar, accepting, writing, messageQueue, timeouts,
                 destroyed, history>>

(***************************************************************************)
(* Sending, and the calls of the dispatcher thread                         *)
(***************************************************************************)
\* Mutant: nothing bounds the write.
StartWriteUntimed ==
  /\ writeTimer' = FALSE
  /\ writing' = "pending"

StartWrite ==
  /\ writeTimer' = TRUE
  /\ writing' = "pending"

\* Connection::send, by Protocol::send.  Messages for a connection that is
\* disconnected are forgotten.
Send(m) ==
  /\ protocol /\ ~destroyed
  /\ connectionState # "DISCONNECTED"
  /\ m \notin {sent[i] : i \in DOMAIN sent}
  /\ messageQueue' = Append(messageQueue, m)
  /\ sent' = Append(sent, m)
  /\ IF messageQueue = <<>> THEN StartWrite ELSE UNCHANGED <<writeTimer, writing>>
  /\ UNCHANGED <<connectionState, handshake, socketOpen, accepting, reading, body, readTimer,
                 timeouts, managed, destroyed, released, written>>

\* onWriteOperation: write the next message, or close the socket of a
\* connection that was disconnected with messages in its queue.
Written ==
  /\ writing = "ok"
  /\ messageQueue' = Tail(messageQueue)
  /\ IF Tail(messageQueue) # <<>>
     THEN StartWrite /\ UNCHANGED <<socketOpen, readTimer>>
     ELSE /\ writing' = "none"
          /\ writeTimer' = FALSE
          /\ IF connectionState = "DISCONNECTED"
             THEN socketOpen' = FALSE /\ readTimer' = (readTimer /\ ~socketOpen)
             ELSE UNCHANGED <<socketOpen, readTimer>>
  /\ UNCHANGED <<connectionState, handshake, accepting, reading, body, timeouts, managed,
                 destroyed, released, history>>

\* Mutant: the messages behind the failed one are kept.
WriteFailedKeeping ==
  /\ writing = "error"
  /\ writing' = "none"
  /\ messageQueue' = Tail(messageQueue)
  /\ Close(TRUE, <<>>, readTimer, FALSE)
  /\ UNCHANGED <<handshake, accepting, reading, body, timeouts, destroyed, history>>

WriteFailed ==
  /\ writing = "error"
  /\ writing' = "none"
  /\ messageQueue' = <<>>
  /\ Close(TRUE, <<>>, readTimer, FALSE)
  /\ UNCHANGED <<handshake, accepting, reading, body, timeouts, destroyed, history>>

\* Protocol::disconnect.
Disconnect ==
  /\ protocol /\ ~destroyed
  /\ Close(FALSE, messageQueue, readTimer, writeTimer)
  /\ UNCHANGED <<handshake, accepting, reading, body, writing, messageQueue, timeouts,
                 destroyed, history>>

\* ConnectionManager::closeAll, in Game::shutdown: sockets are closed under the
\* manager's lock; the connections' timers and states are left alone.
CloseAll ==
  /\ managed
  /\ managed' = FALSE
  /\ socketOpen' = FALSE
  /\ UNCHANGED <<connectionState, handshake, accepting, reading, body, writing, messageQueue,
                 readTimer, writeTimer, timeouts, destroyed, released, history>>

\* The handlers of outstanding operations and the manager hold references.
Referenced == managed \/ accepting = "pending" \/ reading # "none" \/ writing # "none"

\* ~Connection closes the socket; destroying the timers cancels them.
Destroy ==
  /\ ~Referenced /\ ~destroyed
  /\ destroyed' = TRUE
  /\ socketOpen' = FALSE
  /\ readTimer' = FALSE /\ writeTimer' = FALSE
  /\ UNCHANGED <<connectionState, handshake, accepting, reading, body, writing, messageQueue,
                 timeouts, managed, released, history>>

RunReadHandler ==
  \/ ReadFailed \/ ReadAfterClose \/ HeaderOverLimit
  \/ \E lineFeed \in BOOLEAN : ReadWorldName(lineFeed)
  \/ GoodHeader \/ BadHeader \/ NoProtocol \/ Packet \/ PacketDisconnects

RunWriteHandler == Written \/ WriteFailed

Next ==
  \/ \E single \in BOOLEAN : Accept(single)
  \/ Refuse \/ AcceptFails
  \/ \E result \in {"ok", "error"} : ReadCompletes(result) \/ WriteCompletes(result)
  \/ ReadTimerExpires \/ WriteTimerExpires \/ HandleTimeout
  \/ RunReadHandler \/ RunWriteHandler
  \/ \E m \in Message : Send(m)
  \/ Disconnect \/ CloseAll \/ Destroy

\* The network thread runs the handlers that are queued, time passes, and
\* operations on a closed socket fail.  A peer need neither send nor receive.
Fairness ==
  /\ WF_vars(RunReadHandler) /\ WF_vars(RunWriteHandler) /\ WF_vars(HandleTimeout)
  /\ WF_vars(ReadTimerExpires) /\ WF_vars(WriteTimerExpires)
  /\ WF_vars(~socketOpen /\ ReadCompletes("error"))
  /\ WF_vars(~socketOpen /\ WriteCompletes("error"))
  /\ WF_vars(Destroy)

Spec == Init /\ [][Next]_vars /\ Fairness

-------------------------------------------------------------------------------
TypeOK ==
  /\ connectionState \in {"PENDING", "REQUEST_CHARLIST", "GAMEWORLD_AUTH", "GAME", "DISCONNECTED"}
  /\ \A b \in {receivedName, receivedLastChar, receivedFirst, protocol, socketOpen, body,
              readTimer, writeTimer, managed, destroyed, released} : b \in BOOLEAN
  /\ accepting \in {"none", "pending", "error"}
  /\ reading \in Operation /\ writing \in Operation
  /\ messageQueue \in Seq(Message) /\ sent \in Seq(Message) /\ written \in Seq(Message)
  /\ timeouts \in 0..MaxTimeouts

\* One write is outstanding exactly while messages are queued: onWriteOperation
\* never pops an empty queue, and no queued message waits for nothing.
WritingIffQueued == (writing # "none") = (messageQueue # <<>>)

Unwritten == IF writing = "ok" THEN Tail(messageQueue) ELSE messageQueue

\* The peer gets the messages in the order of send, each once; and as long as
\* the socket is open, disconnected or not, none is skipped.
WrittenInOrder ==
  /\ Len(written) <= Len(sent) /\ SubSeq(sent, 1, Len(written)) = written
  /\ socketOpen => sent = written \o Unwritten

\* A connection that is not disconnected always has a read outstanding, and an
\* operation that waits for the peer has a timer that will end it: no path of
\* parseHeader and parsePacket leaves a client that nobody listens to.
NeverUnwatched ==
  /\ accepting = "none" /\ connectionState # "DISCONNECTED" => reading # "none"
  /\ reading = "pending" /\ socketOpen => readTimer \/ timeouts > 0
  /\ writing = "pending" /\ socketOpen => writeTimer \/ timeouts > 0

\* A packet's content is read only when the handshake is over.
PacketsAfterHandshake ==
  reading # "none" /\ body => connectionState # "GAMEWORLD_AUTH" /\ connectionState # "PENDING"

\* A disconnected connection keeps its socket only to write what is queued.
SocketKeptForQueue ==
  connectionState = "DISCONNECTED" /\ socketOpen => messageQueue # <<>>

\* Whichever way a connection with a protocol is closed, the protocol's
\* release has been posted to the dispatcher.
ReleasePosted == connectionState = "DISCONNECTED" /\ protocol => released

\* The flags, the queue and the socket of a connection agree, whichever path
\* brought it where it is.
ConnectionConsistent ==
  /\ TypeOK
  /\ WritingIffQueued
  /\ SocketKeptForQueue
  /\ ReleasePosted

\* A peer that goes silent is dropped: every read comes to an end.
ReadEnds == reading = "pending" ~> reading # "pending"

\* A disconnected connection is eventually destroyed, whatever its peer does.
DisconnectedIsDestroyed == connectionState = "DISCONNECTED" ~> destroyed

\* No peer can hold on to a connection by doing nothing.
SilentPeersAreDropped == ReadEnds /\ DisconnectedIsDestroyed

\* Flags, timers and pending operations agree; the peer gets what was sent, in
\* order, is never left unwatched and is not heard before its handshake.
ConnectionSound == ConnectionConsistent /\ WrittenInOrder /\ NeverUnwatched /\ PacketsAfterHandshake
===============================================================================
