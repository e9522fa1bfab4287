------------------------------- MODULE Autosend -------------------------------
(***************************************************************************)
(* The output buffers of game protocols and the autosend list of           *)
(* OutputMessagePool (src/src/outputmessage.cpp, Protocol::getOutputBuffer *)
(* in src/src/protocol.cpp).  What the game writes to a client gathers in  *)
(* the buffer of its protocol; a task that repeats itself every 10 ms      *)
(* hands the buffers of the listed protocols to their connections.         *)
(*                                                                         *)
(* A step is a task of the dispatcher thread, a connection that closes, or *)
(* one of the two steps in which the network thread writes: it too calls   *)
(* writeToOutputBuffer, for the first message of a client                  *)
(* (protocolgame.cpp:613) and for what it answers to the death screen      *)
(* (765, 779, 783), with no lock, though getOutputBuffer's comment names   *)
(* the dispatcher thread.  If the dispatcher takes or writes the buffer    *)
(* while the network thread holds it, the race is undefined: torn records  *)
(* such protocols, and what is written then may be lost, doubled in place  *)
(* of another message, or sent with what was taken.  It may also end the   *)
(* program, as a behaviour here may end.                                   *)
(* The scheduler is taken as EventService promises: a sendAll that has     *)
(* been scheduled runs some time later.  Messages are numbered, and how    *)
(* many fit a buffer is a constant.                                        *)
(***************************************************************************)
EXTENDS Integers, Sequences

CONSTANTS
  Protocol,
  BufferSize, \* the messages that fit one buffer
  MaxWrites,  \* bound: messages written to a protocol
  MaxLogins   \* bound: logins of a protocol, the first and those from the death screen

ASSUME AutosendAssumption == BufferSize \in Nat \ {0} /\ MaxWrites \in Nat /\ MaxLogins \in Nat

VARIABLES
  phase,             \* of each protocol: new, refused, in the game, on the death screen, released
  open,              \* the protocols whose connection is open
  logins,
  bufferedProtocols, \* how often each protocol is listed
  sendAlls,          \* sendAll tasks scheduled
  outputBuffer,
  delivered,         \* what the connection has been given
  messages,          \* history: how many have been written
  network,           \* whether the network thread holds the buffer of a protocol
  torn               \* history: the protocols whose buffer two threads have used at once

autosendVars == <<phase, open, logins, bufferedProtocols, sendAlls, outputBuffer, delivered, messages,
                  network, torn>>

AutosendInit ==
  /\ phase = [p \in Protocol |-> "new"]
  /\ open = Protocol
  /\ logins = [p \in Protocol |-> 0]
  /\ bufferedProtocols = [p \in Protocol |-> 0]
  /\ sendAlls = 0
  /\ outputBuffer = [p \in Protocol |-> <<>>]
  /\ delivered = [p \in Protocol |-> <<>>]
  /\ messages = [p \in Protocol |-> 0]
  /\ network = [p \in Protocol |-> "idle"]
  /\ torn = {}

Listed == {p \in Protocol : bufferedProtocols[p] > 0}

\* Mutant: a protocol is listed, and nothing scheduled.
AddQuietly(p) ==
  /\ bufferedProtocols' = [bufferedProtocols EXCEPT ![p] = @ + 1]
  /\ UNCHANGED sendAlls

\* addProtocolToAutosend
AddProtocolToAutosend(p) ==
  /\ bufferedProtocols' = [bufferedProtocols EXCEPT ![p] = @ + 1]
  /\ sendAlls' = IF Listed = {} THEN sendAlls + 1 ELSE sendAlls

Held == {p \in Protocol : network[p] = "holds"}

\* onRecvFirstMessage and parsePacket post the login, the first only after it
\* has written.
MayLogin(p) == (phase[p] = "new" /\ p \notin Held) \/ phase[p] = "dead"

\* A login that succeeds, from the first message or from the death screen.
Login(p) ==
  /\ MayLogin(p)
  /\ logins[p] < MaxLogins
  /\ phase' = [phase EXCEPT ![p] = "game"]
  /\ logins' = [logins EXCEPT ![p] = @ + 1]
  /\ AddProtocolToAutosend(p)
  /\ UNCHANGED <<open, outputBuffer, delivered, messages, network, torn>>

\* A login that is refused closes the connection and lists nothing.  A client
\* that was never in the game is answered nothing more.
LoginRefused(p) ==
  /\ MayLogin(p)
  /\ open' = open \ {p}
  /\ phase' = [phase EXCEPT ![p] = IF @ = "new" THEN "refused" ELSE @]
  /\ UNCHANGED <<logins, bufferedProtocols, sendAlls, outputBuffer, delivered, messages, network, torn>>

\* The health of the player is 0, or he is removed; a script may raise it again.
Die(p) ==
  /\ phase[p] = "game"
  /\ phase' = [phase EXCEPT ![p] = "dead"]
  /\ UNCHANGED <<open, logins, bufferedProtocols, sendAlls, outputBuffer, delivered, messages, network, torn>>

Revive(p) ==
  /\ phase[p] = "dead"
  /\ phase' = [phase EXCEPT ![p] = "game"]
  /\ UNCHANGED <<open, logins, bufferedProtocols, sendAlls, outputBuffer, delivered, messages, network, torn>>

\* Protocol::send: a closed connection takes nothing.
Given(p) == IF p \in open THEN delivered[p] \o outputBuffer[p] ELSE delivered[p]

Full(p) == Len(outputBuffer[p]) >= BufferSize

\* getOutputBuffer: a full buffer is sent at once.
Buffer(p) ==
  /\ outputBuffer' = [outputBuffer EXCEPT ![p] = IF Full(p) THEN <<messages'[p]>> ELSE Append(@, messages'[p])]
  /\ delivered' = IF Full(p) THEN [delivered EXCEPT ![p] = Given(p)] ELSE delivered

\* writeToOutputBuffer, from any task of the dispatcher
Write(p) ==
  /\ phase[p] \in {"game", "dead"}
  /\ messages[p] < MaxWrites
  /\ messages' = [messages EXCEPT ![p] = @ + 1]
  /\ Buffer(p)
  /\ torn' = torn \cup (Held \cap {p})
  /\ UNCHANGED <<phase, open, logins, bufferedProtocols, sendAlls, network>>

\* What the network thread writes: the opcode message of an otclient, once
\* and before the login, and the answers to the death screen.
NetworkMayWrite(p) == (phase[p] = "new" /\ messages[p] = 0) \/ phase[p] = "dead"

\* writeToOutputBuffer by the network thread: getOutputBuffer ...
NetworkTakes(p) ==
  /\ p \notin Held /\ p \in open /\ NetworkMayWrite(p)
  /\ messages[p] < MaxWrites
  /\ network' = [network EXCEPT ![p] = "holds"]
  /\ outputBuffer' = [outputBuffer EXCEPT ![p] = IF Full(p) THEN <<>> ELSE @]
  /\ delivered' = IF Full(p) THEN [delivered EXCEPT ![p] = Given(p)] ELSE delivered
  /\ UNCHANGED <<phase, open, logins, bufferedProtocols, sendAlls, messages, torn>>

\* What becomes of message m in a buffer that both threads use.
Gets(p, m) ==
  \/ outputBuffer' = [outputBuffer EXCEPT ![p] = Append(@, m)] /\ UNCHANGED delivered
  \/ outputBuffer' = [outputBuffer EXCEPT ![p] = <<m>>] /\ UNCHANGED delivered
  \/ delivered' = [delivered EXCEPT ![p] = Append(@, m)] /\ UNCHANGED outputBuffer
  \/ UNCHANGED <<outputBuffer, delivered>>

\* ... then append.  The end of the session is followed by a disconnect.
NetworkAppends(p) ==
  /\ p \in Held
  /\ messages[p] < MaxWrites
  /\ messages' = [messages EXCEPT ![p] = @ + 1]
  /\ network' = [network EXCEPT ![p] = "idle"]
  /\ \/ /\ p \notin torn
        /\ outputBuffer' = [outputBuffer EXCEPT ![p] = Append(@, messages'[p])]
        /\ UNCHANGED delivered
     \/ p \in torn /\ Gets(p, messages'[p])
  /\ open' \in {open, open \ {p}}
  /\ UNCHANGED <<phase, logins, bufferedProtocols, sendAlls, torn>>

ConnectionCloses(p) ==
  /\ p \in open
  /\ open' = open \ {p}
  /\ UNCHANGED <<phase, logins, bufferedProtocols, sendAlls, outputBuffer, delivered, messages, network, torn>>

\* ProtocolGame::release, after its connection has closed: the protocol is
\* taken off the list once.
Release(p) ==
  /\ phase[p] # "released" /\ p \notin open
  /\ phase' = [phase EXCEPT ![p] = "released"]
  /\ bufferedProtocols' = [bufferedProtocols EXCEPT ![p] = IF @ > 0 THEN @ - 1 ELSE @]
  /\ UNCHANGED <<open, logins, sendAlls, outputBuffer, delivered, messages, network, torn>>

\* Mutant: the task repeats itself only when it had something to send.
RepeatIfUseful ==
  sendAlls' = IF \E p \in Listed : outputBuffer[p] # <<>> THEN sendAlls ELSE sendAlls - 1

\* sendAll repeats itself while anything is listed.
Repeat == sendAlls' = IF Listed # {} THEN sendAlls ELSE sendAlls - 1

SendAll ==
  /\ sendAlls > 0
  /\ delivered' = [p \in Protocol |-> IF p \in Listed THEN Given(p) ELSE delivered[p]]
  /\ outputBuffer' = [p \in Protocol |-> IF p \in Listed THEN <<>> ELSE outputBuffer[p]]
  /\ torn' = torn \cup (Held \cap Listed)
  /\ Repeat
  /\ UNCHANGED <<phase, open, logins, bufferedProtocols, messages, network>>

AutosendNext ==
  \/ \E p \in Protocol :
       \/ Login(p) \/ LoginRefused(p) \/ Die(p) \/ Revive(p) \/ Write(p)
       \/ NetworkTakes(p) \/ NetworkAppends(p) \/ ConnectionCloses(p) \/ Release(p)
  \/ SendAll

\* What follows the opcode message: the login it belongs to is tried, or refused.
FirstMessageEnds(p) == phase[p] = "new" /\ messages[p] > 0 /\ (Login(p) \/ LoginRefused(p))

\* The scheduler fires what is scheduled; the dispatcher runs the tasks posted to
\* it, the login of a first message and the release of a closed connection.
AutosendSpec ==
  /\ AutosendInit /\ [][AutosendNext]_autosendVars
  /\ WF_autosendVars(SendAll)
  /\ \A p \in Protocol : WF_autosendVars(FirstMessageEnds(p)) /\ WF_autosendVars(Release(p))

-------------------------------------------------------------------------------
AutosendTypeOK ==
  /\ phase \in [Protocol -> {"new", "refused", "game", "dead", "released"}]
  /\ open \subseteq Protocol
  /\ logins \in [Protocol -> 0..MaxLogins]
  /\ bufferedProtocols \in [Protocol -> Nat]
  /\ sendAlls \in Nat
  /\ outputBuffer \in [Protocol -> Seq(1..MaxWrites)]
  /\ delivered \in [Protocol -> Seq(1..MaxWrites)]
  /\ messages \in [Protocol -> 0..MaxWrites]
  /\ network \in [Protocol -> {"idle", "holds"}]
  /\ torn \subseteq Protocol

\* The list is looked after: it empties and fills while old sendAlls are under
\* way, and never is without one.
Pumped == Listed # {} => sendAlls > 0

\* A protocol that is released is on the list no more, and its buffer is freed,
\* unless it logged in more than once: login lists it each time, release takes
\* it off once (protocolgame.cpp:123, 250).
OnlyReloggedStaysListed ==
  \A p \in Protocol : phase[p] = "released" /\ logins[p] <= 1 => bufferedProtocols[p] = 0

\* What SendAll relies on and what keeps it going.
ListTended == AutosendTypeOK /\ Pumped /\ OnlyReloggedStaysListed

\* A client gets what was written in the order it was written, once, and
\* without gaps; while the connection is open, the rest is in the buffer.
\* Not promised to a client whose buffer two threads have used at once.
InOrder ==
  \A p \in Protocol \ torn :
    /\ delivered[p] = [n \in 1..Len(delivered[p]) |-> n]
    /\ p \in open => delivered[p] \o outputBuffer[p] = [n \in 1..messages[p] |-> n]

\* Two threads use a buffer at once only after a login: the opcode message that
\* the network thread writes first (protocolgame.cpp:613) races with nobody, as
\* nothing lists or writes to a protocol before the login that follows it.
TornAfterLogin == \A p \in torn : logins[p] > 0

\* The list of protocols is looked after, and output arrives in order but where
\* the answers of the network thread to a death screen race with the dispatcher.
AutosendSound == ListTended /\ InOrder /\ TornAfterLogin

\* Nothing waits in a buffer for ever, whoever wrote it.
Flushed == \A p \in Protocol : outputBuffer[p] # <<>> ~> (outputBuffer[p] = <<>> \/ phase[p] = "released")
===============================================================================
