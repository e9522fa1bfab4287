--------------------------- MODULE ConnectionProofs ---------------------------
(***************************************************************************)
(* What Connection promises, proved for any messages and any number of     *)
(* queued timer handlers; what Autosend promises, for any protocols,       *)
(* logins and messages, and buffers of any size; and what WaitList         *)
(* promises, for any clients and any maximum.                              *)
(*                                                                         *)
(* ConnectionSound becomes inductive with two facts more: a connection     *)
(* that has not been accepted is as it was created, and one that is        *)
(* destroyed has neither socket nor timers.                                *)
(***************************************************************************)
EXTENDS Connection, Autosend, WaitList, SequenceTheorems, FiniteSetTheorems, TLAPS

\* Until its accept has completed, a connection is as it was created.
Waiting ==
  IF accepting = "none"
  THEN connectionState # "PENDING"
  ELSE /\ connectionState = "PENDING" /\ ~protocol /\ ~socketOpen
       /\ reading = "none" /\ writing = "none" /\ messageQueue = <<>>
       /\ ~readTimer /\ ~writeTimer /\ timeouts = 0
       /\ sent = <<>> /\ written = <<>>

\* What is destroyed was not referred to, and keeps nothing.
Gone ==
  destroyed => /\ ~socketOpen /\ ~readTimer /\ ~writeTimer
               /\ accepting # "pending" /\ reading = "none" /\ writing = "none"

\* What does not depend on the messages themselves.
Flags ==
  /\ TypeOK /\ Waiting /\ Gone
  /\ WritingIffQueued /\ SocketKeptForQueue /\ ReleasePosted
  /\ NeverUnwatched /\ PacketsAfterHandshake

ConnectionInv == Flags /\ WrittenInOrder

-------------------------------------------------------------------------------
(* The flags *)

\* ServicePort::accept and its outcomes.
LEMMA AcceptingKeeps ==
  ASSUME Flags, Refuse \/ AcceptFails \/ (\E single \in BOOLEAN : Accept(single))
  PROVE  Flags'
<1>1. CASE Refuse
  BY <1>1 DEF Flags, TypeOK, Operation, Waiting, Gone, WritingIffQueued, SocketKeptForQueue,
      ReleasePosted, NeverUnwatched, PacketsAfterHandshake, handshake, history,
      Refuse
<1>2. CASE AcceptFails
  BY <1>2 DEF Flags, TypeOK, Operation, Waiting, Gone, WritingIffQueued, SocketKeptForQueue,
      ReleasePosted, NeverUnwatched, PacketsAfterHandshake, handshake, history,
      AcceptFails
<1>3. ASSUME NEW single \in BOOLEAN, Accept(single)
      PROVE  Flags'
  BY <1>3 DEF Flags, TypeOK, Operation, Waiting, Gone, WritingIffQueued, SocketKeptForQueue,
      ReleasePosted, NeverUnwatched, PacketsAfterHandshake, handshake, history,
      Accept, Read
<1>4. QED BY <1>1, <1>2, <1>3

\* Completions and timers that are queued.
LEMMA CompletionsKeep ==
  ASSUME Flags, (\E result \in {"ok", "error"} : ReadCompletes(result)) \/ (\E result \in {"ok", "error"} : WriteCompletes(result)) \/ ReadTimerExpires \/ WriteTimerExpires \/ HandleTimeout
  PROVE  Flags'
<1>1. ASSUME NEW result \in {"ok", "error"}, ReadCompletes(result)
      PROVE  Flags'
  BY <1>1 DEF Flags, TypeOK, Operation, Waiting, Gone, WritingIffQueued, SocketKeptForQueue,
      ReleasePosted, NeverUnwatched, PacketsAfterHandshake, handshake, history,
      ReadCompletes
<1>2. ASSUME NEW result \in {"ok", "error"}, WriteCompletes(result)
      PROVE  Flags'
  BY <1>2 DEF Flags, TypeOK, Operation, Waiting, Gone, WritingIffQueued, SocketKeptForQueue,
      ReleasePosted, NeverUnwatched, PacketsAfterHandshake, handshake, history,
      WriteCompletes
<1>3. CASE ReadTimerExpires
  <2>1. timeouts' \in 0..MaxTimeouts /\ timeouts' > 0 /\ accepting = "none"
    BY <1>3, ConnectionAssumption DEF ReadTimerExpires, Flags, TypeOK, Waiting
  <2> QED
    BY <1>3, <2>1 DEF Flags, TypeOK, Operation, Waiting, Gone, WritingIffQueued, SocketKeptForQueue,
        ReleasePosted, NeverUnwatched, PacketsAfterHandshake, handshake, history,
        ReadTimerExpires
<1>4. CASE WriteTimerExpires
  <2>1. timeouts' \in 0..MaxTimeouts /\ timeouts' > 0 /\ accepting = "none"
    BY <1>4, ConnectionAssumption DEF WriteTimerExpires, Flags, TypeOK, Waiting
  <2> QED
    BY <1>4, <2>1 DEF Flags, TypeOK, Operation, Waiting, Gone, WritingIffQueued, SocketKeptForQueue,
        ReleasePosted, NeverUnwatched, PacketsAfterHandshake, handshake, history,
        WriteTimerExpires
<1>5. CASE HandleTimeout
  <2>1. timeouts' \in 0..MaxTimeouts /\ timeouts # 0 /\ accepting = "none"
    BY <1>5, ConnectionAssumption DEF HandleTimeout, Flags, TypeOK, Waiting
  <2>2. socketOpen' = FALSE
    BY <1>5 DEF HandleTimeout, Close, CloseSocket, Flags, Gone, TypeOK
  <2> QED
    BY <1>5, <2>1, <2>2 DEF Flags, TypeOK, Operation, Waiting, Gone, WritingIffQueued, SocketKeptForQueue,
        ReleasePosted, NeverUnwatched, PacketsAfterHandshake, handshake, history,
        HandleTimeout, Close, CloseSocket
<1>6. QED BY <1>1, <1>2, <1>3, <1>4, <1>5

\* parseHeader.
LEMMA HeaderKeeps ==
  ASSUME Flags, ReadFailed \/ ReadAfterClose \/ HeaderOverLimit \/ (\E lineFeed \in BOOLEAN : ReadWorldName(lineFeed)) \/ GoodHeader \/ BadHeader
  PROVE  Flags'
<1>1. CASE ReadFailed
  BY <1>1 DEF Flags, TypeOK, Operation, Waiting, Gone, WritingIffQueued, SocketKeptForQueue,
      ReleasePosted, NeverUnwatched, PacketsAfterHandshake, handshake, history,
      ReadFailed, Close, CloseSocket, StopReading
<1>2. CASE ReadAfterClose
  BY <1>2 DEF Flags, TypeOK, Operation, Waiting, Gone, WritingIffQueued, SocketKeptForQueue,
      ReleasePosted, NeverUnwatched, PacketsAfterHandshake, handshake, history,
      ReadAfterClose, StopReading
<1>3. CASE HeaderOverLimit
  BY <1>3 DEF Flags, TypeOK, Operation, Waiting, Gone, WritingIffQueued, SocketKeptForQueue,
      ReleasePosted, NeverUnwatched, PacketsAfterHandshake, handshake, history,
      HeaderOverLimit, HeaderRead, Close, CloseSocket, StopReading
<1>4. ASSUME NEW lineFeed \in BOOLEAN, ReadWorldName(lineFeed)
      PROVE  Flags'
  BY <1>4 DEF Flags, TypeOK, Operation, Waiting, Gone, WritingIffQueued, SocketKeptForQueue,
      ReleasePosted, NeverUnwatched, PacketsAfterHandshake, handshake, history,
      ReadWorldName, HeaderRead, InHandshake, Read
<1>5. CASE GoodHeader
  BY <1>5 DEF Flags, TypeOK, Operation, Waiting, Gone, WritingIffQueued, SocketKeptForQueue,
      ReleasePosted, NeverUnwatched, PacketsAfterHandshake, handshake, history,
      GoodHeader, HeaderAccepted, HeaderRead, InHandshake, Read
<1>6. CASE BadHeader
  BY <1>6 DEF Flags, TypeOK, Operation, Waiting, Gone, WritingIffQueued, SocketKeptForQueue,
      ReleasePosted, NeverUnwatched, PacketsAfterHandshake, handshake, history,
      BadHeader, HeaderAccepted, HeaderRead, InHandshake, Close, CloseSocket, StopReading
<1>7. QED BY <1>1, <1>2, <1>3, <1>4, <1>5, <1>6

\* parsePacket.
LEMMA PacketKeeps ==
  ASSUME Flags, NoProtocol \/ Packet \/ PacketDisconnects
  PROVE  Flags'
<1>1. CASE NoProtocol
  BY <1>1 DEF Flags, TypeOK, Operation, Waiting, Gone, WritingIffQueued, SocketKeptForQueue,
      ReleasePosted, NeverUnwatched, PacketsAfterHandshake, handshake, history,
      NoProtocol, PacketRead, Close, CloseSocket, StopReading
<1>2. CASE Packet
  BY <1>2 DEF Flags, TypeOK, Operation, Waiting, Gone, WritingIffQueued, SocketKeptForQueue,
      ReleasePosted, NeverUnwatched, PacketsAfterHandshake, handshake, history,
      Packet, PacketRead, Read
<1>3. CASE PacketDisconnects
  BY <1>3 DEF Flags, TypeOK, Operation, Waiting, Gone, WritingIffQueued, SocketKeptForQueue,
      ReleasePosted, NeverUnwatched, PacketsAfterHandshake, handshake, history,
      PacketDisconnects, PacketRead, Read
<1>4. QED BY <1>1, <1>2, <1>3

\* Sending, and the completion of writes.
LEMMA SendingKeeps ==
  ASSUME Flags, (\E m \in Message : Send(m)) \/ Written \/ WriteFailed
  PROVE  Flags'
<1>1. ASSUME NEW m \in Message, Send(m)
      PROVE  Flags'
  <2>1. messageQueue' \in Seq(Message) /\ messageQueue' # <<>> /\ sent' \in Seq(Message)
    BY <1>1 DEF Send, Flags, TypeOK
  <2>2. accepting = "none"
    BY <1>1 DEF Send, Flags, Waiting
  <2> QED
    BY <1>1, <2>1, <2>2 DEF Flags, TypeOK, Operation, Waiting, Gone, WritingIffQueued, SocketKeptForQueue,
        ReleasePosted, NeverUnwatched, PacketsAfterHandshake, handshake, history,
        Send, StartWrite
<1>2. CASE Written
  <2>1. messageQueue' \in Seq(Message) /\ messageQueue # <<>>
    BY <1>2 DEF Written, Flags, TypeOK, WritingIffQueued
  <2> QED
    BY <1>2, <2>1 DEF Flags, TypeOK, Operation, Waiting, Gone, WritingIffQueued, SocketKeptForQueue,
        ReleasePosted, NeverUnwatched, PacketsAfterHandshake, handshake, history,
        Written, StartWrite
<1>3. CASE WriteFailed
  <2>1. messageQueue' = <<>> /\ messageQueue' \in Seq(Message) /\ messageQueue # <<>>
    BY <1>3 DEF WriteFailed, Flags, TypeOK, WritingIffQueued
  <2> QED
    BY <1>3, <2>1 DEF Flags, TypeOK, Operation, Waiting, Gone, WritingIffQueued, SocketKeptForQueue,
        ReleasePosted, NeverUnwatched, PacketsAfterHandshake, handshake, history,
        WriteFailed, Close, CloseSocket
<1>4. QED BY <1>1, <1>2, <1>3

\* The dispatcher's calls, and the end.
LEMMA ClosingKeeps ==
  ASSUME Flags, Disconnect \/ CloseAll \/ Destroy \/ UNCHANGED vars
  PROVE  Flags'
<1>1. CASE Disconnect
  BY <1>1 DEF Flags, TypeOK, Operation, Waiting, Gone, WritingIffQueued, SocketKeptForQueue,
      ReleasePosted, NeverUnwatched, PacketsAfterHandshake, handshake, history,
      Disconnect, Close, CloseSocket
<1>2. CASE CloseAll
  BY <1>2 DEF Flags, TypeOK, Operation, Waiting, Gone, WritingIffQueued, SocketKeptForQueue,
      ReleasePosted, NeverUnwatched, PacketsAfterHandshake, handshake, history,
      CloseAll
<1>3. CASE Destroy
  BY <1>3 DEF Flags, TypeOK, Operation, Waiting, Gone, WritingIffQueued, SocketKeptForQueue,
      ReleasePosted, NeverUnwatched, PacketsAfterHandshake, handshake, history,
      Destroy, Referenced
<1>4. CASE UNCHANGED vars
  BY <1>4 DEF Flags, TypeOK, Operation, Waiting, Gone, WritingIffQueued, SocketKeptForQueue,
      ReleasePosted, NeverUnwatched, PacketsAfterHandshake, handshake, history,
      vars
<1>5. QED BY <1>1, <1>2, <1>3, <1>4

-------------------------------------------------------------------------------
(* The order of messages *)

Prefixed(w, s) == Len(w) <= Len(s) /\ SubSeq(s, 1, Len(w)) = w

LEMMA PrefixOfConcat ==
  ASSUME NEW w \in Seq(Message), NEW q \in Seq(Message)
  PROVE  Prefixed(w, w \o q)
<1>1. Len(w) \in Nat /\ Len(q) \in Nat /\ Len(w \o q) = Len(w) + Len(q)
  BY ConcatProperties, LenProperties
<1>2. SubSeq(w \o q, 1, Len(w)) = w
  BY <1>1, ConcatProperties, SubSeqProperties, SeqEqual
<1>3. QED BY <1>1, <1>2 DEF Prefixed

LEMMA PrefixOfAppend ==
  ASSUME NEW w \in Seq(Message), NEW s \in Seq(Message), NEW m \in Message, Prefixed(w, s)
  PROVE  Prefixed(w, Append(s, m))
<1>1. Len(w) \in Nat /\ Len(s) \in Nat /\ Len(Append(s, m)) = Len(s) + 1
  BY AppendProperties, LenProperties
<1>2. \A i \in 1..Len(w) : Append(s, m)[i] = s[i]
  BY <1>1, AppendProperties DEF Prefixed
<1>3. SubSeq(Append(s, m), 1, Len(w)) = SubSeq(s, 1, Len(w))
  BY <1>1, <1>2, SubSeqProperties, AppendProperties, SeqEqual DEF Prefixed
<1>4. QED BY <1>1, <1>3 DEF Prefixed

\* The head of the queue moves to what is written.
LEMMA HeadOver ==
  ASSUME NEW w \in Seq(Message), NEW q \in Seq(Message), q # <<>>
  PROVE  /\ Append(w, Head(q)) \in Seq(Message) /\ Tail(q) \in Seq(Message)
         /\ Append(w, Head(q)) \o Tail(q) = w \o q
<1>1. Head(q) \in Message /\ Tail(q) \in Seq(Message) /\ q = <<Head(q)>> \o Tail(q)
  BY HeadTailProperties
<1>2. <<Head(q)>> \in Seq(Message) /\ Append(w, Head(q)) = w \o <<Head(q)>>
  BY <1>1, AppendIsConcat
<1>3. (w \o <<Head(q)>>) \o Tail(q) = w \o (<<Head(q)>> \o Tail(q))
  BY <1>1, <1>2, ConcatAssociative
<1>4. QED BY <1>1, <1>2, <1>3

LEMMA AppendOver ==
  ASSUME NEW w \in Seq(Message), NEW q \in Seq(Message), NEW m \in Message
  PROVE  Append(w \o q, m) = w \o Append(q, m)
<1>1. <<m>> \in Seq(Message) /\ w \o q \in Seq(Message)
  BY ConcatProperties
<1>2. Append(w \o q, m) = (w \o q) \o <<m>> /\ Append(q, m) = q \o <<m>>
  BY <1>1, AppendIsConcat
<1>3. QED BY <1>1, <1>2, ConcatAssociative

LEMMA NothingWritten == Prefixed(<<>>, <<>>) /\ <<>> \o <<>> = <<>>
<1>1. <<>> \in Seq(Message)
  OBVIOUS
<1>2. <<>> \o <<>> \in Seq(Message) /\ Len(<<>> \o <<>>) = 0
  BY <1>1, ConcatProperties
<1>3. <<>> \o <<>> = <<>>
  BY <1>2, EmptySeq
<1>4. Prefixed(<<>>, <<>> \o <<>>)
  BY <1>1, PrefixOfConcat
<1>5. QED BY <1>3, <1>4

\* Steps that neither write nor send.
LEMMA QuietOrder ==
  ASSUME ConnectionInv, UNCHANGED <<messageQueue, sent, written>>, socketOpen' => socketOpen,
         (writing' = "ok") = (writing = "ok")
  PROVE  WrittenInOrder'
BY DEF ConnectionInv, WrittenInOrder, Unwritten

LEMMA QuietSteps ==
  ASSUME ConnectionInv,
         \/ Refuse \/ AcceptFails \/ ReadCompletes("ok") \/ ReadCompletes("error")
         \/ WriteCompletes("error") \/ ReadTimerExpires \/ WriteTimerExpires \/ HandleTimeout
         \/ RunReadHandler \/ Disconnect \/ CloseAll \/ Destroy \/ UNCHANGED vars
  PROVE  WrittenInOrder'
<1>1. ASSUME ReadCompletes("ok") \/ ReadCompletes("error") \/ WriteCompletes("error")
      PROVE  WrittenInOrder'
  BY <1>1, QuietOrder DEF ReadCompletes, WriteCompletes, history
<1>2. CASE Refuse \/ AcceptFails \/ ReadTimerExpires \/ WriteTimerExpires \/ UNCHANGED vars
  BY <1>2, QuietOrder DEF Refuse, AcceptFails, ReadTimerExpires, WriteTimerExpires, vars, history
<1>3. CASE HandleTimeout \/ Disconnect \/ CloseAll \/ Destroy
  BY <1>3, QuietOrder DEF HandleTimeout, Disconnect, CloseAll, Destroy, Close, CloseSocket, history
<1>4. CASE ReadFailed \/ ReadAfterClose \/ HeaderOverLimit \/ BadHeader \/ NoProtocol
  BY <1>4, QuietOrder DEF ReadFailed, ReadAfterClose, HeaderOverLimit, BadHeader, NoProtocol,
                          Close, CloseSocket, history
<1>5. ASSUME NEW lineFeed \in BOOLEAN, ReadWorldName(lineFeed)
      PROVE  WrittenInOrder'
  BY <1>5, QuietOrder DEF ReadWorldName, history
<1>6. CASE GoodHeader
  BY <1>6, QuietOrder DEF GoodHeader, history
<1>7. CASE Packet \/ PacketDisconnects
  BY <1>7, QuietOrder DEF Packet, PacketDisconnects, history
<1>8. QED BY <1>1, <1>2, <1>3, <1>4, <1>5, <1>6, <1>7 DEF RunReadHandler

LEMMA AcceptOrder ==
  ASSUME ConnectionInv, NEW single \in BOOLEAN, Accept(single)
  PROVE  WrittenInOrder'
<1>1. /\ messageQueue' = <<>> /\ sent' = <<>> /\ written' = <<>> /\ writing' # "ok"
  BY DEF Accept, history, ConnectionInv, Flags, Waiting
<1>2. Prefixed(<<>>, <<>>) /\ <<>> \o <<>> = <<>>
  BY NothingWritten
<1>3. QED BY <1>1, <1>2 DEF WrittenInOrder, Unwritten, Prefixed

LEMMA WriteOrder ==
  ASSUME ConnectionInv, WriteCompletes("ok")
  PROVE  WrittenInOrder'
<1>1. /\ written \in Seq(Message) /\ messageQueue \in Seq(Message) /\ messageQueue # <<>>
      /\ sent = written \o messageQueue
  BY DEF WriteCompletes, ConnectionInv, WrittenInOrder, Unwritten, Flags, TypeOK, WritingIffQueued
<1>2. /\ written' = Append(written, Head(messageQueue)) /\ sent' = sent
      /\ messageQueue' = messageQueue /\ writing' = "ok"
  BY DEF WriteCompletes
<1>3. /\ Append(written, Head(messageQueue)) \in Seq(Message) /\ Tail(messageQueue) \in Seq(Message)
      /\ Append(written, Head(messageQueue)) \o Tail(messageQueue) = sent
  BY <1>1, HeadOver
<1>4. Prefixed(Append(written, Head(messageQueue)), sent)
  BY <1>3, PrefixOfConcat
<1>5. QED BY <1>2, <1>3, <1>4 DEF WrittenInOrder, Unwritten, Prefixed

LEMMA SendOrder ==
  ASSUME ConnectionInv, NEW m \in Message, Send(m)
  PROVE  WrittenInOrder'
<1>1. /\ written \in Seq(Message) /\ messageQueue \in Seq(Message) /\ sent \in Seq(Message)
      /\ Prefixed(written, sent)
      /\ socketOpen => sent = written \o Unwritten
  BY DEF ConnectionInv, Flags, TypeOK, WrittenInOrder, Prefixed
<1>2. /\ written' = written /\ sent' = Append(sent, m) /\ messageQueue' = Append(messageQueue, m)
      /\ socketOpen' = socketOpen
  BY DEF Send
<1>3. Prefixed(written, Append(sent, m))
  BY <1>1, PrefixOfAppend
<1>4. Unwritten \in Seq(Message) /\ Unwritten' = Append(Unwritten, m)
  <2>1. CASE messageQueue = <<>>
    <3>1. writing # "ok" /\ writing' # "ok"
      BY <2>1 DEF Send, StartWrite, ConnectionInv, Flags, WritingIffQueued
    <3>2. QED BY <1>1, <1>2, <3>1 DEF Unwritten
  <2>2. CASE messageQueue # <<>>
    <3>1. writing' = writing
      BY <2>2 DEF Send
    <3>2. Tail(messageQueue) \in Seq(Message)
      BY <1>1, <2>2, HeadTailProperties
    <3>3. Tail(Append(messageQueue, m)) = Append(Tail(messageQueue), m)
      BY <1>1, <2>2, HeadTailAppend
    <3>4. QED BY <1>1, <1>2, <3>1, <3>2, <3>3 DEF Unwritten
  <2>3. QED BY <2>1, <2>2
<1>5. socketOpen => Append(sent, m) = written \o Append(Unwritten, m)
  <2>1. Append(written \o Unwritten, m) = written \o Append(Unwritten, m)
    <3> SUFFICES ASSUME NEW q \in Seq(Message)
                 PROVE  Append(written \o q, m) = written \o Append(q, m)
      BY <1>4
    <3>1. QED BY <1>1, AppendOver
  <2>2. QED BY <1>1, <2>1
<1>6. QED BY <1>2, <1>3, <1>4, <1>5 DEF WrittenInOrder, Prefixed

LEMMA WrittenOrder ==
  ASSUME ConnectionInv, Written \/ WriteFailed
  PROVE  WrittenInOrder'
<1>1. sent' = sent /\ written' = written
  BY DEF Written, WriteFailed, history
<1>2. CASE Written
  <2>1. Unwritten' = Unwritten
    BY <1>2 DEF Written, StartWrite, Unwritten
  <2>2. socketOpen' => socketOpen
    BY <1>2 DEF Written, StartWrite
  <2>3. QED BY <1>1, <2>1, <2>2 DEF ConnectionInv, WrittenInOrder
<1>3. CASE WriteFailed
  <2>1. ~socketOpen'
    BY <1>3 DEF WriteFailed, Close, CloseSocket
  <2>2. QED BY <1>1, <2>1 DEF ConnectionInv, WrittenInOrder
<1>4. QED BY <1>2, <1>3

-------------------------------------------------------------------------------
(* Safety *)

LEMMA InitConnectionInv == Init => ConnectionInv
<1> SUFFICES ASSUME Init PROVE ConnectionInv
  OBVIOUS
<1>1. Flags
  <2>1. TypeOK
    <3>1. timeouts \in 0..MaxTimeouts
      BY ConnectionAssumption DEF Init
    <3>2. messageQueue \in Seq(Message) /\ sent \in Seq(Message) /\ written \in Seq(Message)
      BY EmptySeq DEF Init
    <3>3. QED BY <3>1, <3>2 DEF Init, TypeOK, Operation
  <2>2. Waiting /\ Gone
    BY DEF Init, Waiting, Gone
  <2>3. QED BY <2>1, <2>2 DEF Init, Flags, WritingIffQueued, SocketKeptForQueue, ReleasePosted,
      NeverUnwatched, PacketsAfterHandshake
<1>2. Prefixed(<<>>, <<>>) /\ <<>> \o <<>> = <<>>
  BY NothingWritten
<1>3. QED BY <1>1, <1>2 DEF Init, ConnectionInv, WrittenInOrder, Unwritten, Prefixed

LEMMA NextKeepsConnectionInv == ConnectionInv /\ [Next]_vars => ConnectionInv'
<1> SUFFICES ASSUME ConnectionInv, [Next]_vars PROVE ConnectionInv'
  OBVIOUS
<1>1. Flags
  BY DEF ConnectionInv
<1>2. CASE Refuse \/ AcceptFails \/ \E single \in BOOLEAN : Accept(single)
  BY <1>1, <1>2, AcceptingKeeps, AcceptOrder, QuietSteps DEF ConnectionInv
<1>3. CASE \E result \in {"ok", "error"} : ReadCompletes(result) \/ WriteCompletes(result)
  BY <1>1, <1>3, CompletionsKeep, QuietSteps, WriteOrder DEF ConnectionInv
<1>4. CASE ReadTimerExpires \/ WriteTimerExpires \/ HandleTimeout
  BY <1>1, <1>4, CompletionsKeep, QuietSteps DEF ConnectionInv
<1>5. CASE RunReadHandler
  BY <1>1, <1>5, HeaderKeeps, PacketKeeps, QuietSteps DEF ConnectionInv, RunReadHandler
<1>6. CASE RunWriteHandler \/ \E m \in Message : Send(m)
  BY <1>1, <1>6, SendingKeeps, SendOrder, WrittenOrder DEF ConnectionInv, RunWriteHandler
<1>7. CASE Disconnect \/ CloseAll \/ Destroy \/ UNCHANGED vars
  BY <1>1, <1>7, ClosingKeeps, QuietSteps DEF ConnectionInv
<1>8. QED BY <1>2, <1>3, <1>4, <1>5, <1>6, <1>7 DEF Next

\* ConnectionInv, with what makes it inductive, holds in every reachable state.
THEOREM ConnectionInvariance == Spec => []ConnectionInv
<1>1. QED BY InitConnectionInv, NextKeepsConnectionInv, PTL DEF Spec

\* Whatever the order of completions, timers and calls of the dispatcher: a
\* write is outstanding just while messages are queued, a disconnected
\* connection keeps its socket only for them and has told its protocol, the peer
\* gets what was sent, in order, nothing waits for the peer without a timer, and
\* no packet is read before the handshake is over (connection.cpp).
THEOREM ConnectionsAreSound == Spec => []ConnectionSound
<1>1. ConnectionInv => ConnectionSound
  BY DEF ConnectionInv, Flags, ConnectionSound, ConnectionConsistent
<1>2. QED BY <1>1, ConnectionInvariance, PTL

-----------------------------------------------------------------------------
(***************************************************************************)
(* Autosend.  A protocol is listed at most once for each of its logins,    *)
(* and at least once less when it is released (Counted): that is why one   *)
(* login is forgotten by one release.  A protocol that the game writes to  *)
(* or that is listed has logged in (Entered): so two threads use no buffer *)
(* before a login.                                                         *)
(***************************************************************************)

Counted ==
  \A p \in Protocol :
    /\ bufferedProtocols[p] <= logins[p]
    /\ phase[p] = "released" => bufferedProtocols[p] = 0 \/ bufferedProtocols[p] < logins[p]

Entered == \A p \in Protocol : phase[p] \in {"game", "dead"} => logins[p] > 0

AutosendInv == AutosendTypeOK /\ Pumped /\ Counted /\ InOrder /\ Entered /\ TornAfterLogin

Count(m) == [n \in 1..m |-> n]

LEMMA CountOn ==
  ASSUME NEW N \in Nat, NEW d \in Seq(1..N), NEW b \in Seq(1..N), NEW m \in Nat, m < N,
         d \o b = Count(m)
  PROVE  /\ d \o Append(b, m + 1) = Count(m + 1)
         /\ (d \o b) \o <<m + 1>> = Count(m + 1)
         /\ m + 1 \in 1..N /\ Append(b, m + 1) \in Seq(1..N) /\ <<m + 1>> \in Seq(1..N)
<1>1. d \o b \in Seq(1..N) /\ Len(d \o b) = m /\ \A i \in 1..m : (d \o b)[i] = i
  BY DEF Count
<1>2. d \o Append(b, m + 1) = Append(d \o b, m + 1)
  OBVIOUS
<1>3. (d \o b) \o <<m + 1>> = Append(d \o b, m + 1)
  BY <1>1
<1>4. Append(d \o b, m + 1) = Count(m + 1)
  <2>. DEFINE a == Append(d \o b, m + 1)
  <2>1. a \in Seq(1..N) /\ Len(a) = m + 1 /\ (\A i \in 1..m : a[i] = i) /\ a[m + 1] = m + 1
    BY <1>1
  <2>. HIDE DEF a
  <2>2. \A i \in 1..m + 1 : a[i] = i
    BY <2>1
  <2>3. a = [i \in 1..m + 1 |-> a[i]]
    BY <2>1
  <2>4. a = Count(m + 1)
    BY <2>2, <2>3 DEF Count
  <2> QED BY <2>4 DEF a
<1>5. m + 1 \in 1..N
  OBVIOUS
<1>6. Append(b, m + 1) \in Seq(1..N) /\ <<m + 1>> \in Seq(1..N)
  BY <1>5
<1> QED BY <1>2, <1>3, <1>4, <1>5, <1>6

\* A sequence that counts is Count of its length.
LEMMA LengthOfCount ==
  ASSUME NEW m \in Nat
  PROVE  Len(Count(m)) = m /\ Count(m) = Count(Len(Count(m)))
  BY DEF Count

InOrderOf(p) ==
  /\ delivered[p] = Count(Len(delivered[p]))
  /\ p \in open => delivered[p] \o outputBuffer[p] = Count(messages[p])

LEMMA OrderOfEach == InOrder <=> \A p \in Protocol \ torn : InOrderOf(p)
  BY DEF InOrder, InOrderOf, Count

\* Logins, deaths and connections that close write nothing.
LEMMA QuietAutosend ==
  ASSUME AutosendInv, NEW p \in Protocol,
         Login(p) \/ LoginRefused(p) \/ Die(p) \/ Revive(p) \/ ConnectionCloses(p) \/ Release(p)
  PROVE  AutosendInv'
<1>. USE AutosendAssumption
<1>1. AutosendTypeOK'
  <2>1. CASE Login(p)
    <3>1. /\ UNCHANGED <<open, outputBuffer, delivered, messages, network, torn>>
          /\ phase' = [phase EXCEPT ![p] = "game"] /\ logins' = [logins EXCEPT ![p] = @ + 1]
          /\ bufferedProtocols' = [bufferedProtocols EXCEPT ![p] = @ + 1]
          /\ sendAlls' \in {sendAlls, sendAlls + 1} /\ logins[p] < MaxLogins
      BY <2>1 DEF Login, AddProtocolToAutosend
    <3>2. logins' \in [Protocol -> 0..MaxLogins]
      <4>1. logins[p] \in 0..MaxLogins /\ logins[p] + 1 \in 0..MaxLogins
        BY <3>1 DEF AutosendInv, AutosendTypeOK
      <4> QED BY <3>1, <4>1 DEF AutosendInv, AutosendTypeOK
    <3>3. bufferedProtocols' \in [Protocol -> Nat] /\ sendAlls' \in Nat
      BY <3>1 DEF AutosendInv, AutosendTypeOK
    <3> QED BY <3>1, <3>2, <3>3 DEF AutosendInv, AutosendTypeOK
  <2>2. CASE LoginRefused(p) \/ Die(p) \/ Revive(p) \/ ConnectionCloses(p)
    BY <2>2 DEF AutosendInv, AutosendTypeOK, LoginRefused, Die, Revive, ConnectionCloses
  <2>3. CASE Release(p)
    <3>1. bufferedProtocols' \in [Protocol -> Nat]
      BY <2>3 DEF AutosendInv, AutosendTypeOK, Release
    <3> QED BY <2>3, <3>1 DEF AutosendInv, AutosendTypeOK, Release
  <2> QED BY <2>1, <2>2, <2>3
<1>2. Pumped'
  <2>1. CASE Login(p)
    <3>1. sendAlls \in Nat /\ sendAlls' = IF Listed = {} THEN sendAlls + 1 ELSE sendAlls
      BY <2>1 DEF AutosendInv, AutosendTypeOK, Login, AddProtocolToAutosend
    <3>2. sendAlls' > 0
      BY <3>1 DEF AutosendInv, Pumped
    <3> QED BY <3>2 DEF Pumped
  <2>2. CASE LoginRefused(p) \/ Die(p) \/ Revive(p) \/ ConnectionCloses(p)
    BY <2>2 DEF AutosendInv, Pumped, Listed, LoginRefused, Die, Revive, ConnectionCloses
  <2>3. CASE Release(p)
    <3>1. Listed' \subseteq Listed
      BY <2>3 DEF AutosendInv, AutosendTypeOK, Listed, Release
    <3> QED BY <2>3, <3>1 DEF AutosendInv, Pumped, Release
  <2> QED BY <2>1, <2>2, <2>3
<1>3. Counted'
  <2>. SUFFICES ASSUME NEW q \in Protocol
                PROVE  /\ bufferedProtocols'[q] <= logins'[q]
                       /\ phase'[q] = "released" => \/ bufferedProtocols'[q] = 0
                                                    \/ bufferedProtocols'[q] < logins'[q]
    BY DEF Counted
  <2>1. /\ bufferedProtocols[q] \in Nat /\ logins[q] \in Nat /\ bufferedProtocols[q] <= logins[q]
        /\ phase[q] = "released" => bufferedProtocols[q] = 0 \/ bufferedProtocols[q] < logins[q]
    BY DEF AutosendInv, AutosendTypeOK, Counted
  <2>2. CASE Login(p)
    BY <2>1, <2>2 DEF AutosendInv, AutosendTypeOK, Login, AddProtocolToAutosend
  <2>3. CASE LoginRefused(p) \/ Die(p) \/ Revive(p) \/ ConnectionCloses(p)
    BY <2>1, <2>3 DEF AutosendInv, AutosendTypeOK, LoginRefused, Die, Revive, ConnectionCloses
  <2>4. CASE Release(p)
    BY <2>1, <2>4 DEF AutosendInv, AutosendTypeOK, Release
  <2> QED BY <2>2, <2>3, <2>4
<1>4. InOrder'
  <2>1. UNCHANGED <<delivered, outputBuffer, messages, torn>> /\ open' \subseteq open
    BY DEF Login, LoginRefused, Die, Revive, ConnectionCloses, Release
  <2> QED BY <2>1 DEF AutosendInv, InOrder
<1>5. \A q \in Protocol : logins'[q] \in Nat /\ logins[q] \in Nat /\ logins'[q] >= logins[q]
  <2>1. CASE Login(p)
    BY <2>1 DEF AutosendInv, AutosendTypeOK, Login
  <2>2. CASE LoginRefused(p) \/ Die(p) \/ Revive(p) \/ ConnectionCloses(p) \/ Release(p)
    BY <2>2 DEF AutosendInv, AutosendTypeOK, LoginRefused, Die, Revive, ConnectionCloses, Release
  <2> QED BY <2>1, <2>2
<1>6. Entered'
  <2>. SUFFICES ASSUME NEW q \in Protocol, phase'[q] \in {"game", "dead"} PROVE logins'[q] > 0
    BY DEF Entered
  <2>1. phase[q] \in {"game", "dead"} => logins[q] > 0
    BY DEF AutosendInv, Entered
  <2>2. CASE Login(p)
    BY <1>5, <2>1, <2>2 DEF AutosendInv, AutosendTypeOK, Login
  <2>3. CASE LoginRefused(p) \/ Die(p) \/ Revive(p) \/ ConnectionCloses(p)
    BY <2>1, <2>3 DEF AutosendInv, AutosendTypeOK, LoginRefused, Die, Revive, ConnectionCloses
  <2>4. CASE Release(p)
    BY <2>1, <2>4 DEF AutosendInv, AutosendTypeOK, Release
  <2> QED BY <2>2, <2>3, <2>4
<1>7. TornAfterLogin'
  <2>1. torn' = torn /\ torn \subseteq Protocol
    BY DEF AutosendInv, AutosendTypeOK, Login, LoginRefused, Die, Revive, ConnectionCloses, Release
  <2> QED BY <1>5, <2>1 DEF AutosendInv, TornAfterLogin
<1> QED BY <1>1, <1>2, <1>3, <1>4, <1>6, <1>7 DEF AutosendInv

\* Whoever is torn by a step has logged in.
LEMMA TornKeeps ==
  ASSUME AutosendInv, UNCHANGED <<phase, logins>>,
         NEW T \in SUBSET Protocol, torn' = torn \cup T,
         \A q \in T : phase[q] \in {"game", "dead"} \/ bufferedProtocols[q] > 0
  PROVE  Entered' /\ TornAfterLogin' /\ torn' \subseteq Protocol
<1>1. Entered' /\ torn' \subseteq Protocol
  BY DEF AutosendInv, AutosendTypeOK, Entered
<1>2. ASSUME NEW q \in torn' PROVE logins'[q] > 0
  <2>1. CASE q \in torn
    BY <2>1 DEF AutosendInv, TornAfterLogin
  <2>2. CASE q \in T
    <3>1. q \in Protocol /\ logins[q] \in Nat /\ bufferedProtocols[q] \in Nat /\ bufferedProtocols[q] <= logins[q]
      BY <2>2 DEF AutosendInv, AutosendTypeOK, Counted
    <3> QED BY <2>2, <3>1 DEF AutosendInv, Entered
  <2> QED BY <1>2, <2>1, <2>2
<1> QED BY <1>1, <1>2 DEF TornAfterLogin

LEMMA WriteKeeps ==
  ASSUME AutosendInv, NEW p \in Protocol, Write(p)
  PROVE  AutosendInv'
<1>. DEFINE d == delivered[p]
            b == outputBuffer[p]
            m == messages[p]
<1>1. /\ d \in Seq(1..MaxWrites) /\ b \in Seq(1..MaxWrites) /\ m \in Nat /\ m < MaxWrites
      /\ MaxWrites \in Nat /\ BufferSize \in Nat
  BY AutosendAssumption DEF AutosendInv, AutosendTypeOK, Write
<1>2. /\ messages' = [messages EXCEPT ![p] = m + 1] /\ messages'[p] = m + 1
      /\ UNCHANGED <<phase, open, logins, bufferedProtocols, sendAlls, network>>
      /\ torn' = torn \cup (Held \cap {p}) /\ phase[p] \in {"game", "dead"}
  BY DEF Write, AutosendInv, AutosendTypeOK
<1>3. /\ outputBuffer' = [outputBuffer EXCEPT ![p] = IF Full(p) THEN <<m + 1>> ELSE Append(b, m + 1)]
      /\ delivered' = IF Full(p) THEN [delivered EXCEPT ![p] = Given(p)] ELSE delivered
  BY <1>2 DEF Write, Buffer
<1>4. p \notin torn => d = Count(Len(d)) /\ (p \in open => d \o b = Count(m))
  BY OrderOfEach DEF AutosendInv, InOrderOf
<1>5. /\ m + 1 \in 1..MaxWrites /\ <<m + 1>> \in Seq(1..MaxWrites)
      /\ Append(b, m + 1) \in Seq(1..MaxWrites) /\ d \o b \in Seq(1..MaxWrites)
  BY <1>1
<1>11. Entered' /\ TornAfterLogin' /\ torn' \subseteq Protocol
  BY <1>2, TornKeeps
<1>6. AutosendTypeOK'
  <2>1. outputBuffer' \in [Protocol -> Seq(1..MaxWrites)]
    BY <1>3, <1>5 DEF AutosendInv, AutosendTypeOK
  <2>2. delivered' \in [Protocol -> Seq(1..MaxWrites)]
    BY <1>1, <1>3, <1>5 DEF AutosendInv, AutosendTypeOK, Given
  <2>3. messages' \in [Protocol -> 0..MaxWrites]
    BY <1>1, <1>2 DEF AutosendInv, AutosendTypeOK
  <2> QED BY <1>2, <1>11, <2>1, <2>2, <2>3 DEF AutosendInv, AutosendTypeOK
<1>7. Pumped' /\ Counted'
  BY <1>2 DEF AutosendInv, Pumped, Listed, Counted
<1>8. ASSUME p \notin torn PROVE InOrderOf(p)'
  <2>1. /\ outputBuffer'[p] = IF Full(p) THEN <<m + 1>> ELSE Append(b, m + 1)
        /\ delivered'[p] = IF Full(p) THEN Given(p) ELSE d
    BY <1>3 DEF AutosendInv, AutosendTypeOK
  <2>2. CASE p \notin open
    BY <1>2, <1>4, <1>8, <2>1, <2>2 DEF InOrderOf, Given
  <2>3. CASE p \in open
    <3>4. d \o b = Count(m)
      BY <1>4, <1>8, <2>3
    <3>. HIDE DEF d, b, m
    <3>1. /\ d \o b = Count(m) /\ d \o b = Count(Len(d \o b))
          /\ d \o Append(b, m + 1) = Count(m + 1) /\ (d \o b) \o <<m + 1>> = Count(m + 1)
      BY <1>1, <3>4, CountOn, LengthOfCount
    <3>2. Given(p) = d \o b
      BY <2>3 DEF Given, d, b
    <3> QED BY <1>2, <1>4, <1>8, <2>1, <3>1, <3>2 DEF InOrderOf
  <2> QED BY <2>2, <2>3
<1>9. \A q \in Protocol \ ({p} \cup torn) : InOrderOf(q)'
  <2>. SUFFICES ASSUME NEW q \in Protocol \ ({p} \cup torn) PROVE InOrderOf(q)'
    OBVIOUS
  <2>1. delivered'[q] = delivered[q] /\ outputBuffer'[q] = outputBuffer[q] /\ messages'[q] = messages[q]
    BY <1>2, <1>3 DEF AutosendInv, AutosendTypeOK
  <2>2. InOrderOf(q)
    BY OrderOfEach DEF AutosendInv
  <2> QED BY <1>2, <2>1, <2>2 DEF InOrderOf
<1>10. InOrder'
  BY <1>2, <1>8, <1>9 DEF InOrder, InOrderOf, Count
<1> QED BY <1>6, <1>7, <1>10, <1>11 DEF AutosendInv

\* What the network thread does keeps what does not depend on the order.
LEMMA NetworkKeepsTypes ==
  ASSUME AutosendInv, UNCHANGED <<phase, logins, bufferedProtocols, sendAlls, torn>>,
         open' \subseteq open,
         network' \in [Protocol -> {"idle", "holds"}], messages' \in [Protocol -> 0..MaxWrites],
         outputBuffer' \in [Protocol -> Seq(1..MaxWrites)],
         delivered' \in [Protocol -> Seq(1..MaxWrites)],
         InOrder'
  PROVE  AutosendInv'
<1>1. AutosendTypeOK'
  BY DEF AutosendInv, AutosendTypeOK
<1>2. Pumped' /\ Counted' /\ Entered' /\ TornAfterLogin'
  BY DEF AutosendInv, Pumped, Listed, Counted, Entered, TornAfterLogin
<1> QED BY <1>1, <1>2 DEF AutosendInv

LEMMA NetworkTakesKeeps ==
  ASSUME AutosendInv, NEW p \in Protocol, NetworkTakes(p)
  PROVE  AutosendInv'
<1>. DEFINE d == delivered[p]
            b == outputBuffer[p]
            m == messages[p]
<1>1. /\ d \in Seq(1..MaxWrites) /\ b \in Seq(1..MaxWrites) /\ m \in Nat
      /\ UNCHANGED <<phase, open, logins, bufferedProtocols, sendAlls, messages, torn>> /\ p \in open
      /\ network' \in [Protocol -> {"idle", "holds"}]
  BY DEF AutosendInv, AutosendTypeOK, NetworkTakes
<1>2. /\ outputBuffer' = [outputBuffer EXCEPT ![p] = IF Full(p) THEN <<>> ELSE b]
      /\ delivered' = IF Full(p) THEN [delivered EXCEPT ![p] = d \o b] ELSE delivered
  BY <1>1 DEF NetworkTakes, Given
<1>3. <<>> \in Seq(1..MaxWrites) /\ d \o b \in Seq(1..MaxWrites) /\ (d \o b) \o <<>> = d \o b
  BY <1>1
<1>4. /\ outputBuffer' \in [Protocol -> Seq(1..MaxWrites)]
      /\ delivered' \in [Protocol -> Seq(1..MaxWrites)]
  BY <1>1, <1>2, <1>3 DEF AutosendInv, AutosendTypeOK
<1>5. ASSUME NEW q \in Protocol \ torn PROVE InOrderOf(q)'
  <2>1. InOrderOf(q)
    BY OrderOfEach DEF AutosendInv
  <2>2. CASE q # p \/ ~Full(p)
    <3>1. delivered'[q] = delivered[q] /\ outputBuffer'[q] = outputBuffer[q]
      BY <1>2, <2>2 DEF AutosendInv, AutosendTypeOK
    <3> QED BY <1>1, <2>1, <3>1 DEF InOrderOf
  <2>3. CASE q = p /\ Full(p)
    <3>1. delivered'[p] = d \o b /\ outputBuffer'[p] = <<>>
      BY <1>2, <2>3 DEF AutosendInv, AutosendTypeOK
    <3>2. d \o b = Count(m)
      BY <1>1, <2>1, <2>3 DEF InOrderOf
    <3>. HIDE DEF d, b
    <3>3. d \o b = Count(Len(d \o b))
      BY <1>1, <3>2, LengthOfCount
    <3> QED BY <1>1, <1>3, <2>3, <3>1, <3>2, <3>3 DEF InOrderOf
  <2> QED BY <2>2, <2>3
<1>6. InOrder'
  BY <1>1, <1>5 DEF InOrder, InOrderOf, Count
<1>7. messages' \in [Protocol -> 0..MaxWrites]
  BY <1>1 DEF AutosendInv, AutosendTypeOK
<1> QED BY <1>1, <1>4, <1>6, <1>7, NetworkKeepsTypes

LEMMA NetworkAppendsKeeps ==
  ASSUME AutosendInv, NEW p \in Protocol, NetworkAppends(p)
  PROVE  AutosendInv'
<1>. DEFINE d == delivered[p]
            b == outputBuffer[p]
            m == messages[p]
<1>1. /\ d \in Seq(1..MaxWrites) /\ b \in Seq(1..MaxWrites) /\ m \in Nat /\ m < MaxWrites
      /\ MaxWrites \in Nat
      /\ UNCHANGED <<phase, logins, bufferedProtocols, sendAlls, torn>> /\ open' \subseteq open
      /\ network' \in [Protocol -> {"idle", "holds"}]
  BY AutosendAssumption DEF AutosendInv, AutosendTypeOK, NetworkAppends
<1>2. messages' = [messages EXCEPT ![p] = m + 1] /\ messages'[p] = m + 1
  BY DEF NetworkAppends, AutosendInv, AutosendTypeOK
<1>3. /\ m + 1 \in 1..MaxWrites /\ <<m + 1>> \in Seq(1..MaxWrites)
      /\ Append(b, m + 1) \in Seq(1..MaxWrites) /\ Append(d, m + 1) \in Seq(1..MaxWrites)
  BY <1>1
<1>4. /\ p \notin torn => /\ outputBuffer' = [outputBuffer EXCEPT ![p] = Append(b, m + 1)]
                         /\ delivered' = delivered
      /\ \/ outputBuffer' = [outputBuffer EXCEPT ![p] = Append(b, m + 1)] /\ delivered' = delivered
         \/ outputBuffer' = [outputBuffer EXCEPT ![p] = <<m + 1>>] /\ delivered' = delivered
         \/ delivered' = [delivered EXCEPT ![p] = Append(d, m + 1)] /\ outputBuffer' = outputBuffer
         \/ outputBuffer' = outputBuffer /\ delivered' = delivered
  BY <1>2 DEF NetworkAppends, Gets
<1>5. /\ outputBuffer' \in [Protocol -> Seq(1..MaxWrites)]
      /\ delivered' \in [Protocol -> Seq(1..MaxWrites)]
  BY <1>3, <1>4 DEF AutosendInv, AutosendTypeOK
<1>6. ASSUME NEW q \in Protocol \ torn PROVE InOrderOf(q)'
  <2>1. InOrderOf(q)
    BY OrderOfEach DEF AutosendInv
  <2>2. CASE q # p
    <3>1. delivered'[q] = delivered[q] /\ outputBuffer'[q] = outputBuffer[q] /\ messages'[q] = messages[q]
      BY <1>2, <1>4, <2>2 DEF AutosendInv, AutosendTypeOK
    <3> QED BY <1>1, <2>1, <3>1 DEF InOrderOf
  <2>3. CASE q = p
    <3>1. delivered'[p] = d /\ outputBuffer'[p] = Append(b, m + 1)
      BY <1>4, <2>3 DEF AutosendInv, AutosendTypeOK
    <3>2. d = Count(Len(d)) /\ (p \in open => d \o b = Count(m))
      BY <2>1, <2>3 DEF InOrderOf
    <3>. HIDE DEF d, b, m
    <3>3. ASSUME p \in open PROVE d \o Append(b, m + 1) = Count(m + 1)
      <4>1. /\ MaxWrites \in Nat /\ d \in Seq(1..MaxWrites) /\ b \in Seq(1..MaxWrites)
            /\ m \in Nat /\ m < MaxWrites
        BY <1>1
      <4>2. d \o b = Count(m)
        BY <3>2, <3>3
      <4> QED BY <4>1, <4>2, CountOn
    <3> QED BY <1>1, <1>2, <2>3, <3>1, <3>2, <3>3 DEF InOrderOf
  <2> QED BY <2>2, <2>3
<1>7. InOrder'
  BY <1>1, <1>6 DEF InOrder, InOrderOf, Count
<1>8. messages' \in [Protocol -> 0..MaxWrites]
  BY <1>2, <1>3 DEF AutosendInv, AutosendTypeOK
<1> QED BY <1>1, <1>5, <1>7, <1>8, NetworkKeepsTypes

LEMMA SendAllKeeps ==
  ASSUME AutosendInv, SendAll
  PROVE  AutosendInv'
<1>1. /\ UNCHANGED <<phase, open, logins, bufferedProtocols, messages, network>>
      /\ torn' = torn \cup (Held \cap Listed)
      /\ delivered' = [p \in Protocol |-> IF p \in Listed THEN Given(p) ELSE delivered[p]]
      /\ outputBuffer' = [p \in Protocol |-> IF p \in Listed THEN <<>> ELSE outputBuffer[p]]
      /\ sendAlls' = IF Listed # {} THEN sendAlls ELSE sendAlls - 1
      /\ sendAlls > 0
  BY DEF SendAll, Repeat
<1>7. Entered' /\ TornAfterLogin' /\ torn' \subseteq Protocol
  BY <1>1, TornKeeps DEF Held, Listed
<1>2. AutosendTypeOK'
  <2>1. sendAlls' \in Nat
    BY <1>1 DEF AutosendInv, AutosendTypeOK
  <2>2. ASSUME NEW p \in Protocol
        PROVE  /\ Given(p) \in Seq(1..MaxWrites)
               /\ delivered[p] \in Seq(1..MaxWrites) /\ outputBuffer[p] \in Seq(1..MaxWrites)
    <3>1. delivered[p] \in Seq(1..MaxWrites) /\ outputBuffer[p] \in Seq(1..MaxWrites)
      BY DEF AutosendInv, AutosendTypeOK
    <3>2. delivered[p] \o outputBuffer[p] \in Seq(1..MaxWrites)
      BY <3>1
    <3> QED BY <3>1, <3>2 DEF Given
  <2>3. delivered' \in [Protocol -> Seq(1..MaxWrites)] /\ outputBuffer' \in [Protocol -> Seq(1..MaxWrites)]
    <3>1. <<>> \in Seq(1..MaxWrites)
      OBVIOUS
    <3> QED BY <1>1, <2>2, <3>1
  <2> QED BY <1>1, <1>7, <2>1, <2>3 DEF AutosendInv, AutosendTypeOK
<1>3. Pumped'
  BY <1>1 DEF AutosendInv, Pumped, Listed
<1>4. Counted'
  BY <1>1 DEF AutosendInv, Counted
<1>5. ASSUME NEW p \in Protocol \ torn PROVE InOrderOf(p)'
  <2>1. InOrderOf(p)
    BY OrderOfEach DEF AutosendInv
  <2>2. CASE p \notin Listed \/ p \notin open
    BY <1>1, <2>1, <2>2 DEF InOrderOf, Given
  <2>3. CASE p \in Listed /\ p \in open
    <3>1. /\ delivered'[p] = delivered[p] \o outputBuffer[p] /\ outputBuffer'[p] = <<>>
          /\ delivered[p] \in Seq(1..MaxWrites) /\ outputBuffer[p] \in Seq(1..MaxWrites)
          /\ messages'[p] = messages[p] /\ messages[p] \in Nat
      BY <1>1, <2>3 DEF Given, AutosendInv, AutosendTypeOK
    <3>2. delivered'[p] = Count(messages[p]) /\ delivered'[p] = Count(Len(delivered'[p]))
      BY <2>1, <2>3, <3>1, LengthOfCount DEF InOrderOf
    <3>3. delivered'[p] \o <<>> = delivered'[p]
      BY <3>1
    <3> QED BY <3>1, <3>2, <3>3 DEF InOrderOf
  <2> QED BY <2>2, <2>3
<1>6. InOrder'
  BY <1>1, <1>5 DEF InOrder, InOrderOf, Count
<1> QED BY <1>2, <1>3, <1>4, <1>6, <1>7 DEF AutosendInv

\* For any protocols, logins and buffers: while a protocol is listed a sendAll
\* is on its way, a protocol that logged in once and is released is listed no
\* more; a client gets what was written, in order and without gaps, with the
\* rest in the buffer while the connection is open, unless two threads used its
\* buffer at once; and this the network thread, which writes the first message
\* and the answers to a death screen, does to nobody before a login
\* (outputmessage.cpp:25, protocol.cpp:68, protocolgame.cpp:613).
THEOREM OutputIsSound == AutosendSpec => []AutosendSound
<1>1. AutosendInit => AutosendInv
  <2>. SUFFICES ASSUME AutosendInit PROVE AutosendInv
    OBVIOUS
  <2>1. AutosendTypeOK
    BY AutosendAssumption DEF AutosendInit, AutosendTypeOK
  <2>2. Pumped /\ Counted /\ Entered /\ TornAfterLogin
    BY DEF AutosendInit, Pumped, Counted, Listed, Entered, TornAfterLogin
  <2>3. <<>> \o <<>> = Count(0) /\ Len(<<>>) = 0 /\ <<>> = Count(0)
    BY DEF Count
  <2>4. InOrder
    BY <2>3, OrderOfEach DEF AutosendInit, InOrderOf
  <2> QED BY <2>1, <2>2, <2>4 DEF AutosendInv
<1>2. AutosendInv /\ [AutosendNext]_autosendVars => AutosendInv'
  <2>. SUFFICES ASSUME AutosendInv, [AutosendNext]_autosendVars PROVE AutosendInv'
    OBVIOUS
  <2>1. ASSUME NEW p \in Protocol,
               Login(p) \/ LoginRefused(p) \/ Die(p) \/ Revive(p) \/ ConnectionCloses(p) \/ Release(p)
        PROVE  AutosendInv'
    BY <2>1, QuietAutosend
  <2>2. ASSUME NEW p \in Protocol, Write(p) PROVE AutosendInv'
    BY <2>2, WriteKeeps
  <2>3. CASE SendAll
    BY <2>3, SendAllKeeps
  <2>4. CASE UNCHANGED autosendVars
    BY <2>4 DEF autosendVars, AutosendInv, AutosendTypeOK, Pumped, Counted, InOrder, Listed, Entered,
                TornAfterLogin
  <2>5. ASSUME NEW p \in Protocol, NetworkTakes(p) \/ NetworkAppends(p) PROVE AutosendInv'
    BY <2>5, NetworkTakesKeeps, NetworkAppendsKeeps
  <2> QED BY <2>1, <2>2, <2>3, <2>4, <2>5 DEF AutosendNext
<1>3. AutosendInv => AutosendSound
  <2>. SUFFICES ASSUME AutosendInv PROVE AutosendSound
    OBVIOUS
  <2>1. OnlyReloggedStaysListed
    BY DEF AutosendInv, AutosendTypeOK, Counted, OnlyReloggedStaysListed
  <2> QED BY <2>1 DEF AutosendInv, AutosendSound, ListTended
<1> QED BY <1>1, <1>2, <1>3, PTL DEF AutosendSpec

-----------------------------------------------------------------------------
(* The waiting list.  What is left when entries are dropped keeps its order. *)

Below(S, k) == {j \in S : j <= k}

LEMMA BelowGrows ==
  ASSUME NEW S \in SUBSET Nat, IsFiniteSet(S), NEW k \in S, NEW l \in S
  PROVE  /\ IsFiniteSet(Below(S, k)) /\ Cardinality(Below(S, k)) \in 1 .. Cardinality(S)
         /\ k < l => Cardinality(Below(S, k)) < Cardinality(Below(S, l))
<1>1. /\ Below(S, k) \in SUBSET S /\ Below(S, l) \in SUBSET S /\ k \in Below(S, k) /\ l \in Below(S, l)
      /\ k < l => Below(S, k) \in SUBSET Below(S, l) /\ l \notin Below(S, k)
  <2>1. k \in Nat /\ l \in Nat /\ \A j \in S : j \in Nat
    OBVIOUS
  <2>2. k \in Below(S, k) /\ l \in Below(S, l)
    BY <2>1 DEF Below
  <2>3. ASSUME k < l PROVE Below(S, k) \in SUBSET Below(S, l) /\ l \notin Below(S, k)
    <3>1. \A j \in S : j <= k => j <= l
      BY <2>1, <2>3
    <3>2. ~(l <= k)
      BY <2>1, <2>3
    <3> QED BY <3>1, <3>2 DEF Below
  <2> QED BY <2>2, <2>3 DEF Below
<1>2. /\ IsFiniteSet(Below(S, k)) /\ IsFiniteSet(Below(S, l))
      /\ Cardinality(Below(S, k)) <= Cardinality(S)
  BY <1>1, FS_Subset
<1>3. Cardinality(Below(S, k)) \in Nat /\ Cardinality(Below(S, k)) # 0 /\ Cardinality(S) \in Nat
  BY <1>1, <1>2, FS_CardinalityType, FS_EmptySet
<1>4. ASSUME k < l PROVE Cardinality(Below(S, k)) < Cardinality(Below(S, l))
  <2>1. Below(S, k) \in SUBSET Below(S, l) /\ Below(S, k) # Below(S, l)
    BY <1>1, <1>4
  <2>2. /\ Cardinality(Below(S, k)) <= Cardinality(Below(S, l))
        /\ Cardinality(Below(S, k)) = Cardinality(Below(S, l)) => Below(S, k) = Below(S, l)
    BY <1>2, <2>1, FS_Subset
  <2>3. Cardinality(Below(S, k)) \in Nat /\ Cardinality(Below(S, l)) \in Nat
    BY <1>2, FS_CardinalityType
  <2> QED BY <2>1, <2>2, <2>3
<1> QED BY <1>2, <1>3, <1>4

\* Nth(S, i) is the i-th number of S.
LEMMA NthFacts ==
  ASSUME NEW S \in SUBSET Nat, IsFiniteSet(S)
  PROVE  /\ \A i \in 1 .. Cardinality(S) : Nth(S, i) \in S /\ Cardinality(Below(S, Nth(S, i))) = i
         /\ \A i, j \in 1 .. Cardinality(S) : i < j => Nth(S, i) < Nth(S, j)
         /\ \A k \in S : \E i \in 1 .. Cardinality(S) : Nth(S, i) = k
<1>. DEFINE n == Cardinality(S)
            r == [k \in S |-> Cardinality(Below(S, k))]
<1>0. n \in Nat
  BY FS_CardinalityType
<1>1. \A k \in S : r[k] \in 1 .. n
  BY BelowGrows
<1>2. \A k, l \in S : k < l => r[k] < r[l]
  BY BelowGrows
<1>3. \A k, l \in S : r[k] = r[l] => k = l
  <2>1. ASSUME NEW k \in S, NEW l \in S, r[k] = r[l] PROVE k = l
    <3>1. k \in Nat /\ l \in Nat /\ r[k] \in Nat /\ r[l] \in Nat
      BY <1>1
    <3>2. ~(k < l) /\ ~(l < k)
      <4>. HIDE DEF r
      <4> QED BY <1>2, <2>1, <3>1
    <3> QED BY <3>1, <3>2
  <2> QED BY <2>1
<1>4. r \in Surjection(S, 1 .. n)
  <2>1. r \in Injection(S, 1 .. n)
    BY <1>1, <1>3 DEF Injection, IsInjective
  <2>2. IsFiniteSet(1 .. n) /\ Cardinality(1 .. n) = n
    BY <1>0, FS_Interval
  <2>. HIDE DEF r
  <2> QED BY <2>1, <2>2, FS_Injection
<1>5. ASSUME NEW i \in 1 .. n PROVE Nth(S, i) \in S /\ r[Nth(S, i)] = i
  <2>1. PICK k \in S : r[k] = i
    BY <1>4 DEF Surjection
  <2>2. \E x \in S : Cardinality({j \in S : j <= x}) = i
    BY <2>1 DEF Below
  <2>3. Nth(S, i) \in S /\ Cardinality({j \in S : j <= Nth(S, i)}) = i
    BY <2>2 DEF Nth
  <2> QED BY <2>3 DEF Below
<1>6. ASSUME NEW i \in 1 .. n, NEW j \in 1 .. n, i < j PROVE Nth(S, i) < Nth(S, j)
  <2>1. /\ Nth(S, i) \in S /\ Nth(S, j) \in S /\ r[Nth(S, i)] = i /\ r[Nth(S, j)] = j
    BY <1>5
  <2>. HIDE DEF r
  <2>2. Nth(S, i) \in Nat /\ Nth(S, j) \in Nat /\ i \in Nat /\ j \in Nat
    <3>1. Nth(S, i) \in S /\ Nth(S, j) \in S
      BY <2>1
    <3>2. i \in Nat /\ j \in Nat
      BY <1>0
    <3> QED BY <3>1, <3>2
  <2>3. Nth(S, i) # Nth(S, j)
    BY <2>1, <2>2, <1>6
  <2>4. ~(Nth(S, j) < Nth(S, i))
    <3>1. Nth(S, j) < Nth(S, i) => r[Nth(S, j)] < r[Nth(S, i)]
      BY <2>1, <1>2
    <3> QED BY <3>1, <2>1, <2>2, <1>6
  <2> QED BY <2>2, <2>3, <2>4
<1>7. ASSUME NEW k \in S PROVE \E i \in 1 .. n : Nth(S, i) = k
  <2>1. r[k] \in 1 .. n
    BY <1>1
  <2>. HIDE DEF r
  <2>2. Nth(S, r[k]) \in S /\ r[Nth(S, r[k])] = r[k]
    BY <2>1, <1>5
  <2>3. Nth(S, r[k]) = k
    BY <2>2, <1>3
  <2> QED BY <2>1, <2>3
<1> QED BY <1>5, <1>6, <1>7

\* No client is in the list twice.
Single(L) == \A i, j \in 1 .. Len(L) : L[i] = L[j] => i = j

\* Where the entries that are left are in the list.
Spot(list, gone, i) == Nth(Kept(list, gone), i)

LEMMA LeftFacts ==
  ASSUME NEW list \in Seq(Client), NEW gone
  PROVE  /\ Left(list, gone) \in Seq(Client)
         /\ \A i \in 1 .. Len(Left(list, gone)) :
              /\ Spot(list, gone, i) \in 1 .. Len(list) /\ Left(list, gone)[i] = list[Spot(list, gone, i)]
              /\ Left(list, gone)[i] \notin gone
         /\ \A i, j \in 1 .. Len(Left(list, gone)) : i < j => Spot(list, gone, i) < Spot(list, gone, j)
         /\ \A k \in 1 .. Len(list) : list[k] \notin gone =>
              \E i \in 1 .. Len(Left(list, gone)) : Spot(list, gone, i) = k /\ Left(list, gone)[i] = list[k]
<1>. DEFINE kept == Kept(list, gone)
            rest == Left(list, gone)
<1>1. Len(list) \in Nat /\ \A k \in 1 .. Len(list) : list[k] \in Client
  OBVIOUS
<1>2. kept \in SUBSET Nat /\ kept \in SUBSET (1 .. Len(list)) /\ IsFiniteSet(kept) /\ Cardinality(kept) \in Nat
  <2>1. kept \in SUBSET (1 .. Len(list)) /\ IsFiniteSet(1 .. Len(list))
    BY <1>1, FS_Interval DEF Kept
  <2>. HIDE DEF kept
  <2>2. IsFiniteSet(kept)
    BY <2>1, FS_Subset
  <2> QED BY <2>1, <2>2, FS_CardinalityType
<1>3. /\ \A k \in kept : k \in 1 .. Len(list) /\ list[k] \notin gone
      /\ \A k \in 1 .. Len(list) : list[k] \notin gone => k \in kept
  BY DEF Kept
<1>4. rest = [i \in 1 .. Cardinality(kept) |-> list[Nth(kept, i)]]
  BY DEF Left
<1>. HIDE DEF kept, rest
<1>5. /\ \A i \in 1 .. Cardinality(kept) : Nth(kept, i) \in kept
      /\ \A i, j \in 1 .. Cardinality(kept) : i < j => Nth(kept, i) < Nth(kept, j)
      /\ \A k \in kept : \E i \in 1 .. Cardinality(kept) : Nth(kept, i) = k
  BY <1>2, NthFacts
<1>6. \A i \in 1 .. Cardinality(kept) : Nth(kept, i) \in 1 .. Len(list) /\ list[Nth(kept, i)] \notin gone
  BY <1>3, <1>5
<1>7. rest \in Seq(Client) /\ Len(rest) = Cardinality(kept)
  BY <1>1, <1>2, <1>4, <1>6
<1>8. \A i \in 1 .. Cardinality(kept) : rest[i] = list[Nth(kept, i)]
  BY <1>4
<1>9. ASSUME NEW k \in 1 .. Len(list), list[k] \notin gone
      PROVE  \E i \in 1 .. Len(rest) : Nth(kept, i) = k /\ rest[i] = list[k]
  <2>1. PICK i \in 1 .. Cardinality(kept) : Nth(kept, i) = k
    BY <1>3, <1>5, <1>9
  <2> QED BY <2>1, <1>7, <1>8
<1> QED BY <1>5, <1>6, <1>7, <1>8, <1>9 DEF Spot, kept, rest

\* Nothing is dropped when nothing is expired.
LEMMA LeftAll ==
  ASSUME NEW list \in Seq(Client)
  PROVE  Left(list, {}) = list
<1>. DEFINE kept == Kept(list, {})
<1>1. Len(list) \in Nat /\ kept = 1 .. Len(list)
  BY DEF Kept
<1>2. Left(list, {}) = [i \in 1 .. Cardinality(kept) |-> list[Nth(kept, i)]]
  BY DEF Left
<1>. HIDE DEF kept
<1>3. Cardinality(kept) = Len(list) /\ IsFiniteSet(kept) /\ kept \in SUBSET Nat
  BY <1>1, FS_Interval
<1>4. ASSUME NEW i \in 1 .. Len(list) PROVE Nth(kept, i) = i
  <2>1. Nth(kept, i) \in kept /\ Cardinality(Below(kept, Nth(kept, i))) = i
    BY <1>3, NthFacts
  <2>2. Below(kept, Nth(kept, i)) = 1 .. Nth(kept, i) /\ Nth(kept, i) \in Nat
    BY <2>1, <1>1 DEF Below
  <2>3. Cardinality(1 .. Nth(kept, i)) = Nth(kept, i)
    BY <2>2, FS_Interval
  <2> QED BY <2>1, <2>2, <2>3
<1>5. Left(list, {}) = [i \in 1 .. Len(list) |-> list[i]]
  BY <1>2, <1>3, <1>4
<1> QED BY <1>5

\* A list of what rest has or some of it, in the same order, and perhaps new once.
Reshaped(new, list, rest) ==
  \E h \in [1 .. Len(list) -> 0 .. Len(rest)] :
    /\ \A i \in 1 .. Len(list) : IF h[i] = 0 THEN list[i] = new ELSE list[i] = rest[h[i]]
    /\ \A i, j \in 1 .. Len(list) : i < j => (h[i] = 0 /\ h[j] # 0) \/ (h[i] # 0 /\ h[j] = 0) \/ h[i] < h[j]

LEMMA LeftSingle ==
  ASSUME NEW list \in Seq(Client), NEW gone, Single(list)
  PROVE  Single(Left(list, gone))
<1>. DEFINE rest == Left(list, gone)
            at(i) == Spot(list, gone, i)
<1>1. /\ rest \in Seq(Client)
      /\ \A i \in 1 .. Len(rest) : at(i) \in 1 .. Len(list) /\ rest[i] = list[at(i)]
      /\ \A i, j \in 1 .. Len(rest) : i < j => at(i) < at(j)
  <2>1. rest \in Seq(Client)
    BY LeftFacts, Zenon
  <2>2. \A i \in 1 .. Len(rest) : at(i) \in 1 .. Len(list) /\ rest[i] = list[at(i)]
    <3>1. \A i \in 1 .. Len(Left(list, gone)) :
            /\ Spot(list, gone, i) \in 1 .. Len(list)
            /\ Left(list, gone)[i] = list[Spot(list, gone, i)]
            /\ Left(list, gone)[i] \notin gone
      BY LeftFacts
    <3> QED BY <3>1, Zenon
  <2>3. \A i, j \in 1 .. Len(Left(list, gone)) : i < j => Spot(list, gone, i) < Spot(list, gone, j)
    BY LeftFacts, Zenon
  <2> QED BY <2>1, <2>2, <2>3, Zenon
<1>. HIDE DEF rest, at
<1>2. ASSUME NEW i \in 1 .. Len(rest), NEW j \in 1 .. Len(rest), rest[i] = rest[j] PROVE i = j
  <2>1. at(i) = at(j) /\ at(i) \in Nat
    BY <1>1, <1>2 DEF Single
  <2>2. i \in Nat /\ j \in Nat
    BY <1>1
  <2>3. ~(i < j) /\ ~(j < i)
    BY <1>1, <2>1
  <2> QED BY <2>2, <2>3
<1> QED BY <1>2 DEF Single, rest

\* Such a list keeps the order.
LEMMA ReshapedSingle ==
  ASSUME NEW rest \in Seq(Client), Single(rest), NEW new, \A i \in 1 .. Len(rest) : rest[i] # new,
         NEW list \in Seq(Client), Reshaped(new, list, rest)
  PROVE  Single(list)
<1>1. PICK h \in [1 .. Len(list) -> 0 .. Len(rest)] :
        /\ \A i \in 1 .. Len(list) : IF h[i] = 0 THEN list[i] = new ELSE list[i] = rest[h[i]]
        /\ \A i, j \in 1 .. Len(list) : i < j => (h[i] = 0 /\ h[j] # 0) \/ (h[i] # 0 /\ h[j] = 0) \/ h[i] < h[j]
  BY DEF Reshaped
<1>2. ASSUME NEW i \in 1 .. Len(list), NEW j \in 1 .. Len(list), list[i] = list[j] PROVE ~(i < j)
  <2>1. h[i] \in 0 .. Len(rest) /\ h[j] \in 0 .. Len(rest) /\ Len(rest) \in Nat
    OBVIOUS
  <2>2. h[i] = h[j]
    <3>1. h[i] # 0 => h[i] \in 1 .. Len(rest)
      BY <2>1
    <3>2. h[j] # 0 => h[j] \in 1 .. Len(rest)
      BY <2>1
    <3> QED BY <1>1, <1>2, <3>1, <3>2 DEF Single
  <2> QED BY <1>1, <2>1, <2>2
<1>3. \A i, j \in 1 .. Len(list) : i \in Nat /\ j \in Nat
  OBVIOUS
<1>4. ASSUME NEW i \in 1 .. Len(list), NEW j \in 1 .. Len(list), list[i] = list[j] PROVE i = j
  <2>1. ~(i < j) /\ ~(j < i)
    BY <1>2, <1>4
  <2> QED BY <2>1, <1>3
<1> QED BY <1>4 DEF Single

OrderStays(list, gone, next) ==
  \A c, d \in ToSet(list) \ gone :
    \A i \in Slots(list, c), j \in Slots(list, d) :
      i < j => \A k \in Slots(next, c), l \in Slots(next, d) : k < l

LEMMA ReshapedOrder ==
  ASSUME NEW list \in Seq(Client), NEW gone, Single(list), NEW new, NEW next \in Seq(Client),
         \A i \in 1 .. Len(Left(list, gone)) : Left(list, gone)[i] # new,
         Reshaped(new, next, Left(list, gone))
  PROVE  OrderStays(list, gone, next)
<1>. DEFINE rest == Left(list, gone)
            at(i) == Spot(list, gone, i)
<1>1. /\ rest \in Seq(Client)
      /\ \A i \in 1 .. Len(rest) : at(i) \in 1 .. Len(list) /\ rest[i] = list[at(i)]
      /\ \A i, j \in 1 .. Len(rest) : i < j => at(i) < at(j)
      /\ \A k \in 1 .. Len(list) : list[k] \notin gone => \E i \in 1 .. Len(rest) : rest[i] = list[k]
  BY LeftFacts
<1>2. \A i \in 1 .. Len(rest) : rest[i] # new
  OBVIOUS
<1>3. PICK h \in [1 .. Len(next) -> 0 .. Len(rest)] :
        /\ \A i \in 1 .. Len(next) : IF h[i] = 0 THEN next[i] = new ELSE next[i] = rest[h[i]]
        /\ \A i, j \in 1 .. Len(next) : i < j => (h[i] = 0 /\ h[j] # 0) \/ (h[i] # 0 /\ h[j] = 0) \/ h[i] < h[j]
  BY DEF Reshaped
<1>. HIDE DEF rest, at
<1>4. ASSUME NEW k \in 1 .. Len(next), NEW i \in 1 .. Len(list), list[i] \notin gone, next[k] = list[i]
      PROVE  h[k] \in 1 .. Len(rest) /\ at(h[k]) = i
  <2>1. next[k] # new
    BY <1>1, <1>2, <1>4
  <2>2. h[k] # 0 /\ h[k] \in 0 .. Len(rest) /\ Len(rest) \in Nat /\ next[k] = rest[h[k]]
    <3>1. h[k] # 0 /\ next[k] = rest[h[k]]
      BY <2>1, <1>3
    <3>2. h[k] \in 0 .. Len(rest) /\ Len(rest) \in Nat
      <4>1. h \in [1 .. Len(next) -> 0 .. Len(rest)] /\ rest \in Seq(Client)
        BY <1>1
      <4> QED BY <4>1
    <3> QED BY <3>1, <3>2
  <2>3. h[k] \in 1 .. Len(rest)
    BY <2>2
  <2>4. at(h[k]) \in 1 .. Len(list) /\ list[at(h[k])] = list[i]
    BY <1>1, <1>4, <2>2, <2>3
  <2> QED BY <2>3, <2>4 DEF Single
<1>5. ASSUME NEW i \in 1 .. Len(list), NEW j \in 1 .. Len(list), list[i] \notin gone, list[j] \notin gone, i < j,
             NEW k \in 1 .. Len(next), NEW l \in 1 .. Len(next), next[k] = list[i], next[l] = list[j]
      PROVE  k < l
  <2>1. h[k] \in 1 .. Len(rest) /\ at(h[k]) = i /\ h[l] \in 1 .. Len(rest) /\ at(h[l]) = j
    BY <1>4, <1>5
  <2>2. k \in Nat /\ l \in Nat /\ i \in Nat /\ j \in Nat /\ h[k] \in Nat /\ h[l] \in Nat /\ h[k] # 0 /\ h[l] # 0
    BY <1>1, <2>1
  <2>3. k # l
    BY <2>1, <2>2, <1>5
  <2>4. ~(l < k)
    <3>1. SUFFICES ASSUME l < k PROVE FALSE
      OBVIOUS
    <3>2. h[l] < h[k]
      BY <3>1, <1>3, <2>2
    <3>3. j < i
      BY <3>2, <2>1, <1>1
    <3> QED BY <3>3, <2>2, <1>5
  <2> QED BY <2>2, <2>3, <2>4
<1>6. ASSUME NEW c \in ToSet(list) \ gone, NEW d \in ToSet(list) \ gone,
             NEW i \in Slots(list, c), NEW j \in Slots(list, d), i < j,
             NEW k \in Slots(next, c), NEW l \in Slots(next, d)
      PROVE  k < l
  <2>1. /\ i \in 1 .. Len(list) /\ list[i] = c /\ j \in 1 .. Len(list) /\ list[j] = d
        /\ k \in 1 .. Len(next) /\ next[k] = c /\ l \in 1 .. Len(next) /\ next[l] = d
    BY DEF Slots
  <2> QED BY <2>1, <1>5, <1>6
<1> QED BY <1>6 DEF OrderStays

LEMMA RemoveAtShapes ==
  ASSUME NEW L \in Seq(Client), NEW s \in 1 .. Len(L), NEW new
  PROVE  /\ RemoveAt(L, s) \in Seq(Client) /\ Len(RemoveAt(L, s)) = Len(L) - 1
         /\ \A i \in 1 .. Len(L) - 1 : RemoveAt(L, s)[i] = L[IF i < s THEN i ELSE i + 1]
         /\ Reshaped(new, RemoveAt(L, s), L)
<1>. DEFINE a == SubSeq(L, 1, s - 1)
            b == SubSeq(L, s + 1, Len(L))
            M == RemoveAt(L, s)
            h == [i \in 1 .. Len(L) - 1 |-> IF i < s THEN i ELSE i + 1]
<1>1. Len(L) \in Nat /\ s \in Nat /\ \A i \in 1 .. Len(L) : L[i] \in Client
  OBVIOUS
<1>2. /\ a \in Seq(Client) /\ Len(a) = s - 1 /\ \A i \in 1 .. s - 1 : a[i] = L[i]
  BY <1>1
<1>3. /\ b \in Seq(Client) /\ Len(b) = Len(L) - s /\ \A i \in 1 .. Len(L) - s : b[i] = L[s + i]
  BY <1>1
<1>4. M = a \o b
  BY DEF RemoveAt
<1>. HIDE DEF a, b, M
<1>5. M \in Seq(Client) /\ Len(M) = Len(L) - 1
  BY <1>1, <1>2, <1>3, <1>4
<1>6. ASSUME NEW i \in 1 .. Len(L) - 1 PROVE M[i] = L[IF i < s THEN i ELSE i + 1]
  <2>1. M[i] = IF i <= Len(a) THEN a[i] ELSE b[i - Len(a)]
    BY <1>1, <1>2, <1>3, <1>4
  <2>2. CASE i < s
    BY <2>1, <2>2, <1>1, <1>2
  <2>3. CASE ~(i < s)
    <3>1. i - (s - 1) \in 1 .. Len(L) - s /\ ~(i <= Len(a)) /\ s + (i - (s - 1)) = i + 1
      BY <2>3, <1>1, <1>2
    <3>2. b[i - (s - 1)] = L[s + (i - (s - 1))]
      BY <3>1, <1>3
    <3> QED BY <2>1, <2>3, <3>1, <3>2, <1>2
  <2> QED BY <2>2, <2>3
<1>7. Reshaped(new, M, L)
  <2>1. h \in [1 .. Len(M) -> 0 .. Len(L)]
    BY <1>1, <1>5
  <2>2. \A i \in 1 .. Len(M) : h[i] # 0 /\ M[i] = L[h[i]]
    BY <1>1, <1>5, <1>6
  <2>3. \A i, j \in 1 .. Len(M) : i < j => h[i] < h[j]
    BY <1>1, <1>5
  <2>. HIDE DEF h
  <2> QED BY <2>1, <2>2, <2>3 DEF Reshaped
<1> QED BY <1>5, <1>6, <1>7 DEF M

LEMMA InsertShapes ==
  ASSUME NEW L \in Seq(Client), NEW k \in 0 .. Len(L), NEW c \in Client
  PROVE  /\ InsertBefore(L, k, c) \in Seq(Client) /\ Len(InsertBefore(L, k, c)) = Len(L) + 1
         /\ \A i \in 1 .. k : InsertBefore(L, k, c)[i] = L[i]
         /\ InsertBefore(L, k, c)[k + 1] = c
         /\ Reshaped(c, InsertBefore(L, k, c), L)
         /\ Append(L, c) = InsertBefore(L, Len(L), c)
<1>. DEFINE a == SubSeq(L, 1, k)
            b == SubSeq(L, k + 1, Len(L))
            M == InsertBefore(L, k, c)
            h == [i \in 1 .. Len(L) + 1 |-> IF i <= k THEN i ELSE IF i = k + 1 THEN 0 ELSE i - 1]
<1>1. Len(L) \in Nat /\ k \in Nat /\ k <= Len(L) /\ \A i \in 1 .. Len(L) : L[i] \in Client
  OBVIOUS
<1>2. /\ a \in Seq(Client) /\ Len(a) = k /\ \A i \in 1 .. k : a[i] = L[i]
  BY <1>1
<1>3. /\ b \in Seq(Client) /\ Len(b) = Len(L) - k /\ \A i \in 1 .. Len(L) - k : b[i] = L[k + i]
  BY <1>1
<1>4. M = a \o <<c>> \o b
  BY DEF InsertBefore
<1>. HIDE DEF a, b, M
<1>5. M \in Seq(Client) /\ Len(M) = Len(L) + 1
  BY <1>1, <1>2, <1>3, <1>4
<1>6. ASSUME NEW i \in 1 .. Len(L) + 1
      PROVE  M[i] = IF i <= k THEN L[i] ELSE IF i = k + 1 THEN c ELSE L[i - 1]
  <2>. DEFINE ac == a \o <<c>>
  <2>1. /\ ac \in Seq(Client) /\ Len(ac) = k + 1 /\ ac[k + 1] = c
        /\ \A j \in 1 .. k : ac[j] = L[j]
    BY <1>1, <1>2
  <2>2. M = ac \o b
    BY <1>4
  <2>. HIDE DEF ac
  <2>3. M[i] = IF i <= k + 1 THEN ac[i] ELSE b[i - (k + 1)]
    BY <1>1, <1>3, <2>1, <2>2
  <2>4. CASE i <= k
    BY <2>1, <2>3, <2>4, <1>1
  <2>5. CASE i = k + 1
    BY <2>1, <2>3, <2>5, <1>1
  <2>6. CASE i > k + 1
    <3>1. i - (k + 1) \in 1 .. Len(L) - k /\ k + (i - (k + 1)) = i - 1 /\ ~(i <= k + 1) /\ ~(i <= k) /\ i # k + 1
      BY <2>6, <1>1
    <3>2. b[i - (k + 1)] = L[i - 1]
      BY <3>1, <1>3
    <3> QED BY <3>1, <3>2, <2>3
  <2> QED BY <2>4, <2>5, <2>6, <1>1
<1>7. Reshaped(c, M, L)
  <2>1. h \in [1 .. Len(M) -> 0 .. Len(L)]
    BY <1>1, <1>5
  <2>2. \A i \in 1 .. Len(M) : IF h[i] = 0 THEN M[i] = c ELSE M[i] = L[h[i]]
    BY <1>1, <1>5, <1>6
  <2>3. \A i, j \in 1 .. Len(M) : i < j => (h[i] = 0 /\ h[j] # 0) \/ (h[i] # 0 /\ h[j] = 0) \/ h[i] < h[j]
    BY <1>1, <1>5
  <2>. HIDE DEF h
  <2> QED BY <2>1, <2>2, <2>3 DEF Reshaped
<1>8. Append(L, c) = InsertBefore(L, Len(L), c)
  <2>1. SubSeq(L, 1, Len(L)) = L /\ SubSeq(L, Len(L) + 1, Len(L)) = << >>
    BY <1>1
  <2> QED BY <2>1 DEF InsertBefore
<1>9. (\A i \in 1 .. k : M[i] = L[i]) /\ M[k + 1] = c
  BY <1>1, <1>6
<1> QED BY <1>5, <1>7, <1>8, <1>9 DEF M

LEMMA SameShapes ==
  ASSUME NEW L \in Seq(Client), NEW new
  PROVE  Reshaped(new, L, L)
<1>. DEFINE h == [i \in 1 .. Len(L) |-> i]
<1>1. /\ h \in [1 .. Len(L) -> 0 .. Len(L)]
      /\ \A i \in 1 .. Len(L) : h[i] # 0 /\ L[i] = L[h[i]]
      /\ \A i, j \in 1 .. Len(L) : i < j => h[i] < h[j]
  OBVIOUS
<1>. HIDE DEF h
<1> QED BY <1>1 DEF Reshaped

-----------------------------------------------------------------------------
(* Logins, logouts and time *)

WaitListInv ==
  /\ WaitListTypeOK /\ Single(waitList)
  /\ IsFiniteSet(online)
  /\ MaxPlayers = 0 => waitList = <<>>

LEMMA SingleSlots ==
  ASSUME NEW list \in Seq(Client), Single(list), NEW c
  PROVE  Cardinality(Slots(list, c)) <= 1
<1>1. CASE Slots(list, c) = {}
  BY <1>1, FS_EmptySet
<1>2. CASE Slots(list, c) # {}
  <2>1. PICK k \in Slots(list, c) : TRUE
    BY <1>2
  <2>2. Slots(list, c) = {k}
    BY <2>1 DEF Slots, Single
  <2>3. Cardinality({k}) = 1
    BY FS_Singleton
  <2> QED BY <2>2, <2>3
<1> QED BY <1>1, <1>2

LEMMA InvConsistent == WaitListInv => ListConsistent
<1>. SUFFICES ASSUME WaitListInv PROVE ListConsistent
  OBVIOUS
<1>1. waitList \in Seq(Client) /\ Single(waitList) /\ WaitListTypeOK
  BY DEF WaitListInv, WaitListTypeOK
<1> QED BY <1>1, SingleSlots DEF ListConsistent, OnePlaceEach

\* The list of a client who has been let in or waits.
LEMMA NewList ==
  ASSUME WaitListInv, NEW new, \A i \in 1 .. Len(Current) : Current[i] # new,
         waitList' \in Seq(Client), Reshaped(new, waitList', Current)
  PROVE  Single(waitList') /\ OrderStays(waitList, expired, waitList')
<1>1. waitList \in Seq(Client) /\ Single(waitList) /\ Current = Left(waitList, expired)
  BY DEF WaitListInv, WaitListTypeOK, Current
<1>2. Single(Left(waitList, expired)) /\ Left(waitList, expired) \in Seq(Client)
  BY <1>1, LeftSingle, LeftFacts
<1>3. Single(waitList')
  BY <1>1, <1>2, ReshapedSingle
<1>4. OrderStays(waitList, expired, waitList')
  BY <1>1, ReshapedOrder
<1> QED BY <1>3, <1>4

\* A list that stays keeps its order.
LEMMA OldList ==
  ASSUME WaitListInv, waitList' = waitList
  PROVE  OrderStays(waitList, expired, waitList')
BY DEF WaitListInv, Single, OrderStays, Slots

LEMMA CurrentTyped ==
  ASSUME WaitListInv
  PROVE  /\ Current \in Seq(Client) /\ Len(Current) \in Nat /\ Single(Current)
         /\ \A i \in 1 .. Len(Current) : Current[i] \in ToSet(waitList)
         /\ waitList = <<>> => Current = <<>>
<1>1. waitList \in Seq(Client) /\ Single(waitList) /\ Current = Left(waitList, expired)
  BY DEF WaitListInv, WaitListTypeOK, Current
<1>2. /\ Current \in Seq(Client) /\ Single(Current)
      /\ \A i \in 1 .. Len(Current) :
           Spot(waitList, expired, i) \in 1 .. Len(waitList) /\ Current[i] = waitList[Spot(waitList, expired, i)]
  BY <1>1, LeftSingle, LeftFacts
<1>3. \A i \in 1 .. Len(Current) : Current[i] \in ToSet(waitList)
  BY <1>2 DEF ToSet
<1>4. Len(Current) \in Nat
  BY <1>2
<1>5. ASSUME waitList = <<>> PROVE Current = <<>>
  <2>1. ~(1 \in 1 .. Len(Current))
    <3>1. Len(waitList) = 0
      BY <1>5
    <3> QED BY <3>1, <1>2
  <2>2. Len(Current) = 0
    BY <2>1, <1>4
  <2> QED BY <2>2, <1>2
<1> QED BY <1>2, <1>3, <1>4, <1>5

\* When the expired entries have been dropped, the list is what is left.
LEMMA CurrentNext ==
  ASSUME waitList' \in Seq(Client), expired' = {}
  PROVE  Current' = waitList'
<1>1. Current' = Left(waitList', {})
  BY DEF Current
<1> QED BY <1>1, LeftAll

LEMMA Entering ==
  ASSUME WaitListInv, NEW c \in Client, c \notin online, Enter(c)
  PROVE  /\ IsFiniteSet(online') /\ online' \subseteq Client
         /\ Cardinality(online) \in Nat /\ Cardinality(online') = Cardinality(online) + 1
<1>1. online' = online \cup {c} /\ IsFiniteSet(online) /\ online \subseteq Client
  BY DEF Enter, WaitListInv, WaitListTypeOK
<1> QED BY <1>1, FS_AddElement, FS_CardinalityType

\* What a step has to show of the turns: TurnKept, without its temporal part.
TurnStays ==
  \A c \in ToSet(Current) \cap ToSet(Current') :
    \A i \in Slots(Current, c), j \in Slots(Current', c) :
      RoomFor(i) => Cardinality(online') + j <= MaxPlayers

NoneOvertaken ==
  \A c \in Regular : c \in online' \ online =>
     /\ waitList = <<>> \/ c \in ToSet(waitList)
     /\ MaxPlayers # 0 => Cardinality(online') <= MaxPlayers

StepsWell(c) ==
  /\ WaitListInv'
  /\ OrderStays(waitList, expired, waitList')
  /\ NoneOvertaken
  /\ (waitList' # waitList \/ online' # online) =>
       TurnStays \/ (c \in Premium /\ WaitWithPriority(c))

LEMMA LetInWell ==
  ASSUME WaitListInv, NEW c \in Client, LetIn(c)
  PROVE  StepsWell(c)
<1>1. c \notin online /\ Open /\ Enter(c) /\ UNCHANGED <<waitList, expired, priorityEnd, valid>>
  BY DEF LetIn
<1>2. /\ IsFiniteSet(online') /\ online' \subseteq Client /\ online' = online \cup {c}
      /\ Cardinality(online) \in Nat /\ Cardinality(online') = Cardinality(online) + 1
  BY <1>1, Entering DEF Enter
<1>3. WaitListInv'
  BY <1>1, <1>2 DEF WaitListInv, WaitListTypeOK, Single
<1>4. OrderStays(waitList, expired, waitList')
  BY <1>1, OldList
<1>5. MaxPlayers \in Nat
  BY WaitListAssumption
<1>6. waitList = <<>> /\ Current = <<>>
  BY <1>1, CurrentTyped DEF Open, WaitListInv
<1>7. NoneOvertaken
  BY <1>1, <1>2, <1>5, <1>6 DEF NoneOvertaken, Open
<1>8. TurnStays
  <2>1. \A d : Slots(Current, d) = {}
    BY <1>6 DEF Slots
  <2> QED BY <2>1 DEF TurnStays
<1> QED BY <1>3, <1>4, <1>7, <1>8 DEF StepsWell

\* What every step that drops the expired entries comes to.
LEMMA Dropped ==
  ASSUME WaitListInv, ~Open, NEW new, \A i \in 1 .. Len(Current) : Current[i] # new,
         waitList' \in Seq(Client), Reshaped(new, waitList', Current), expired' = {},
         priorityEnd' \in Nat, valid' \in BOOLEAN, online' \subseteq Client, IsFiniteSet(online')
  PROVE  /\ WaitListInv' /\ OrderStays(waitList, expired, waitList')
         /\ Current' = waitList'
<1>1. Single(waitList') /\ OrderStays(waitList, expired, waitList')
  BY NewList
<1>2. Current' = waitList'
  BY CurrentNext
<1>3. WaitListTypeOK'
  BY DEF WaitListTypeOK
<1>4. Single(waitList)'
  BY <1>1 DEF Single
<1>5. MaxPlayers # 0
  BY DEF Open
<1> QED BY <1>1, <1>2, <1>3, <1>4, <1>5 DEF WaitListInv

LEMMA EnterFromListWell ==
  ASSUME WaitListInv, NEW c \in Client, EnterFromList(c)
  PROVE  StepsWell(c)
<1>1. /\ c \notin online /\ ~Open /\ Enter(c) /\ expired' = {} /\ valid' = FALSE /\ priorityEnd' = priorityEnd
  BY DEF EnterFromList
<1>2. PICK s \in Slots(Current, c) : RoomFor(s) /\ waitList' = RemoveAt(Current, s)
  BY DEF EnterFromList
<1>3. /\ IsFiniteSet(online') /\ online' \subseteq Client /\ online' = online \cup {c}
      /\ Cardinality(online) \in Nat /\ Cardinality(online') = Cardinality(online) + 1
  BY <1>1, Entering DEF Enter
<1>4. /\ Current \in Seq(Client) /\ Len(Current) \in Nat /\ Single(Current)
      /\ \A i \in 1 .. Len(Current) : Current[i] \in ToSet(waitList)
  BY CurrentTyped
<1>5. s \in 1 .. Len(Current) /\ Current[s] = c /\ s \in Nat
  <2>1. s \in 1 .. Len(Current) /\ Current[s] = c
    BY <1>2 DEF Slots
  <2> QED BY <2>1, <1>4
<1>6. PICK new : new \notin Client
  BY NoSetContainsEverything
<1>7. /\ waitList' \in Seq(Client) /\ Len(waitList') = Len(Current) - 1 /\ Reshaped(new, waitList', Current)
      /\ \A i \in 1 .. Len(Current) - 1 : waitList'[i] = Current[IF i < s THEN i ELSE i + 1]
  BY <1>2, <1>4, <1>5, RemoveAtShapes
<1>8. WaitListInv' /\ OrderStays(waitList, expired, waitList') /\ Current' = waitList'
  <2>1. \A i \in 1 .. Len(Current) : Current[i] # new
    BY <1>4, <1>6
  <2>2. priorityEnd' \in Nat /\ valid' \in BOOLEAN
    BY <1>1 DEF WaitListInv, WaitListTypeOK
  <2> QED BY <1>1, <1>3, <1>7, <2>1, <2>2, Dropped
<1>9. MaxPlayers \in Nat
  BY WaitListAssumption
<1>10. NoneOvertaken
  BY <1>2, <1>3, <1>4, <1>5, <1>9 DEF NoneOvertaken, RoomFor
<1>11. TurnStays
  <2>1. SUFFICES ASSUME NEW d, NEW i \in Slots(Current, d), NEW j \in Slots(waitList', d), RoomFor(i)
                 PROVE  Cardinality(online') + j <= MaxPlayers
    BY <1>8 DEF TurnStays
  <2>2. /\ i \in 1 .. Len(Current) /\ Current[i] = d /\ i \in Nat
        /\ j \in 1 .. Len(Current) - 1 /\ waitList'[j] = d /\ j \in Nat
    <3>1. i \in 1 .. Len(Current) /\ Current[i] = d /\ j \in 1 .. Len(Current) - 1 /\ waitList'[j] = d
      BY <1>7 DEF Slots
    <3> QED BY <3>1, <1>4
  <2>3. Cardinality(online) + i <= MaxPlayers /\ Cardinality(online) + s <= MaxPlayers
    BY <1>2, <2>1 DEF RoomFor
  <2>4. CASE j < s
    BY <2>3, <2>4, <2>2, <1>3, <1>5, <1>9
  <2>5. CASE ~(j < s)
    <3>1. waitList'[j] = Current[j + 1] /\ j + 1 \in 1 .. Len(Current)
      BY <1>4, <1>7, <2>2, <2>5
    <3>2. i = j + 1
      BY <3>1, <1>4, <2>2 DEF Single
    <3> QED BY <3>2, <2>3, <2>2, <1>3, <1>9
  <2> QED BY <2>4, <2>5
<1> QED BY <1>8, <1>10, <1>11 DEF StepsWell

LEMMA RenewWell ==
  ASSUME WaitListInv, NEW c \in Client, Renew(c)
  PROVE  StepsWell(c)
<1>1. /\ ~Open /\ waitList' = Current /\ expired' = {} /\ valid' = (valid /\ Current = waitList)
      /\ online' = online /\ priorityEnd' = priorityEnd
  BY DEF Renew
<1>2. Current \in Seq(Client) /\ Single(Current)
  BY CurrentTyped
<1>3. PICK new : new \notin Client
  BY NoSetContainsEverything
<1>4. WaitListInv' /\ OrderStays(waitList, expired, waitList') /\ Current' = waitList'
  <2>1. \A i \in 1 .. Len(Current) : Current[i] # new
    BY <1>2, <1>3
  <2>2. Reshaped(new, waitList', Current) /\ waitList' \in Seq(Client)
    BY <1>1, <1>2, SameShapes
  <2>3. priorityEnd' \in Nat /\ valid' \in BOOLEAN /\ online' \subseteq Client /\ IsFiniteSet(online')
    BY <1>1 DEF WaitListInv, WaitListTypeOK
  <2> QED BY <1>1, <2>1, <2>2, <2>3, Dropped
<1>5. NoneOvertaken
  BY <1>1 DEF NoneOvertaken
<1>6. TurnStays
  <2>1. SUFFICES ASSUME NEW d, NEW i \in Slots(Current, d), NEW j \in Slots(Current, d), RoomFor(i)
                 PROVE  Cardinality(online) + j <= MaxPlayers
    BY <1>1, <1>4 DEF TurnStays
  <2>2. i = j
    BY <1>2 DEF Slots, Single
  <2> QED BY <2>1, <2>2 DEF RoomFor
<1> QED BY <1>4, <1>5, <1>6 DEF StepsWell

LEMMA WaitAtEndWell ==
  ASSUME WaitListInv, NEW c \in Client, WaitAtEnd(c)
  PROVE  StepsWell(c)
<1>1. /\ ~Open /\ ~InList(c) /\ waitList' = Append(Current, c) /\ expired' = {} /\ valid' = FALSE
      /\ online' = online /\ priorityEnd' = priorityEnd
  BY DEF WaitAtEnd
<1>2. Current \in Seq(Client) /\ Single(Current) /\ Len(Current) \in Nat
  BY CurrentTyped
<1>3. \A i \in 1 .. Len(Current) : Current[i] # c
  BY <1>1 DEF InList, Slots
<1>4. /\ waitList' \in Seq(Client) /\ Len(waitList') = Len(Current) + 1 /\ Reshaped(c, waitList', Current)
      /\ \A i \in 1 .. Len(Current) : waitList'[i] = Current[i]
      /\ waitList'[Len(Current) + 1] = c
  <2>1. Len(Current) \in 0 .. Len(Current)
    BY <1>2
  <2>2. waitList' = InsertBefore(Current, Len(Current), c)
    BY <1>1, <1>2, <2>1, InsertShapes
  <2> QED BY <1>2, <2>1, <2>2, InsertShapes
<1>5. WaitListInv' /\ OrderStays(waitList, expired, waitList') /\ Current' = waitList'
  <2>1. priorityEnd' \in Nat /\ valid' \in BOOLEAN /\ online' \subseteq Client /\ IsFiniteSet(online')
    BY <1>1 DEF WaitListInv, WaitListTypeOK
  <2> QED BY <1>1, <1>3, <1>4, <2>1, Dropped
<1>6. NoneOvertaken
  BY <1>1 DEF NoneOvertaken
<1>7. TurnStays
  <2>1. SUFFICES ASSUME NEW d, NEW i \in Slots(Current, d), NEW j \in Slots(waitList', d), RoomFor(i)
                 PROVE  Cardinality(online) + j <= MaxPlayers
    BY <1>1, <1>5 DEF TurnStays
  <2>2. i \in 1 .. Len(Current) /\ Current[i] = d /\ j \in 1 .. Len(Current) + 1 /\ waitList'[j] = d
    BY <1>4 DEF Slots
  <2>3. d # c
    BY <1>3, <2>2
  <2>4. j \in 1 .. Len(Current)
    BY <1>2, <1>4, <2>2, <2>3
  <2>5. i = j
    BY <1>2, <1>4, <2>2, <2>4 DEF Single
  <2> QED BY <2>1, <2>5 DEF RoomFor
<1> QED BY <1>5, <1>6, <1>7 DEF StepsWell

LEMMA WaitWithPriorityWell ==
  ASSUME WaitListInv, NEW c \in Client, WaitWithPriority(c)
  PROVE  StepsWell(c)
<1>1. c \in Premium /\ c \notin online /\ ~Open /\ ~InList(c) /\ expired' = {} /\ valid' = TRUE
  BY DEF WaitWithPriority
<1>2. PICK k \in 0 .. Len(Current) :
        /\ waitList' = InsertBefore(Current, k, c) /\ priorityEnd' = k
        /\ IF k = 0 THEN Enter(c) ELSE UNCHANGED online
  BY DEF WaitWithPriority
<1>3. Current \in Seq(Client) /\ Len(Current) \in Nat
  BY CurrentTyped
<1>4. \A i \in 1 .. Len(Current) : Current[i] # c
  BY <1>1 DEF InList, Slots
<1>5. waitList' \in Seq(Client) /\ Reshaped(c, waitList', Current)
  BY <1>2, <1>3, InsertShapes
<1>6. IsFiniteSet(online') /\ online' \subseteq Client /\ online' \subseteq online \cup {c}
  <2>1. CASE k = 0
    BY <1>1, <1>2, <2>1, Entering DEF Enter
  <2>2. CASE k # 0
    BY <1>2, <2>2 DEF WaitListInv, WaitListTypeOK
  <2> QED BY <2>1, <2>2
<1>7. WaitListInv' /\ OrderStays(waitList, expired, waitList')
  <2>1. priorityEnd' \in Nat /\ valid' \in BOOLEAN
    BY <1>1, <1>2, <1>3
  <2> QED BY <1>1, <1>4, <1>5, <1>6, <2>1, Dropped
<1>8. NoneOvertaken
  BY <1>1, <1>6 DEF NoneOvertaken, Regular
<1> QED BY <1>1, <1>7, <1>8 DEF StepsWell

LEMMA LogoutWell ==
  ASSUME WaitListInv, NEW c \in Client, Logout(c)
  PROVE  StepsWell(c)
<1>1. c \in online /\ online' = online \ {c} /\ UNCHANGED <<waitList, expired, priorityEnd, valid>>
  BY DEF Logout
<1>2. /\ IsFiniteSet(online') /\ Cardinality(online') = Cardinality(online) - 1
      /\ Cardinality(online) \in Nat /\ Cardinality(online') \in Nat
  BY <1>1, FS_RemoveElement, FS_CardinalityType DEF WaitListInv
<1>3. WaitListInv'
  BY <1>1, <1>2 DEF WaitListInv, WaitListTypeOK, Single
<1>4. OrderStays(waitList, expired, waitList')
  BY <1>1, OldList
<1>5. NoneOvertaken
  BY <1>1 DEF NoneOvertaken
<1>6. Current' = Current /\ Single(Current) /\ Len(Current) \in Nat
  BY <1>1, CurrentTyped DEF Current
<1>7. TurnStays
  <2>1. SUFFICES ASSUME NEW d, NEW i \in Slots(Current, d), NEW j \in Slots(Current, d), RoomFor(i)
                 PROVE  Cardinality(online') + j <= MaxPlayers
    BY <1>6 DEF TurnStays
  <2>2. i = j /\ i \in 1 .. Len(Current)
    BY <1>6 DEF Slots, Single
  <2>3. Cardinality(online) + i <= MaxPlayers /\ MaxPlayers \in Nat /\ i \in Nat
    BY <2>1, <2>2, <1>6, WaitListAssumption DEF RoomFor
  <2> QED BY <2>2, <2>3, <1>2
<1> QED BY <1>3, <1>4, <1>5, <1>7 DEF StepsWell

LEMMA ExpireWell ==
  ASSUME WaitListInv, NEW c \in Client, Expire(c)
  PROVE  StepsWell(c)
<1>1. c \in ToSet(waitList) /\ expired' = expired \cup {c} /\ UNCHANGED <<online, waitList, priorityEnd, valid>>
  BY DEF Expire
<1>2. WaitListInv'
  BY <1>1 DEF WaitListInv, WaitListTypeOK, Single
<1>3. OrderStays(waitList, expired, waitList')
  BY <1>1, OldList
<1> QED BY <1>1, <1>2, <1>3 DEF StepsWell, NoneOvertaken

LEMMA WaitListInitInv == WaitListInit => WaitListInv
<1>. SUFFICES ASSUME WaitListInit PROVE WaitListInv
  OBVIOUS
<1>1. WaitListTypeOK
  BY DEF WaitListInit, WaitListTypeOK
<1>2. Single(waitList) /\ waitList = <<>>
  BY DEF WaitListInit, Single
<1>3. IsFiniteSet(online)
  BY FS_EmptySet DEF WaitListInit
<1> QED BY <1>1, <1>2, <1>3 DEF WaitListInv

LEMMA WaitListSteps ==
  ASSUME WaitListInv, [WaitListNext]_waitListVars
  PROVE  /\ WaitListInv' /\ OrderStays(waitList, expired, waitList') /\ NoneOvertaken
         /\ (waitList' # waitList \/ online' # online) /\ ~(\E p \in Premium : WaitWithPriority(p)) => TurnStays
<1>1. CASE WaitListNext
  <2>1. PICK c \in Client :
          \/ LetIn(c) \/ EnterFromList(c) \/ Renew(c) \/ WaitAtEnd(c) \/ WaitWithPriority(c)
          \/ Logout(c) \/ Expire(c)
    BY <1>1 DEF WaitListNext
  <2>2. StepsWell(c)
    BY <2>1, LetInWell, EnterFromListWell, RenewWell, WaitAtEndWell, WaitWithPriorityWell, LogoutWell, ExpireWell
  <2> QED BY <2>2 DEF StepsWell
<1>2. CASE UNCHANGED waitListVars
  <2>1. UNCHANGED <<online, waitList, expired, priorityEnd, valid>>
    BY <1>2 DEF waitListVars
  <2>2. WaitListInv'
    BY <2>1 DEF WaitListInv, WaitListTypeOK, Single
  <2>3. OrderStays(waitList, expired, waitList')
    BY <2>1, OldList
  <2> QED BY <2>1, <2>2, <2>3 DEF NoneOvertaken
<1> QED BY <1>1, <1>2

\* However clients come, wait, are dropped and leave, and wherever an invalid
\* iterator may point: nobody waits in two places, those who renew their entries
\* keep their order, a turn that has come is kept, and only premium clients pass
\* those who wait (clientLogin).
THEOREM WaitingIsFair == WaitListSpec => NobodyOvertaken
<1>1. WaitListInit => WaitListInv
  BY WaitListInitInv
<1>2. WaitListInv /\ [WaitListNext]_waitListVars => WaitListInv'
  BY WaitListSteps
<1>3. WaitListInv => ListConsistent
  BY InvConsistent
<1>4. WaitListInv /\ [WaitListNext]_waitListVars =>
        [\A c, d \in ToSet(waitList) \ expired :
           \A i \in Slots(waitList, c), j \in Slots(waitList, d) :
             i < j => \A k \in Slots(waitList', c), l \in Slots(waitList', d) : k < l]_waitListVars
  BY WaitListSteps DEF OrderStays
<1>5. WaitListInv /\ [WaitListNext]_waitListVars =>
        [(waitList' # waitList \/ online' # online) /\ ~(\E p \in Premium : WaitWithPriority(p)) =>
           \A c \in ToSet(Current) \cap ToSet(Current') : \A i \in Slots(Current, c), j \in Slots(Current', c) :
             RoomFor(i) => Cardinality(online') + j <= MaxPlayers]_waitListVars
  BY WaitListSteps DEF TurnStays
<1>6. WaitListInv /\ [WaitListNext]_waitListVars =>
        [\A c \in Regular : c \in online' \ online =>
           /\ waitList = <<>> \/ c \in ToSet(waitList)
           /\ MaxPlayers # 0 => Cardinality(online') <= MaxPlayers]_waitListVars
  BY WaitListSteps DEF NoneOvertaken
<1>7. WaitListSpec => []ListConsistent
  BY <1>1, <1>2, <1>3, PTL DEF WaitListSpec
<1>8. WaitListSpec => OrderKept
  BY <1>1, <1>2, <1>4, PTL DEF WaitListSpec, OrderKept
<1>9. WaitListSpec => TurnKept
  BY <1>1, <1>2, <1>5, PTL DEF WaitListSpec, TurnKept
<1>10. WaitListSpec => NoOvertaking
  BY <1>1, <1>2, <1>6, PTL DEF WaitListSpec, NoOvertaking
<1> QED BY <1>7, <1>8, <1>9, <1>10 DEF NobodyOvertaken

==============================================================================
