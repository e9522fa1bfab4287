---------------------------- MODULE SessionProofs ----------------------------
(***************************************************************************)
(* Theorems about Session, for any number of protocols, characters and     *)
(* Player objects, and, in its second half, about Company.                 *)
(***************************************************************************)
EXTENDS Session, Company, FiniteSetTheorems, TLAPS

Kinds == {"login", "connect", "release", "logout", "death", "relog", "shutdown", "halt"}
AnyTask == [kind : Kinds, who : Protocol \cup Object \cup {None}, name : Name \cup {None}]
AnyObject == [name : Name \cup {None}, client : Protocol \cup {None}, ref : Nat,
              online : BOOLEAN, dying : BOOLEAN, inCheck : BOOLEAN, releases : Nat]

\* What changing one field makes of an object.
LEMMA Updates ==
  ASSUME NEW r \in AnyObject
  PROVE  /\ \A b \in BOOLEAN : /\ [r EXCEPT !.online = b] \in AnyObject
                              /\ [r EXCEPT !.dying = b] \in AnyObject
                              /\ [r EXCEPT !.inCheck = b] \in AnyObject
         /\ \A k \in Nat : [r EXCEPT !.releases = k] \in AnyObject
         /\ r.releases \in Nat
<1>1. \A b \in BOOLEAN : [r EXCEPT !.online = b] \in AnyObject
  BY SMTT(30) DEF AnyObject
<1>2. \A b \in BOOLEAN : [r EXCEPT !.dying = b] \in AnyObject
  BY SMTT(30) DEF AnyObject
<1>3. \A b \in BOOLEAN : [r EXCEPT !.inCheck = b] \in AnyObject
  BY SMTT(30) DEF AnyObject
<1>4. \A k \in Nat : [r EXCEPT !.releases = k] \in AnyObject
  BY SMTT(30) DEF AnyObject
<1>5. r.releases \in Nat
  BY DEF AnyObject
<1> QED BY <1>1, <1>2, <1>3, <1>4, <1>5

(***************************************************************************)
(* The inductive invariant                                                 *)
(***************************************************************************)
OneEach ==
  \A o1, o2 \in Object :
    objects[o1].online /\ objects[o2].online /\ objects[o1].name = objects[o2].name
      /\ objects[o1].name # None => o1 = o2

Has(queue, t) == \E i \in DOMAIN queue : queue[i] = t

\* p's connection is open, or a release for it is to come.
Tended(p, queue, c) == c[p] = "open" \/ Has(queue, Release(p))

\* A release is posted by a close.
Quiet(queue, c) == \A p \in Protocol : c[p] = "open" => ~Has(queue, Release(p))

\* A login is posted while the connection is open, so the release comes after it.
Followed(queue, c) ==
  \A p \in Protocol : \A i \in DOMAIN queue :
    queue[i].kind = "login" /\ queue[i].who = p =>
      c[p] = "open" \/ \E j \in DOMAIN queue : j > i /\ queue[j] = Release(p)

Over == phase \in {"stopped", "ended"}

QueueInv == Quiet(tasks, conn) /\ (Over \/ Followed(tasks, conn))

\* The client of a player in the game that has not been raced.
LinksTended ==
  \A o \in Object : \A p \in Protocol :
    objects[o].online /\ objects[o].client = p /\ p \notin raced =>
      player[p] = o /\ (Over \/ Tended(p, tasks, conn))

\* A player in the game, or about to be released, is in the list of checkCreatures.
InCheck ==
  \A o \in Object :
    \/ objects[o].online \/ objects[o].releases > 0 => objects[o].inCheck
    \/ Dangling(o)

SessionInv ==
  TypeOK /\ tasks \in Seq(AnyTask) /\ OneEach /\ QueueInv /\ LinksTended /\ InCheck

(***************************************************************************)
(* The queue                                                               *)
(***************************************************************************)
\* Nobody counts a task that is not there.
LEMMA QueuedZero ==
  ASSUME NEW queue \in Seq(AnyTask), NEW t
  PROVE  Queued(queue, t) = 0 <=> ~Has(queue, t)
<1> DEFINE S == {i \in DOMAIN queue : queue[i] = t}
<1>1. IsFiniteSet(S)
  <2>1. DOMAIN queue = 1 .. Len(queue) /\ Len(queue) \in Nat
    OBVIOUS
  <2>2. IsFiniteSet(1 .. Len(queue))
    BY <2>1, FS_Interval
  <2> QED BY <2>1, <2>2, FS_Subset
<1>2. Cardinality(S) = 0 <=> S = {}
  BY <1>1, FS_EmptySet
<1> QED BY <1>2 DEF Queued, Has

LEMMA ReleaseIsTask ==
  ASSUME NEW p \in Protocol
  PROVE  Release(p) \in AnyTask /\ Release(p).kind = "release" /\ Release(p).who = p
BY DEF Release, Task, AnyTask, Kinds

\* The head is run.
LEMMA RestKeeps ==
  ASSUME NEW q \in Seq(AnyTask), q # <<>>, NEW c
  PROVE  /\ Tail(q) \in Seq(AnyTask) /\ Len(Tail(q)) = Len(q) - 1
         /\ \A t : Has(Tail(q), t) => Has(q, t)
         /\ \A t : Has(q, t) /\ Head(q) # t => Has(Tail(q), t)
         /\ Quiet(q, c) => Quiet(Tail(q), c)
         /\ Followed(q, c) => Followed(Tail(q), c)
<1>1. /\ Tail(q) \in Seq(AnyTask) /\ Len(q) \in Nat \ {0} /\ Len(Tail(q)) = Len(q) - 1
      /\ Head(q) = q[1] /\ DOMAIN q = 1 .. Len(q) /\ DOMAIN Tail(q) = 1 .. Len(q) - 1
      /\ \A i \in 1 .. Len(q) - 1 : Tail(q)[i] = q[i + 1]
  OBVIOUS
<1>2. \A t : Has(Tail(q), t) => Has(q, t)
  BY <1>1 DEF Has
<1>3. ASSUME NEW t, Has(q, t), Head(q) # t PROVE Has(Tail(q), t)
  <2>1. PICK i \in DOMAIN q : q[i] = t
    BY <1>3 DEF Has
  <2>2. i # 1 /\ i - 1 \in 1 .. Len(q) - 1
    BY <1>1, <1>3, <2>1
  <2>3. Tail(q)[i - 1] = t
    BY <1>1, <2>1, <2>2
  <2> QED BY <1>1, <2>2, <2>3 DEF Has
<1>4. Quiet(q, c) => Quiet(Tail(q), c)
  BY <1>2 DEF Quiet
<1>5. ASSUME Followed(q, c) PROVE Followed(Tail(q), c)
  <2> SUFFICES ASSUME NEW p \in Protocol, NEW i \in DOMAIN Tail(q),
                      Tail(q)[i].kind = "login", Tail(q)[i].who = p, c[p] # "open"
               PROVE  \E j \in DOMAIN Tail(q) : j > i /\ Tail(q)[j] = Release(p)
    BY DEF Followed
  <2>1. i + 1 \in DOMAIN q /\ q[i + 1] = Tail(q)[i]
    BY <1>1
  <2>2. PICK j \in DOMAIN q : j > i + 1 /\ q[j] = Release(p)
    BY <1>5, <2>1 DEF Followed
  <2>3. j - 1 \in DOMAIN Tail(q) /\ j - 1 > i /\ Tail(q)[j - 1] = Release(p)
    BY <1>1, <2>2
  <2> QED BY <2>3
<1> QED BY <1>1, <1>2, <1>3, <1>4, <1>5

\* A task is added.
LEMMA AppendKeeps ==
  ASSUME NEW q \in Seq(AnyTask), NEW u \in AnyTask, NEW c
  PROVE  /\ Append(q, u) \in Seq(AnyTask) /\ Len(Append(q, u)) = Len(q) + 1
         /\ \A t : Has(Append(q, u), t) <=> Has(q, t) \/ u = t
         /\ Followed(q, c) /\ (u.kind = "login" => c[u.who] = "open")
              => Followed(Append(q, u), c)
<1>1. /\ Append(q, u) \in Seq(AnyTask) /\ Len(q) \in Nat /\ Len(Append(q, u)) = Len(q) + 1
      /\ DOMAIN q = 1 .. Len(q) /\ DOMAIN Append(q, u) = 1 .. Len(q) + 1
      /\ Append(q, u)[Len(q) + 1] = u
      /\ \A i \in 1 .. Len(q) : Append(q, u)[i] = q[i]
  OBVIOUS
<1>2. \A t : Has(Append(q, u), t) <=> Has(q, t) \/ u = t
  <2> TAKE t
  <2>1. Has(Append(q, u), t) => Has(q, t) \/ u = t
    BY <1>1 DEF Has
  <2>2. Has(q, t) => Has(Append(q, u), t)
    BY <1>1 DEF Has
  <2>3. u = t => Has(Append(q, u), t)
    <3>1. Len(q) + 1 \in 1 .. Len(q) + 1
      BY <1>1
    <3> QED BY <1>1, <3>1 DEF Has
  <2> QED BY <2>1, <2>2, <2>3
<1>3. ASSUME Followed(q, c), u.kind = "login" => c[u.who] = "open"
      PROVE  Followed(Append(q, u), c)
  <2> SUFFICES ASSUME NEW p \in Protocol, NEW i \in DOMAIN Append(q, u),
                      Append(q, u)[i].kind = "login", Append(q, u)[i].who = p, c[p] # "open"
               PROVE  \E j \in DOMAIN Append(q, u) : j > i /\ Append(q, u)[j] = Release(p)
    BY DEF Followed
  <2>1. i # Len(q) + 1
    BY <1>1, <1>3
  <2>2. i \in DOMAIN q /\ q[i] = Append(q, u)[i]
    BY <1>1, <2>1
  <2>3. PICK j \in DOMAIN q : j > i /\ q[j] = Release(p)
    BY <1>3, <2>2 DEF Followed
  <2>4. j \in DOMAIN Append(q, u) /\ Append(q, u)[j] = Release(p)
    BY <1>1, <2>3
  <2> QED BY <2>3, <2>4
<1> QED BY <1>1, <1>2, <1>3

\* Somebody's connection is closed.
LEMMA CloseKeeps ==
  ASSUME SessionAssumption, TypeOK,
         NEW q \in Seq(AnyTask), NEW p \in Protocol \cup {None}
  PROVE  /\ Disconnect(q, p) \in Seq(AnyTask) /\ Len(Disconnect(q, p)) <= Len(q) + 1
         /\ Closed({p}) \in [Protocol -> {"open", "closed", "gone"}]
         /\ Quiet(q, conn) => Quiet(Disconnect(q, p), Closed({p}))
         /\ Quiet(q, conn) /\ phase # "stopped" =>
              /\ Followed(q, conn) => Followed(Disconnect(q, p), Closed({p}))
              /\ \A r \in Protocol : Tended(r, q, conn) => Tended(r, Disconnect(q, p), Closed({p}))
<1> DEFINE d == Disconnect(q, p)
           c == Closed({p})
<1>1. /\ conn \in [Protocol -> {"open", "closed", "gone"}]
      /\ None \notin Protocol /\ MaxReleases \in Nat \ {0} /\ Len(q) \in Nat
  BY DEF TypeOK, SessionAssumption
<1>2. c \in [Protocol -> {"open", "closed", "gone"}]
  BY <1>1 DEF Closed
<1>3. \A r \in Protocol : r # p => c[r] = conn[r]
  BY <1>1 DEF Closed
<1>4. \A r \in Protocol : c[r] = "open" => conn[r] = "open" /\ r # p
  BY <1>1 DEF Closed
<1>5. CASE d = q /\ (phase = "stopped" \/ (Quiet(q, conn) => c = conn))
  <2>1. Quiet(q, conn) => Quiet(q, c)
    BY <1>4 DEF Quiet
  <2>2. Len(q) <= Len(q) + 1
    BY <1>1
  <2> HIDE DEF d, c
  <2>3. \/ phase = "stopped"
        \/ ~Quiet(q, conn)
        \/ c = conn
    BY <1>5
  <2>4. Quiet(q, conn) /\ phase # "stopped" =>
          /\ Followed(q, conn) => Followed(q, c)
          /\ \A r \in Protocol : Tended(r, q, conn) => Tended(r, q, c)
    BY <2>3
  <2> QED BY <1>2, <1>5, <2>1, <2>2, <2>4 DEF d, c
<1>6. CASE p \in Protocol /\ d = Append(q, Release(p))
  <2>1. Release(p) \in AnyTask /\ Release(p).kind = "release"
    BY <1>6, ReleaseIsTask
  <2>2. /\ d \in Seq(AnyTask) /\ Len(d) = Len(q) + 1
        /\ \A t : Has(d, t) <=> Has(q, t) \/ Release(p) = t
    BY <1>6, <2>1, AppendKeeps
  <2>3. Quiet(q, conn) => Quiet(d, c)
    <3> SUFFICES ASSUME Quiet(q, conn), NEW r \in Protocol, c[r] = "open"
                 PROVE  ~Has(d, Release(r))
      BY DEF Quiet
    <3>0. r # p
      BY <1>4
    <3>1. Release(r) # Release(p)
      BY <1>6, <3>0, ReleaseIsTask
    <3> QED BY <1>4, <2>2, <3>1 DEF Quiet
  <2>4. \A r \in Protocol : Tended(r, q, conn) => Tended(r, d, c)
    BY <1>3, <2>2 DEF Tended
  <2>5. ASSUME Followed(q, conn) PROVE Followed(d, c)
    <3> SUFFICES ASSUME NEW r \in Protocol, NEW i \in DOMAIN d,
                        d[i].kind = "login", d[i].who = r, c[r] # "open"
                 PROVE  \E j \in DOMAIN d : j > i /\ d[j] = Release(r)
      BY DEF Followed
    <3>1. /\ DOMAIN q = 1 .. Len(q) /\ DOMAIN d = 1 .. Len(q) + 1
          /\ d[Len(q) + 1] = Release(p) /\ \A k \in 1 .. Len(q) : d[k] = q[k]
      BY <1>1, <1>6, <2>1
    <3>2. i \in DOMAIN q /\ d[i] = q[i]
      BY <1>1, <2>1, <3>1
    <3>3. CASE r = p
      <4>1. Len(q) + 1 \in DOMAIN d /\ Len(q) + 1 > i
        BY <1>1, <3>1, <3>2
      <4> QED BY <3>1, <3>3, <4>1
    <3>4. CASE r # p
      <4>1. conn[r] # "open"
        BY <1>3, <3>4
      <4>2. PICK j \in DOMAIN q : j > i /\ q[j] = Release(r)
        BY <2>5, <3>2, <4>1 DEF Followed
      <4> QED BY <1>1, <3>1, <4>2
    <3> QED BY <3>3, <3>4
  <2>6. Len(d) <= Len(q) + 1
    BY <1>1, <2>2
  <2> HIDE DEF d, c
  <2> QED BY <1>2, <2>2, <2>3, <2>4, <2>5, <2>6 DEF d, c
<1>7. \/ d = q /\ (phase = "stopped" \/ (Quiet(q, conn) => c = conn))
      \/ p \in Protocol /\ d = Append(q, Release(p))
  <2>1. CASE p = None \/ (p # None /\ conn[p] = "gone")
    <3>1. d = q
      BY <2>1 DEF Disconnect
    <3>2. c = conn
      BY <1>1, <2>1 DEF Closed
    <3> QED BY <3>1, <3>2
  <2>2. CASE p # None /\ Queued(q, Release(p)) = MaxReleases
    <3>1. d = q /\ p \in Protocol
      BY <2>2 DEF Disconnect
    <3>2. Has(q, Release(p))
      BY <1>1, <2>2, QueuedZero
    <3>3. Quiet(q, conn) => conn[p] # "open"
      BY <3>1, <3>2 DEF Quiet
    <3>4. conn[p] # "open" => c = conn
      BY <1>1 DEF Closed
    <3> QED BY <3>1, <3>3, <3>4
  <2>3. CASE p # None /\ conn[p] # "gone" /\ Queued(q, Release(p)) # MaxReleases
    BY <2>3 DEF Disconnect, Post
  <2> QED BY <2>1, <2>2, <2>3
<1> QED BY <1>5, <1>6, <1>7

\* What a step leaves of the queue's part of the invariant.
QueueKept ==
  /\ tasks' \in Seq(AnyTask)
  /\ conn' \in [Protocol -> {"open", "closed", "gone"}]
  /\ QueueInv'
  /\ Over' \/ \A p \in Protocol : Tended(p, tasks, conn) => Tended(p, tasks', conn')

\* All that happens to the queue but the run of a release and the end of the game.
LEMMA QueueGoesOn ==
  ASSUME SessionAssumption, TypeOK, tasks \in Seq(AnyTask), QueueInv, phase' = phase,
         NEW base,
         \/ base = tasks
         \/ tasks # <<>> /\ Head(tasks).kind # "release" /\ base = Rest,
         \/ tasks' = base /\ conn' = conn
         \/ \E p \in Protocol \cup {None} : tasks' = Disconnect(base, p) /\ conn' = Closed({p})
         \/ \E t \in AnyTask : /\ tasks' = Post(base, t) /\ conn' = conn
                               /\ t.kind # "release" /\ (t.kind = "login" => conn[t.who] = "open")
  PROVE  QueueKept
<1> DEFINE Kept(q, c) == \A p \in Protocol : Tended(p, tasks, conn) => Tended(p, q, c)
           Good(q, c) == Quiet(q, c) /\ (Over \/ (Followed(q, c) /\ Kept(q, c)))
<1>1. base \in Seq(AnyTask) /\ Good(base, conn)
  <2>1. CASE base = tasks
    BY <2>1 DEF QueueInv
  <2>2. CASE tasks # <<>> /\ Head(tasks).kind # "release" /\ base = Rest
    <3>1. /\ Rest \in Seq(AnyTask)
          /\ \A t : Has(tasks, t) /\ Head(tasks) # t => Has(Rest, t)
          /\ Quiet(tasks, conn) => Quiet(Rest, conn)
          /\ Followed(tasks, conn) => Followed(Rest, conn)
      BY <2>2, RestKeeps DEF Rest
    <3>2. \A p \in Protocol : Head(tasks) # Release(p)
      BY <2>2, ReleaseIsTask
    <3>3. Kept(Rest, conn)
      BY <3>1, <3>2 DEF Tended
    <3> QED BY <2>2, <3>1, <3>3 DEF QueueInv
  <2> QED BY <2>1, <2>2
<1>2. conn \in [Protocol -> {"open", "closed", "gone"}] /\ Over' = Over
  BY DEF TypeOK, Over
<1> SUFFICES tasks' \in Seq(AnyTask) /\ conn' \in [Protocol -> {"open", "closed", "gone"}]
             /\ Good(tasks', conn')
  BY <1>2 DEF QueueKept, QueueInv
<1>3. CASE tasks' = base /\ conn' = conn
  BY <1>1, <1>2, <1>3
<1>4. CASE \E p \in Protocol \cup {None} : tasks' = Disconnect(base, p) /\ conn' = Closed({p})
  <2>1. PICK p \in Protocol \cup {None} : tasks' = Disconnect(base, p) /\ conn' = Closed({p})
    BY <1>4
  <2>2. /\ Disconnect(base, p) \in Seq(AnyTask)
        /\ Closed({p}) \in [Protocol -> {"open", "closed", "gone"}]
        /\ Quiet(base, conn) => Quiet(Disconnect(base, p), Closed({p}))
        /\ Quiet(base, conn) /\ phase # "stopped" =>
             /\ Followed(base, conn) => Followed(Disconnect(base, p), Closed({p}))
             /\ \A r \in Protocol :
                  Tended(r, base, conn) => Tended(r, Disconnect(base, p), Closed({p}))
    BY <1>1, CloseKeeps
  <2>3. ~Over => phase # "stopped"
    BY DEF Over
  <2> QED BY <1>1, <2>1, <2>2, <2>3
<1>5. CASE \E t \in AnyTask : /\ tasks' = Post(base, t) /\ conn' = conn
                              /\ t.kind # "release" /\ (t.kind = "login" => conn[t.who] = "open")
  <2>1. PICK t \in AnyTask : /\ tasks' = Post(base, t) /\ conn' = conn
                             /\ t.kind # "release" /\ (t.kind = "login" => conn[t.who] = "open")
    BY <1>5
  <2>2. CASE tasks' = base
    BY <1>1, <1>2, <2>1, <2>2
  <2>3. CASE tasks' = Append(base, t)
    <3>1. /\ Append(base, t) \in Seq(AnyTask)
          /\ \A u : Has(Append(base, t), u) <=> Has(base, u) \/ t = u
          /\ Followed(base, conn) /\ (t.kind = "login" => conn[t.who] = "open")
               => Followed(Append(base, t), conn)
      BY <1>1, AppendKeeps
    <3>2. \A p \in Protocol : t # Release(p)
      BY <2>1, ReleaseIsTask
    <3>3. Quiet(base, conn) => Quiet(Append(base, t), conn)
      BY <3>1, <3>2 DEF Quiet
    <3>4. Kept(base, conn) => Kept(Append(base, t), conn)
      BY <3>1 DEF Tended
    <3> QED BY <1>1, <1>2, <2>1, <2>3, <3>1, <3>3, <3>4
  <2> QED BY <2>1, <2>2, <2>3 DEF Post
<1> QED BY <1>3, <1>4, <1>5

ProtocolsOK ==
  /\ {first, fired, acceptPackets} \subseteq [Protocol -> BOOLEAN]
  /\ {eventConnect, lastName} \subseteq [Protocol -> Name \cup {None}]
  /\ phase \in {"running", "kicking", "stopped", "ended"}

\* A step that touches no player and no link.
LEMMA LinksUntouched ==
  ASSUME SessionInv, ProtocolsOK', QueueKept, Over => Over', UNCHANGED <<objects, player, raced>>
  PROVE  SessionInv'
<1>0. TypeOK'
  <2>1. \A i \in DOMAIN tasks' : tasks'[i].kind \in Kinds
    <3>1. tasks' \in Seq(AnyTask)
      BY DEF QueueKept
    <3>2. \A i \in DOMAIN tasks' : tasks'[i] \in AnyTask
      BY <3>1
    <3> QED BY <3>2 DEF AnyTask
  <2> QED BY <2>1 DEF SessionInv, TypeOK, ProtocolsOK, QueueKept, Kinds
<1>1. OneEach'
  BY DEF SessionInv, OneEach
<1>2. LinksTended'
  <2> SUFFICES ASSUME NEW o \in Object, NEW p \in Protocol,
                      objects[o].online, objects[o].client = p, p \notin raced
               PROVE  player[p] = o /\ (Over' \/ Tended(p, tasks', conn'))
    BY DEF LinksTended, Tended
  <2>1. player[p] = o /\ (Over \/ Tended(p, tasks, conn))
    BY DEF SessionInv, LinksTended
  <2> QED BY <2>1 DEF QueueKept
<1>3. InCheck'
  BY DEF SessionInv, InCheck, Dangling, References, Holders
<1> QED BY <1>0, <1>1, <1>2, <1>3 DEF SessionInv, QueueKept

(***************************************************************************)
(* Steps that leave the players alone                                      *)
(***************************************************************************)
LEMMA NetworkKeeps ==
  ASSUME SessionAssumption, SessionInv, NetworkStep
  PROVE  SessionInv'
<1> USE DEF Post
<1>0. /\ TypeOK /\ tasks \in Seq(AnyTask) /\ QueueInv /\ ProtocolsOK
  BY DEF SessionInv, TypeOK, ProtocolsOK
<1> PICK p \in Protocol :
      \/ \E n \in Name : FirstMessage(p, n)
      \/ NetworkClose(p) \/ ConnectionDestroyed(p)
      \/ LogoutPacket(p) \/ ReloginPacket(p) \/ ConnectFires(p)
  BY DEF NetworkStep
<1>1. ASSUME NEW n \in Name, FirstMessage(p, n) PROVE SessionInv'
  <2> USE <1>1 DEF FirstMessage
  <2>1. Task("login", p, n) \in AnyTask /\ Task("login", p, n).kind = "login"
        /\ Task("login", p, n).who = p
    BY DEF Task, AnyTask, Kinds
  <2>2. QueueKept
    BY <1>0, <2>1, QueueGoesOn
  <2>3. ProtocolsOK'
    BY <1>0 DEF ProtocolsOK, proto
  <2> QED BY <2>2, <2>3, LinksUntouched DEF Over
<1>2. CASE NetworkClose(p)
  <2>1. QueueKept
    BY <1>0, <1>2, QueueGoesOn DEF NetworkClose
  <2>2. ProtocolsOK'
    BY <1>0, <1>2 DEF NetworkClose, ProtocolsOK, proto
  <2> QED BY <1>2, <2>1, <2>2, LinksUntouched DEF NetworkClose, Over
<1>3. CASE ConnectionDestroyed(p)
  <2>1. /\ conn' \in [Protocol -> {"open", "closed", "gone"}] /\ tasks' = tasks /\ phase' = phase
        /\ \A r \in Protocol : conn'[r] = "open" <=> conn[r] = "open"
    BY <1>0, <1>3 DEF ConnectionDestroyed, TypeOK
  <2>2. QueueKept
    BY <1>0, <2>1 DEF QueueKept, QueueInv, Over, Tended, Quiet, Followed
  <2>3. ProtocolsOK'
    BY <1>0, <1>3 DEF ConnectionDestroyed, ProtocolsOK, proto
  <2> QED BY <1>3, <2>2, <2>3, LinksUntouched DEF ConnectionDestroyed, Over
<1>4. CASE LogoutPacket(p)
  <2>1. Task("logout", p, None) \in AnyTask /\ Task("logout", p, None).kind = "logout"
    BY DEF Task, AnyTask, Kinds
  <2>2. QueueKept
    BY <1>0, <1>4, <2>1, QueueGoesOn DEF LogoutPacket, net
  <2>3. ProtocolsOK'
    BY <1>0, <1>4 DEF LogoutPacket, ProtocolsOK, proto, net
  <2> QED BY <1>4, <2>2, <2>3, LinksUntouched DEF LogoutPacket, Over
<1>5. CASE ReloginPacket(p)
  <2>1. /\ Task("login", p, lastName[p]) \in AnyTask
        /\ Task("login", p, lastName[p]).kind = "login" /\ Task("login", p, lastName[p]).who = p
    BY <1>0 DEF Task, AnyTask, Kinds, TypeOK
  <2>2. QueueKept
    BY <1>0, <1>5, <2>1, QueueGoesOn DEF ReloginPacket, Packet, net
  <2>3. ProtocolsOK'
    BY <1>0, <1>5 DEF ReloginPacket, ProtocolsOK, net
  <2> QED BY <1>5, <2>2, <2>3, LinksUntouched DEF ReloginPacket, Over
<1>6. CASE ConnectFires(p)
  <2>1. /\ Task("connect", p, eventConnect[p]) \in AnyTask
        /\ Task("connect", p, eventConnect[p]).kind = "connect"
    BY <1>0 DEF Task, AnyTask, Kinds, TypeOK
  <2>2. QueueKept
    BY <1>0, <1>6, <2>1, QueueGoesOn DEF ConnectFires, net
  <2>3. ProtocolsOK'
    BY <1>0, <1>6 DEF ConnectFires, ProtocolsOK, net
  <2> QED BY <1>6, <2>2, <2>3, LinksUntouched DEF ConnectFires, Over
<1> QED BY <1>1, <1>2, <1>3, <1>4, <1>5, <1>6

\* Requests, and the phases of the shutdown.
LEMMA PhaseKeeps ==
  ASSUME SessionAssumption, SessionInv,
         \/ RequestShutdown \/ StartShutdown \/ StopDispatcher
         \/ \E o \in Object, n \in Name : RequestFastRelog(o, n)
         \/ \E o \in Object, n \in Name : FastRelogCrashes(o, n)
  PROVE  SessionInv'
<1>0. /\ TypeOK /\ tasks \in Seq(AnyTask) /\ QueueInv /\ ProtocolsOK
  BY DEF SessionInv, TypeOK, ProtocolsOK
<1>1. CASE RequestShutdown
  <2>1. ShutdownTask \in AnyTask /\ ShutdownTask.kind = "shutdown"
    BY DEF Task, AnyTask, Kinds, ShutdownTask
  <2>2. QueueKept
    BY <1>0, <1>1, <2>1, QueueGoesOn DEF RequestShutdown, net
  <2>3. ProtocolsOK'
    BY <1>0, <1>1 DEF RequestShutdown, ProtocolsOK, net, proto
  <2> QED BY <1>1, <2>2, <2>3, LinksUntouched DEF RequestShutdown, Over
<1>2. CASE StartShutdown
  <2>1. /\ tasks # <<>> /\ Head(tasks).kind = "shutdown" /\ tasks' = Rest /\ conn' = conn
    BY <1>2 DEF StartShutdown, Run, net, Task
  <2>2. Rest \in Seq(AnyTask)
        /\ (Quiet(tasks, conn) => Quiet(Rest, conn))
        /\ (Followed(tasks, conn) => Followed(Rest, conn))
        /\ \A t : Has(tasks, t) /\ Head(tasks) # t => Has(Rest, t)
    BY <1>0, <2>1, RestKeeps DEF Rest
  <2>3. \A p \in Protocol : Head(tasks) # Release(p)
    BY <2>1, ReleaseIsTask
  <2>4. Over' = Over /\ conn \in [Protocol -> {"open", "closed", "gone"}]
    BY <1>0, <1>2 DEF StartShutdown, Over, TypeOK
  <2>5. QueueKept
    BY <1>0, <2>1, <2>2, <2>3, <2>4 DEF QueueKept, QueueInv, Tended
  <2>6. ProtocolsOK'
    BY <1>0, <1>2 DEF StartShutdown, ProtocolsOK, net, proto
  <2> QED BY <1>2, <2>4, <2>5, <2>6, LinksUntouched DEF StartShutdown
<1>3. CASE StopDispatcher
  <2>1. HaltTask \in AnyTask /\ HaltTask.kind = "halt"
    BY DEF Task, AnyTask, Kinds, HaltTask
  <2>2. /\ tasks' = Append(tasks, HaltTask) /\ conn' = conn /\ Over'
    BY <1>3 DEF StopDispatcher, Over, net
  <2>3. /\ tasks' \in Seq(AnyTask) /\ \A t : Has(tasks', t) <=> Has(tasks, t) \/ HaltTask = t
    BY <1>0, <2>1, <2>2, AppendKeeps
  <2>4. \A p \in Protocol : HaltTask # Release(p)
    BY <2>1, ReleaseIsTask
  <2>5. Quiet(tasks', conn)
    BY <1>0, <2>3, <2>4 DEF Quiet, QueueInv
  <2>6. QueueKept
    BY <1>0, <2>2, <2>3, <2>5 DEF QueueKept, QueueInv, TypeOK
  <2>7. ProtocolsOK'
    BY <1>0, <1>3 DEF StopDispatcher, ProtocolsOK, net, proto
  <2> QED BY <1>3, <2>2, <2>6, <2>7, LinksUntouched DEF StopDispatcher
<1>4. ASSUME NEW o \in Object, NEW n \in Name, RequestFastRelog(o, n) PROVE SessionInv'
  <2>1. Task("relog", o, n) \in AnyTask /\ Task("relog", o, n).kind = "relog"
    BY DEF Task, AnyTask, Kinds
  <2>2. QueueKept
    BY <1>0, <1>4, <2>1, QueueGoesOn DEF RequestFastRelog, net
  <2>3. ProtocolsOK'
    BY <1>0, <1>4 DEF RequestFastRelog, ProtocolsOK, net, proto
  <2> QED BY <1>4, <2>2, <2>3, LinksUntouched DEF RequestFastRelog, Over
<1>5. ASSUME NEW o \in Object, NEW n \in Name, FastRelogCrashes(o, n) PROVE SessionInv'
  <2>1. tasks # <<>> /\ Head(tasks).kind = "relog" /\ tasks' = Rest
    BY <1>5 DEF FastRelogCrashes, Run, Task
  <2>2. QueueKept
    BY <1>0, <1>5, <2>1, QueueGoesOn DEF FastRelogCrashes, net
  <2>3. ProtocolsOK'
    BY <1>0, <1>5 DEF FastRelogCrashes, ProtocolsOK, net, proto
  <2> QED BY <1>5, <2>2, <2>3, LinksUntouched DEF FastRelogCrashes, Over
<1> QED BY <1>1, <1>2, <1>3, <1>4, <1>5

(***************************************************************************)
(* Player objects and who holds them                                       *)
(***************************************************************************)
Count(pl, o) == Cardinality({p \in Protocol : pl[p] = o})

LEMMA CountIsNat ==
  ASSUME SessionAssumption, NEW pl, NEW o
  PROVE  /\ Count(pl, o) \in Nat
         /\ Count(pl, o) = 0 <=> {p \in Protocol : pl[p] = o} = {}
<1>1. IsFiniteSet({p \in Protocol : pl[p] = o})
  BY FS_Subset DEF SessionAssumption
<1> QED BY <1>1, FS_CardinalityType, FS_EmptySet DEF Count

\* One protocol comes to hold o.
LEMMA CountGrows ==
  ASSUME SessionAssumption, NEW o, NEW p \in Protocol,
         player[p] # o, player'[p] = o, \A r \in Protocol \ {p} : player'[r] = player[r]
  PROVE  Count(player', o) = Count(player, o) + 1
<1> DEFINE S == {r \in Protocol : player[r] = o}
<1>1. IsFiniteSet(S) /\ p \notin S
  BY FS_Subset DEF SessionAssumption
<1>2. {r \in Protocol : player'[r] = o} = S \cup {p}
  OBVIOUS
<1>3. Cardinality(S \cup {p}) = Cardinality(S) + 1
  BY <1>1, FS_AddElement
<1> QED BY <1>2, <1>3 DEF Count

\* ... and one lets go of it.
LEMMA CountShrinks ==
  ASSUME SessionAssumption, NEW o, NEW p \in Protocol,
         player[p] = o, player'[p] # o, \A r \in Protocol \ {p} : player'[r] = player[r]
  PROVE  Count(player, o) = Count(player', o) + 1
<1> DEFINE S == {r \in Protocol : player'[r] = o}
<1>1. IsFiniteSet(S) /\ p \notin S
  BY FS_Subset DEF SessionAssumption
<1>2. {r \in Protocol : player[r] = o} = S \cup {p}
  OBVIOUS
<1>3. Cardinality(S \cup {p}) = Cardinality(S) + 1
  BY <1>1, FS_AddElement
<1> QED BY <1>2, <1>3 DEF Count

LEMMA CountSame ==
  ASSUME NEW pl, NEW pl2, NEW o, \A r \in Protocol : pl[r] = o <=> pl2[r] = o
  PROVE  Count(pl2, o) = Count(pl, o)
<1>1. {r \in Protocol : pl2[r] = o} = {r \in Protocol : pl[r] = o}
  OBVIOUS
<1> QED BY <1>1 DEF Count

LEMMA LessenedFacts ==
  ASSUME NEW r \in AnyObject, NEW k \in Nat
  PROVE  /\ Lessened(r, k) \in AnyObject
         /\ Lessened(r, k).online = r.online /\ Lessened(r, k).inCheck = r.inCheck
         /\ r.ref > k => /\ Lessened(r, k).ref = r.ref - k
                         /\ Lessened(r, k).client = r.client /\ Lessened(r, k).name = r.name
                         /\ Lessened(r, k).releases = r.releases
         /\ ~(r.ref > k) => /\ Lessened(r, k).ref = 0 /\ Lessened(r, k).client = None
                            /\ Lessened(r, k).name = None
                            /\ Lessened(r, k).releases = k - r.ref
<1>1. CASE r.ref > k
  <2>1. Lessened(r, k) = [r EXCEPT !.ref = r.ref - k] /\ r.ref - k \in Nat
    BY <1>1 DEF Lessened, AnyObject
  <2> QED BY <1>1, <2>1 DEF AnyObject
<1>2. CASE ~(r.ref > k)
  <2>1. Lessened(r, k) = [Free EXCEPT !.online = r.online, !.inCheck = r.inCheck,
                                      !.releases = k - r.ref] /\ k - r.ref \in Nat
    BY <1>2 DEF Lessened, AnyObject
  <2>2. /\ Lessened(r, k).online = r.online /\ Lessened(r, k).inCheck = r.inCheck
        /\ Lessened(r, k).ref = 0 /\ Lessened(r, k).client = None
        /\ Lessened(r, k).name = None /\ Lessened(r, k).releases = k - r.ref
    BY <2>1 DEF Free
  <2>3. Lessened(r, k) \in AnyObject
    <3>1. Lessened(r, k) = [name |-> None, client |-> None, ref |-> 0, online |-> r.online,
             dying |-> FALSE, inCheck |-> r.inCheck, releases |-> k - r.ref]
      BY <2>1 DEF Free
    <3>2. r.online \in BOOLEAN /\ r.inCheck \in BOOLEAN
      BY DEF AnyObject
    <3>3. \A a, b \in BOOLEAN, m \in Nat :
            [name |-> None, client |-> None, ref |-> 0, online |-> a,
             dying |-> FALSE, inCheck |-> b, releases |-> m] \in AnyObject
      BY Zenon DEF AnyObject
    <3>4. k - r.ref \in Nat
      BY <2>1
    <3> QED BY <3>1, <3>2, <3>3, <3>4, Zenon
  <2> QED BY <1>2, <2>2, <2>3
<1> QED BY <1>1, <1>2

Checked(r) == r.online \/ r.releases > 0 => r.inCheck

\* Before a step nothing dangles.
LEMMA AllChecked ==
  ASSUME InCheck, ~Undefined, NEW o \in Object
  PROVE  Checked(objects[o]) /\ ~Dangling(o)
BY DEF InCheck, Undefined, Checked

\* What a step deletes while somebody refers to it dangles.
LEMMA Dangles ==
  ASSUME SessionAssumption, objects' \in [Object -> AnyObject], NEW o \in Object,
         objects'[o].ref = 0,
         \/ objects'[o].online \/ objects'[o].inCheck \/ objects'[o].releases > 0
         \/ \E p \in Protocol : player'[p] = o
  PROVE  Dangling(o)'
<1>1. Count(player', o) \in Nat /\ (Count(player', o) = 0 <=> {p \in Protocol : player'[p] = o} = {})
  BY CountIsNat
<1>2. objects'[o] \in AnyObject
  OBVIOUS
<1>3. \/ objects'[o].online \/ objects'[o].inCheck \/ objects'[o].releases > 0 \/ Count(player', o) > 0
  BY <1>1
<1>4. References(o)' = Count(player', o) + objects'[o].releases
        + (IF objects'[o].online THEN 1 ELSE 0) + (IF objects'[o].inCheck THEN 1 ELSE 0)
  BY DEF References, Holders, Count
<1>5. References(o)' > 0
  BY <1>1, <1>2, <1>3, <1>4 DEF AnyObject
<1> QED BY <1>5 DEF Dangling

\* objs2 differs from objs at o, and there has the parts given.
Becomes(objs, objs2, o, n, p, k, a, b, l) ==
  /\ objs2 \in [Object -> AnyObject]
  /\ \A x \in Object \ {o} : objs2[x] = objs[x]
  /\ objs2[o].name = n /\ objs2[o].client = p /\ objs2[o].ref = k
  /\ objs2[o].online = a /\ objs2[o].inCheck = b /\ objs2[o].releases = l

LEMMA CreateFacts ==
  ASSUME NEW objs \in [Object -> AnyObject], NEW o \in Object,
         NEW n \in Name \cup {None}, NEW p \in Protocol \cup {None}
  PROVE  Becomes(objs, Create(objs, o, n, p), o, n, p, 1, FALSE, FALSE, 0)
<1> DEFINE r == [Free EXCEPT !.name = n, !.client = p, !.ref = 1]
<1>1. Free \in AnyObject
  BY DEF Free, AnyObject
<1>2. r \in AnyObject
  BY <1>1 DEF AnyObject
<1>3. /\ r.name = n /\ r.client = p /\ r.ref = 1
      /\ r.online = FALSE /\ r.inCheck = FALSE /\ r.releases = 0
  BY DEF Free
<1> HIDE DEF r
<1>4. Create(objs, o, n, p) = [objs EXCEPT ![o] = r]
  BY DEF Create, r
<1> QED BY <1>2, <1>3, <1>4 DEF Becomes

\* A player gets a client, or loses it, and k references.
LEMMA ClientFacts ==
  ASSUME NEW objs \in [Object -> AnyObject], NEW o \in Object, NEW k \in Nat,
         NEW p \in Protocol \cup {None}
  PROVE  Becomes(objs, [Ref(objs, o, k) EXCEPT ![o].client = p], o, objs[o].name, p,
                 objs[o].ref + k, objs[o].online, objs[o].inCheck, objs[o].releases)
<1> DEFINE r == objs[o]
           s == [r EXCEPT !.ref = @ + k]
           t == [s EXCEPT !.client = p]
<1>1. r \in AnyObject
  OBVIOUS
<1>2. s \in AnyObject
  BY <1>1 DEF AnyObject
<1>3. t \in AnyObject
  BY <1>2 DEF AnyObject
<1>4. /\ t.name = r.name /\ t.client = p /\ t.online = r.online /\ t.inCheck = r.inCheck
      /\ t.releases = r.releases
  BY <1>1, <1>2 DEF AnyObject
<1>5. t.ref = r.ref + k
  BY <1>1, <1>2 DEF AnyObject
<1>6. Ref(objs, o, k) = [objs EXCEPT ![o] = s]
  BY DEF Ref
<1>7. [Ref(objs, o, k) EXCEPT ![o].client = p] = [objs EXCEPT ![o] = t]
  BY <1>6
<1> HIDE DEF r, s, t
<1> QED BY <1>3, <1>4, <1>5, <1>7 DEF Becomes, r

LEMMA LinkFacts ==
  ASSUME NEW objs \in [Object -> AnyObject], NEW o \in Object, NEW p \in Protocol \cup {None}
  PROVE  Becomes(objs, [objs EXCEPT ![o].client = p], o, objs[o].name, p,
                 objs[o].ref, objs[o].online, objs[o].inCheck, objs[o].releases)
<1> DEFINE r == objs[o]
           t == [r EXCEPT !.client = p]
<1>1. r \in AnyObject
  OBVIOUS
<1>2. t \in AnyObject
  BY <1>1 DEF AnyObject
<1>3. /\ t.name = r.name /\ t.client = p /\ t.ref = r.ref /\ t.online = r.online
      /\ t.inCheck = r.inCheck /\ t.releases = r.releases
  BY <1>1 DEF AnyObject
<1> HIDE DEF t
<1>4. [objs EXCEPT ![o].client = p] = [objs EXCEPT ![o] = t]
  BY DEF t
<1> QED BY <1>2, <1>3, <1>4 DEF Becomes

LEMMA PlaceFacts ==
  ASSUME NEW objs \in [Object -> AnyObject], NEW o \in Object
  PROVE  Becomes(objs, Place(objs, o), o, objs[o].name, objs[o].client,
                 objs[o].ref + 2, TRUE, TRUE, objs[o].releases)
<1> DEFINE r == objs[o]
           s == [r EXCEPT !.ref = @ + 2]
           t == [s EXCEPT !.online = TRUE]
           u == [t EXCEPT !.inCheck = TRUE]
<1>1. r \in AnyObject
  OBVIOUS
<1>2. s \in AnyObject
  BY <1>1 DEF AnyObject
<1>3. t \in AnyObject
  BY <1>2 DEF AnyObject
<1>4. u \in AnyObject
  BY <1>3 DEF AnyObject
<1>5. /\ u.name = r.name /\ u.client = r.client /\ u.online = TRUE /\ u.inCheck = TRUE
      /\ u.releases = r.releases
  BY <1>1, <1>2, <1>3 DEF AnyObject
<1>6. u.ref = r.ref + 2
  BY <1>1, <1>2, <1>3 DEF AnyObject
<1>7. Place(objs, o) = [objs EXCEPT ![o] = u]
  BY DEF Place, Ref
<1> HIDE DEF r, s, t, u
<1> QED BY <1>4, <1>5, <1>6, <1>7 DEF Becomes, r

LEMMA RemoveFacts ==
  ASSUME NEW objs \in [Object -> AnyObject], NEW o \in Object
  PROVE  /\ ~objs[o].online => Remove(objs, o) = objs
         /\ objs[o].online =>
              Becomes(objs, Remove(objs, o), o, objs[o].name, objs[o].client,
                      objs[o].ref, FALSE, objs[o].inCheck, objs[o].releases + 1)
<1> DEFINE r == objs[o]
           s == [r EXCEPT !.online = FALSE]
           t == [s EXCEPT !.dying = FALSE]
           u == [t EXCEPT !.releases = @ + 1]
<1>1. r \in AnyObject
  OBVIOUS
<1>2. s \in AnyObject
  BY <1>1 DEF AnyObject
<1>3. t \in AnyObject
  BY <1>2 DEF AnyObject
<1>4. u \in AnyObject
  <2>1. \A x \in AnyObject : [x EXCEPT !.releases = @ + 1] \in AnyObject
    BY DEF AnyObject
  <2> QED BY <1>3, <2>1
<1>5. /\ u.name = r.name /\ u.client = r.client /\ u.online = FALSE /\ u.inCheck = r.inCheck
      /\ u.ref = r.ref
  BY <1>1, <1>2, <1>3 DEF AnyObject
<1>6. u.releases = r.releases + 1
  BY <1>1, <1>2, <1>3 DEF AnyObject
<1>7. objs[o].online => Remove(objs, o) = [objs EXCEPT ![o] = u]
  BY DEF Remove
<1>8. ~objs[o].online => Remove(objs, o) = objs
  BY DEF Remove
<1> HIDE DEF r, s, t, u
<1> QED BY <1>4, <1>5, <1>6, <1>7, <1>8 DEF Becomes, r

\* unref: the reference of a protocol that lets go.
LEMMA UnlinkedFacts ==
  ASSUME NEW o \in Object, objects \in [Object -> AnyObject]
  PROVE  /\ Unlinked(o) \in [Object -> AnyObject]
         /\ \A x \in Object \ {o} : Unlinked(o)[x] = objects[x]
         /\ Unlinked(o)[o].client = None /\ Unlinked(o)[o].online = objects[o].online
         /\ Unlinked(o)[o].inCheck = objects[o].inCheck
         /\ Unlinked(o)[o].name \in {objects[o].name, None}
         /\ objects[o].ref > 1 => /\ Unlinked(o)[o].ref = objects[o].ref - 1
                                  /\ Unlinked(o)[o].releases = objects[o].releases
         /\ ~(objects[o].ref > 1) => /\ Unlinked(o)[o].ref = 0
                                     /\ Unlinked(o)[o].releases = 1 - objects[o].ref
<1> DEFINE objs == [objects EXCEPT ![o].client = None]
<1>1. Becomes(objects, objs, o, objects[o].name, None, objects[o].ref, objects[o].online,
              objects[o].inCheck, objects[o].releases)
  BY LinkFacts
<1>2. Unlinked(o) = [objs EXCEPT ![o] = Lessened(objs[o], 1)]
  BY DEF Unlinked, Unref
<1> HIDE DEF objs
<1>3. objs[o] \in AnyObject
  BY <1>1 DEF Becomes
<1> QED BY <1>1, <1>2, <1>3, LessenedFacts DEF Becomes

\* cleanup
LEMMA CleanedType ==
  ASSUME NEW objs \in [Object -> AnyObject]
  PROVE  /\ Cleaned(objs) \in [Object -> AnyObject]
         /\ \A x \in Object : Cleaned(objs)[x] =
              Lessened([objs[x] EXCEPT !.releases = 0], objs[x].releases)
<1> DEFINE Emptied(x) == [objs[x] EXCEPT !.releases = 0]
<1>1. \A x \in Object : objs[x] \in AnyObject /\ objs[x].releases \in Nat
  BY DEF AnyObject
<1>2. \A x \in Object : Emptied(x) \in AnyObject
  BY <1>1 DEF AnyObject
<1>3. \A x \in Object : Lessened(Emptied(x), objs[x].releases) \in AnyObject
  BY <1>1, <1>2, LessenedFacts
<1>4. Cleaned(objs) = [x \in Object |-> Lessened(Emptied(x), objs[x].releases)]
  BY DEF Cleaned
<1> QED BY <1>3, <1>4

LEMMA CleanedFacts ==
  ASSUME NEW objs \in [Object -> AnyObject], NEW o \in Object
  PROVE  /\ Cleaned(objs)[o].online = objs[o].online /\ Cleaned(objs)[o].inCheck = objs[o].inCheck
         /\ objs[o].ref > objs[o].releases =>
              /\ Cleaned(objs)[o].ref = objs[o].ref - objs[o].releases
              /\ Cleaned(objs)[o].client = objs[o].client /\ Cleaned(objs)[o].name = objs[o].name
              /\ Cleaned(objs)[o].releases = 0
         /\ ~(objs[o].ref > objs[o].releases) =>
              /\ Cleaned(objs)[o].ref = 0 /\ Cleaned(objs)[o].client = None
              /\ Cleaned(objs)[o].name = None
              /\ Cleaned(objs)[o].releases = objs[o].releases - objs[o].ref
<1> DEFINE r == [objs[o] EXCEPT !.releases = 0]
<1>1. objs[o] \in AnyObject /\ objs[o].releases \in Nat
  BY DEF AnyObject
<1>2. r \in AnyObject
  BY <1>1 DEF AnyObject
<1>3. /\ r.online = objs[o].online /\ r.inCheck = objs[o].inCheck
      /\ r.client = objs[o].client /\ r.name = objs[o].name
      /\ r.ref = objs[o].ref /\ r.releases = 0
  BY <1>1 DEF AnyObject
<1>4. Cleaned(objs)[o] = Lessened(r, objs[o].releases)
  BY CleanedType
<1> HIDE DEF r
<1> QED BY <1>1, <1>2, <1>3, <1>4, LessenedFacts

(***************************************************************************)
(* Steps that only take players away                                       *)
(***************************************************************************)
LEMMA PlayersShrink ==
  ASSUME SessionInv, ProtocolsOK', QueueKept, Over => Over', UNCHANGED <<player, raced>>,
         objects' \in [Object -> AnyObject],
         \A o \in Object : objects'[o].online =>
           /\ objects[o].online
           /\ objects'[o].client \in {objects[o].client, None}
           /\ objects'[o].name \in {objects[o].name, None},
         \A o \in Object : Checked(objects'[o]) \/ Dangling(o)'
  PROVE  SessionInv'
<1>1. TypeOK'
  <2>1. \A i \in DOMAIN tasks' : tasks'[i].kind \in Kinds
    <3>1. tasks' \in Seq(AnyTask)
      BY DEF QueueKept
    <3>2. \A i \in DOMAIN tasks' : tasks'[i] \in AnyTask
      BY <3>1
    <3> QED BY <3>2 DEF AnyTask
  <2> QED BY <2>1 DEF SessionInv, TypeOK, ProtocolsOK, QueueKept, Kinds, AnyObject
<1>2. OneEach'
  BY DEF SessionInv, OneEach
<1>3. LinksTended'
  <2> SUFFICES ASSUME NEW o \in Object, NEW p \in Protocol,
                      objects'[o].online, objects'[o].client = p, p \notin raced
               PROVE  player[p] = o /\ (Over' \/ Tended(p, tasks', conn'))
    BY DEF LinksTended, Tended
  <2>1. objects[o].online /\ (objects[o].client = p \/ p = None)
    OBVIOUS
  <2>2. CASE objects[o].client = p
    <3>1. player[p] = o /\ (Over \/ Tended(p, tasks, conn))
      BY <2>1, <2>2 DEF SessionInv, LinksTended
    <3> QED BY <3>1 DEF QueueKept
  <2>3. CASE p = None
    BY <2>3, SessionAssumption DEF SessionAssumption
  <2> QED BY <2>1, <2>2, <2>3
<1>4. InCheck'
  BY DEF InCheck, Checked
<1> QED BY <1>1, <1>2, <1>3, <1>4 DEF SessionInv, QueueKept

\* removeCreature leaves the list of checkCreatures alone.
LEMMA RemoveChecked ==
  ASSUME NEW objs \in [Object -> AnyObject], NEW x \in Object,
         \A o \in Object : Checked(objs[o])
  PROVE  /\ Remove(objs, x) \in [Object -> AnyObject]
         /\ \A o \in Object :
              /\ Remove(objs, x)[o].online => objs[o].online /\ o # x
              /\ Remove(objs, x)[o].client = objs[o].client
              /\ Remove(objs, x)[o].name = objs[o].name
              /\ Checked(Remove(objs, x)[o])
<1>1. CASE ~objs[x].online
  BY <1>1, RemoveFacts
<1>2. CASE objs[x].online
  <2>1. Becomes(objs, Remove(objs, x), x, objs[x].name, objs[x].client,
                objs[x].ref, FALSE, objs[x].inCheck, objs[x].releases + 1)
    BY <1>2, RemoveFacts
  <2>2. objs[x].inCheck
    BY <1>2 DEF Checked
  <2> HIDE DEF Checked
  <2>3. Checked(Remove(objs, x)[x])
    BY <2>1, <2>2 DEF Becomes, Checked
  <2> QED BY <2>1, <2>3 DEF Becomes
<1> QED BY <1>1, <1>2

LEMMA LeaveKeeps ==
  ASSUME SessionAssumption, SessionInv, ~Undefined, phase' = phase,
         NEW p \in Protocol, NEW queue,
         \/ queue = tasks
         \/ tasks # <<>> /\ Head(tasks).kind # "release" /\ queue = Rest,
         Leave(p, queue)
  PROVE  SessionInv'
<1>0. /\ TypeOK /\ tasks \in Seq(AnyTask) /\ QueueInv /\ ProtocolsOK /\ InCheck
      /\ objects \in [Object -> AnyObject] /\ player \in [Protocol -> Object \cup {None}]
  BY DEF SessionInv, TypeOK, ProtocolsOK, AnyObject
<1>1. QueueKept
  <2>1. CASE player[p] = None
    BY <1>0, <2>1, QueueGoesOn DEF Leave
  <2>2. CASE player[p] # None
    BY <1>0, <2>2, QueueGoesOn DEF Leave
  <2> QED BY <2>1, <2>2
<1>2. ProtocolsOK'
  BY <1>0 DEF Leave, ProtocolsOK, proto
<1>3. \A o \in Object : Checked(objects[o])
  BY <1>0, AllChecked
<1>4. Over' = Over /\ UNCHANGED <<player, raced>>
  BY DEF Leave, Over
<1>5. CASE player[p] = None
  <2>1. UNCHANGED objects
    BY <1>5 DEF Leave
  <2> QED BY <1>0, <1>1, <1>2, <1>3, <1>4, <2>1, PlayersShrink
<1>6. CASE player[p] # None
  <2>1. player[p] \in Object /\ objects' = Remove(objects, player[p])
    BY <1>0, <1>6 DEF Leave
  <2>2. /\ objects' \in [Object -> AnyObject]
        /\ \A o \in Object : /\ objects'[o].online => objects[o].online
                             /\ objects'[o].client = objects[o].client
                             /\ objects'[o].name = objects[o].name
                             /\ Checked(objects'[o])
    BY <1>0, <1>3, <2>1, RemoveChecked
  <2> QED BY <1>1, <1>2, <1>4, <2>2, PlayersShrink
<1> QED BY <1>5, <1>6

LEMMA KickKeeps ==
  ASSUME SessionAssumption, SessionInv, ~Undefined, phase' = phase, NEW o \in Object, Kick(o)
  PROVE  SessionInv'
<1>0. /\ TypeOK /\ tasks \in Seq(AnyTask) /\ QueueInv /\ ProtocolsOK /\ InCheck
      /\ objects \in [Object -> AnyObject]
  BY DEF SessionInv, TypeOK, ProtocolsOK, AnyObject
<1>1. CASE objects[o].client # None
  <2>1. objects[o].client \in Protocol /\ Leave(objects[o].client, tasks)
    BY <1>0, <1>1 DEF Kick, AnyObject
  <2> QED BY <2>1, LeaveKeeps
<1>2. CASE objects[o].client = None
  <2>1. objects' = Remove(objects, o) /\ UNCHANGED <<tasks, player, net, proto, crashed, raced>>
    BY <1>2 DEF Kick
  <2>2. QueueKept
    BY <1>0, <2>1, QueueGoesOn DEF net
  <2>3. ProtocolsOK'
    BY <1>0, <2>1 DEF ProtocolsOK, proto, net
  <2>4. \A x \in Object : Checked(objects[x])
    BY <1>0, AllChecked
  <2>5. /\ objects' \in [Object -> AnyObject]
        /\ \A x \in Object : /\ objects'[x].online => objects[x].online
                             /\ objects'[x].client = objects[x].client
                             /\ objects'[x].name = objects[x].name
                             /\ Checked(objects'[x])
    BY <1>0, <2>1, <2>4, RemoveChecked
  <2> QED BY <2>1, <2>2, <2>3, <2>5, PlayersShrink DEF Over
<1> QED BY <1>1, <1>2

\* PlayerByName finds who is there.
LEMMA Found ==
  ASSUME SessionAssumption, NEW n
  PROVE  /\ PlayerByName(n) = None <=> \A o \in Object : ~(objects[o].online /\ objects[o].name = n)
         /\ PlayerByName(n) # None =>
              /\ PlayerByName(n) \in Object
              /\ objects[PlayerByName(n)].online /\ objects[PlayerByName(n)].name = n
<1>1. CASE Online(n) = {}
  BY <1>1 DEF PlayerByName, Online
<1>2. CASE Online(n) # {}
  <2>1. PlayerByName(n) \in Online(n)
    BY <1>2 DEF PlayerByName
  <2> QED BY <2>1 DEF Online, SessionAssumption
<1> QED BY <1>1, <1>2

LEMMA CleanedKeeps ==
  ASSUME SessionAssumption, SessionInv, ~Undefined, ProtocolsOK', QueueKept, Over => Over',
         UNCHANGED <<player, raced>>,
         NEW objs \in [Object -> AnyObject],
         \A o \in Object :
           /\ objs[o].online = objects[o].online
           /\ objs[o].client = objects[o].client /\ objs[o].name = objects[o].name
           /\ objs[o].online => objs[o].inCheck,
         objects' = Cleaned(objs)
  PROVE  SessionInv'
<1>1. /\ objects' \in [Object -> AnyObject]
      /\ \A o \in Object :
           /\ objects'[o].online => objects[o].online
           /\ objects'[o].client \in {objects[o].client, None}
           /\ objects'[o].name \in {objects[o].name, None}
  <2>1. objects' \in [Object -> AnyObject]
    BY CleanedType
  <2>2. ASSUME NEW o \in Object
        PROVE  /\ objects'[o].online => objs[o].online
               /\ objects'[o].client \in {objs[o].client, None}
               /\ objects'[o].name \in {objs[o].name, None}
    <3>1. CASE objs[o].ref > objs[o].releases
      BY <3>1, CleanedFacts
    <3>2. CASE ~(objs[o].ref > objs[o].releases)
      BY <3>2, CleanedFacts
    <3> QED BY <3>1, <3>2
  <2> QED BY <2>1, <2>2
<1>2. ASSUME NEW o \in Object PROVE Checked(objects'[o]) \/ Dangling(o)'
  <2>1. /\ objects'[o].online => objects'[o].inCheck
        /\ objs[o].ref > objs[o].releases => objects'[o].releases = 0
        /\ ~(objs[o].ref > objs[o].releases) => objects'[o].ref = 0
    BY CleanedFacts
  <2>2. CASE objs[o].ref > objs[o].releases
    BY <2>1, <2>2 DEF Checked
  <2>3. CASE ~(objs[o].ref > objs[o].releases)
    BY <1>1, <2>1, <2>3, Dangles DEF Checked
  <2> QED BY <2>2, <2>3
<1> QED BY <1>1, <1>2, PlayersShrink

LEMMA GameKeeps ==
  ASSUME SessionAssumption, SessionInv, ~Undefined,
         \/ Cleanup \/ Halt
         \/ \E o \in Object : CheckCreatures(o) \/ Hit(o) \/ KickOne(o) \/ ShutdownKicks(o)
         \/ \E p \in Protocol, allowed \in BOOLEAN : RunLogout(p, allowed)
         \/ \E n \in Name, outcome \in {"none", "revived", "losses", "corpse"} : RunDeath(n, outcome)
  PROVE  SessionInv'
<1>0. /\ TypeOK /\ tasks \in Seq(AnyTask) /\ QueueInv /\ ProtocolsOK /\ InCheck
      /\ objects \in [Object -> AnyObject]
  BY DEF SessionInv, TypeOK, ProtocolsOK, AnyObject
<1>1. \A o \in Object : Checked(objects[o])
  BY <1>0, AllChecked
<1>2. CASE Cleanup
  <2>1. QueueKept
    BY <1>0, <1>2, QueueGoesOn DEF Cleanup, net
  <2>2. ProtocolsOK'
    BY <1>0, <1>2 DEF Cleanup, ProtocolsOK, proto, net
  <2> QED BY <1>0, <1>1, <1>2, <2>1, <2>2, CleanedKeeps DEF Cleanup, Over, Checked
<1>3. CASE Halt
  <2>1. /\ tasks # <<>> /\ Head(tasks).kind = "halt" /\ tasks' = Rest /\ conn' = conn /\ Over'
    BY <1>3 DEF Halt, Run, net, Task, Over
  <2>2. Rest \in Seq(AnyTask) /\ (Quiet(tasks, conn) => Quiet(Rest, conn))
    BY <1>0, <2>1, RestKeeps DEF Rest
  <2>3. QueueKept
    BY <1>0, <2>1, <2>2 DEF QueueKept, QueueInv, TypeOK
  <2>4. ProtocolsOK'
    BY <1>0, <1>3 DEF Halt, ProtocolsOK, proto, net
  <2> QED BY <1>0, <1>1, <1>3, <2>1, <2>3, <2>4, CleanedKeeps DEF Halt, Checked
<1>4. ASSUME NEW o \in Object, CheckCreatures(o) PROVE SessionInv'
  <2> DEFINE r == [objects[o] EXCEPT !.inCheck = FALSE]
             s == [r EXCEPT !.releases = @ + 1]
             objs == [objects EXCEPT ![o] = s]
  <2>1. QueueKept
    BY <1>0, <1>4, QueueGoesOn DEF CheckCreatures, net
  <2>2. ProtocolsOK'
    BY <1>0, <1>4 DEF CheckCreatures, ProtocolsOK, proto, net
  <2>3. r \in AnyObject
    BY <1>0, Updates
  <2>4. s \in AnyObject
    <3>1. \A x \in AnyObject : [x EXCEPT !.releases = @ + 1] \in AnyObject
      BY DEF AnyObject
    <3> QED BY <2>3, <3>1
  <2>5. /\ s.online = objects[o].online /\ s.client = objects[o].client
        /\ s.name = objects[o].name
    BY <1>0, <2>3 DEF AnyObject
  <2>6. objects' = Cleaned(objs) /\ ~objects[o].online
    BY <1>4 DEF CheckCreatures
  <2>7. UNCHANGED <<player, raced>> /\ Over' = Over
    BY <1>4 DEF CheckCreatures, Over
  <2> HIDE DEF r, s
  <2>8. /\ objs \in [Object -> AnyObject]
        /\ \A x \in Object : /\ objs[x].online = objects[x].online
                             /\ objs[x].client = objects[x].client
                             /\ objs[x].name = objects[x].name
                             /\ objs[x].online => objs[x].inCheck
    BY <1>0, <1>1, <2>4, <2>5, <2>6 DEF Checked
  <2> HIDE DEF objs
  <2> QED BY <2>1, <2>2, <2>6, <2>7, <2>8, CleanedKeeps
<1>5. ASSUME NEW o \in Object, Hit(o) PROVE SessionInv'
  <2> DEFINE r == [objects[o] EXCEPT !.dying = TRUE]
  <2>1. Task("death", None, objects[o].name) \in AnyTask
        /\ Task("death", None, objects[o].name).kind = "death"
    BY <1>0 DEF Task, AnyTask, Kinds, AnyObject
  <2>2. QueueKept
    BY <1>0, <1>5, <2>1, QueueGoesOn DEF Hit, net
  <2>3. ProtocolsOK'
    BY <1>0, <1>5 DEF Hit, ProtocolsOK, proto, net
  <2>4. r \in AnyObject
    BY <1>0, Updates
  <2>5. /\ r.online = objects[o].online /\ r.client = objects[o].client
        /\ r.name = objects[o].name /\ r.inCheck = objects[o].inCheck
        /\ r.releases = objects[o].releases
    BY <1>0 DEF AnyObject
  <2>6. objects' = [objects EXCEPT ![o] = r] /\ UNCHANGED <<player, raced>> /\ Over' = Over
    BY <1>5 DEF Hit, Over
  <2> HIDE DEF r
  <2>7. /\ objects' \in [Object -> AnyObject]
        /\ \A x \in Object : /\ objects'[x].online => objects[x].online
                             /\ objects'[x].client = objects[x].client
                             /\ objects'[x].name = objects[x].name
                             /\ Checked(objects'[x])
    BY <1>0, <1>1, <2>4, <2>5, <2>6 DEF Checked
  <2> QED BY <2>2, <2>3, <2>6, <2>7, PlayersShrink
<1>6. ASSUME NEW o \in Object, KickOne(o) \/ ShutdownKicks(o) PROVE SessionInv'
  BY <1>6, KickKeeps DEF KickOne, ShutdownKicks
<1>7. ASSUME NEW p \in Protocol, NEW allowed \in BOOLEAN, RunLogout(p, allowed) PROVE SessionInv'
  <2>1. tasks # <<>> /\ Head(tasks).kind = "logout" /\ phase' = phase
    BY <1>7 DEF RunLogout, Run, Task
  <2>2. CASE allowed
    <3>1. Leave(p, Rest)
      BY <1>7, <2>2 DEF RunLogout
    <3> QED BY <2>1, <3>1, LeaveKeeps
  <2>3. CASE ~allowed
    <3>1. tasks' = Rest /\ UNCHANGED <<objects, conn, player, first, proto, crashed, raced>>
      BY <1>7, <2>3 DEF RunLogout
    <3>2. QueueKept
      BY <1>0, <2>1, <3>1, QueueGoesOn
    <3>3. ProtocolsOK'
      BY <1>0, <2>1, <3>1 DEF ProtocolsOK, proto
    <3> QED BY <2>1, <3>1, <3>2, <3>3, LinksUntouched DEF Over
  <2> QED BY <2>2, <2>3
<1>8. ASSUME NEW n \in Name, NEW outcome \in {"none", "revived", "losses", "corpse"},
             RunDeath(n, outcome)
      PROVE  SessionInv'
  <2> DEFINE o == PlayerByName(n)
  <2>1. /\ tasks # <<>> /\ Head(tasks).kind = "death" /\ tasks' = Rest
        /\ UNCHANGED <<player, net, proto, phase, raced>>
    BY <1>8 DEF RunDeath, Run, Task
  <2>2. QueueKept
    BY <1>0, <2>1, QueueGoesOn DEF net
  <2>3. ProtocolsOK'
    BY <1>0, <2>1 DEF ProtocolsOK, proto, net
  <2>4. CASE outcome = "none"
    <3>1. UNCHANGED objects
      BY <1>8, <2>4 DEF RunDeath
    <3> QED BY <2>1, <2>2, <2>3, <3>1, LinksUntouched DEF Over
  <2>5. CASE outcome # "none"
    <3>1. o \in Object
      BY <1>8, <2>5, Found DEF RunDeath
    <3>2. \/ objects' = [objects EXCEPT ![o].dying = FALSE]
          \/ objects' = Remove(objects, o)
      BY <1>8, <2>5 DEF RunDeath
    <3> HIDE DEF o
    <3>3. ASSUME objects' = Remove(objects, o)
          PROVE  /\ objects' \in [Object -> AnyObject]
                 /\ \A x \in Object : /\ objects'[x].online => objects[x].online
                                      /\ objects'[x].client = objects[x].client
                                      /\ objects'[x].name = objects[x].name
                                      /\ Checked(objects'[x])
      BY <1>0, <1>1, <3>1, <3>3, RemoveChecked
    <3>4. ASSUME objects' = [objects EXCEPT ![o].dying = FALSE]
          PROVE  /\ objects' \in [Object -> AnyObject]
                 /\ \A x \in Object : /\ objects'[x].online => objects[x].online
                                      /\ objects'[x].client = objects[x].client
                                      /\ objects'[x].name = objects[x].name
                                      /\ Checked(objects'[x])
      <4> DEFINE r == [objects[o] EXCEPT !.dying = FALSE]
      <4>1. r \in AnyObject
        BY <1>0, <3>1, Updates
      <4>2. /\ r.online = objects[o].online /\ r.client = objects[o].client
            /\ r.name = objects[o].name /\ r.inCheck = objects[o].inCheck
            /\ r.releases = objects[o].releases
        BY <1>0, <3>1 DEF AnyObject
      <4>3. objects' = [objects EXCEPT ![o] = r]
        BY <3>4
      <4> HIDE DEF r
      <4> QED BY <1>0, <1>1, <3>1, <4>1, <4>2, <4>3 DEF Checked
    <3> QED BY <2>1, <2>2, <2>3, <3>2, <3>3, <3>4, PlayersShrink DEF Over
  <2> QED BY <2>4, <2>5
<1> QED BY <1>2, <1>3, <1>4, <1>5, <1>6, <1>7, <1>8

(***************************************************************************)
(* Steps that link and unlink                                              *)
(***************************************************************************)
LEMMA ReleaseKeeps ==
  ASSUME SessionAssumption, SessionInv, ~Undefined, NEW p \in Protocol, RunRelease(p)
  PROVE  SessionInv'
<1>0. /\ TypeOK /\ tasks \in Seq(AnyTask) /\ QueueInv /\ ProtocolsOK /\ InCheck
      /\ objects \in [Object -> AnyObject] /\ player \in [Protocol -> Object \cup {None}]
      /\ OneEach /\ LinksTended
  BY DEF SessionInv, TypeOK, ProtocolsOK, AnyObject
<1>1. /\ tasks # <<>> /\ Head(tasks) = Release(p) /\ tasks' = Rest
      /\ UNCHANGED <<conn, phase, raced>> /\ Over' = Over
  BY DEF RunRelease, Run, Release, net, Over
<1>2. /\ Rest \in Seq(AnyTask)
      /\ (Quiet(tasks, conn) => Quiet(Rest, conn))
      /\ (Followed(tasks, conn) => Followed(Rest, conn))
      /\ \A t : Has(tasks, t) /\ Head(tasks) # t => Has(Rest, t)
  BY <1>0, <1>1, RestKeeps DEF Rest
<1>3. QueueInv'
  BY <1>0, <1>1, <1>2 DEF QueueInv
<1>4. \A r \in Protocol \ {p} : Tended(r, tasks, conn) => Tended(r, tasks', conn')
  <2>1. \A r \in Protocol \ {p} : Release(r) # Release(p)
    BY ReleaseIsTask
  <2> QED BY <1>1, <1>2, <2>1 DEF Tended
<1>5. \A o \in Object : Checked(objects[o])
  BY <1>0, AllChecked
<1>6. ProtocolsOK'
  BY <1>0 DEF RunRelease, ProtocolsOK, proto, net
<1>7. CASE player[p] # None /\ objects[player[p]].client = p
  <2>1. PICK o \in Object : /\ o = player[p] /\ objects' = Unlinked(o)
                           /\ player' = [player EXCEPT ![p] = None]
    BY <1>0, <1>7 DEF RunRelease
  <2>2. /\ objects' \in [Object -> AnyObject]
        /\ \A x \in Object \ {o} : objects'[x] = objects[x]
        /\ objects'[o].client = None /\ objects'[o].online = objects[o].online
        /\ objects'[o].inCheck = objects[o].inCheck
        /\ objects'[o].name \in {objects[o].name, None}
    BY <1>0, <2>1, UnlinkedFacts
  <2>3. Checked(objects'[o]) \/ Dangling(o)'
    <3>1. CASE objects[o].ref > 1
      <4>1. objects'[o].releases = objects[o].releases
        BY <1>0, <2>1, <3>1, UnlinkedFacts
      <4> QED BY <1>5, <2>1, <2>2, <4>1 DEF Checked
    <3>2. CASE ~(objects[o].ref > 1)
      <4>1. objects'[o].ref = 0
        BY <1>0, <2>1, <3>2, UnlinkedFacts
      <4>2. objects'[o].online => objects'[o].inCheck
        BY <1>5, <2>1, <2>2 DEF Checked
      <4>3. objects'[o].releases > 0 => Dangling(o)'
        BY <2>1, <2>2, <4>1, Dangles
      <4> QED BY <4>2, <4>3 DEF Checked
    <3> QED BY <3>1, <3>2
  <2>4. InCheck'
    <3>1. \A x \in Object : Checked(objects'[x]) \/ Dangling(x)'
      BY <1>5, <2>2, <2>3
    <3> QED BY <3>1 DEF InCheck, Checked
  <2>5. OneEach'
    BY <1>0, <2>1, <2>2 DEF OneEach
  <2>6. LinksTended'
    <3> SUFFICES ASSUME NEW x \in Object, NEW r \in Protocol,
                        objects'[x].online, objects'[x].client = r, r \notin raced
                 PROVE  player'[r] = x /\ (Over \/ Tended(r, tasks', conn'))
      BY <1>1 DEF LinksTended, Tended
    <3>1. x # o
      BY <2>2 DEF SessionAssumption
    <3>2. player[r] = x /\ (Over \/ Tended(r, tasks, conn))
      BY <1>0, <2>2, <3>1 DEF LinksTended
    <3>3. r # p
      BY <2>1, <3>1, <3>2
    <3> QED BY <1>0, <1>4, <2>1, <3>2, <3>3
  <2>7. TypeOK'
    <3>1. player' \in [Protocol -> Object \cup {None}]
      BY <1>0, <2>1
    <3>2. \A i \in DOMAIN tasks' : tasks'[i] \in AnyTask
      BY <1>1, <1>2
    <3>3. \A i \in DOMAIN tasks' : tasks'[i].kind \in Kinds
      BY <3>2 DEF AnyTask
    <3> QED BY <1>0, <1>1, <1>6, <2>2, <3>1, <3>3 DEF TypeOK, ProtocolsOK, AnyObject, Kinds
  <2> QED BY <1>1, <1>2, <1>3, <2>4, <2>5, <2>6, <2>7 DEF SessionInv
<1>8. CASE ~(player[p] # None /\ objects[player[p]].client = p)
  <2>1. UNCHANGED <<objects, player>>
    BY <1>8 DEF RunRelease
  <2>2. LinksTended'
    <3> SUFFICES ASSUME NEW x \in Object, NEW r \in Protocol,
                        objects[x].online, objects[x].client = r, r \notin raced
                 PROVE  player[r] = x /\ (Over \/ Tended(r, tasks', conn'))
      BY <1>1, <2>1 DEF LinksTended, Tended
    <3>1. player[r] = x /\ (Over \/ Tended(r, tasks, conn))
      BY <1>0 DEF LinksTended
    <3>2. r # p
      BY <1>8, <3>1 DEF SessionAssumption
    <3> QED BY <1>4, <3>1, <3>2
  <2>3. InCheck' /\ OneEach'
    BY <1>0, <2>1 DEF InCheck, Dangling, References, Holders, OneEach
  <2>4. TypeOK'
    <3>1. \A i \in DOMAIN tasks' : tasks'[i] \in AnyTask
      BY <1>1, <1>2
    <3>2. \A i \in DOMAIN tasks' : tasks'[i].kind \in Kinds
      BY <3>1 DEF AnyTask
    <3> QED BY <1>0, <1>1, <1>6, <2>1, <3>2 DEF TypeOK, ProtocolsOK, Kinds
  <2> QED BY <1>1, <1>2, <1>3, <2>2, <2>3, <2>4 DEF SessionInv
<1> QED BY <1>7, <1>8

\* p is linked to o.  Nobody else gets a client, and a player in the game whom p
\* leaves is remembered by raced.
Links(p, o) ==
  /\ player' = [player EXCEPT ![p] = o]
  /\ raced \subseteq raced' /\ raced' \subseteq Protocol
  /\ objects' \in [Object -> AnyObject]
  /\ \A x \in Object \ {o} : objects'[x].online =>
       /\ objects[x].online
       /\ objects'[x].client = objects[x].client /\ objects'[x].name = objects[x].name
       /\ objects[x].client = p => p \in raced' \/ player[p] # x
  /\ objects'[o].online =>
       /\ objects'[o].client = p
       /\ p \in raced' \/ Over \/ Tended(p, tasks', conn')
       /\ objects'[o].name # None =>
            \A x \in Object \ {o} : objects'[x].online => objects'[x].name # objects'[o].name
  /\ \A x \in Object : Checked(objects'[x])

LEMMA Linking ==
  ASSUME SessionAssumption, SessionInv, ProtocolsOK', QueueKept, phase' = phase,
         NEW p \in Protocol, NEW o \in Object, Links(p, o)
  PROVE  SessionInv'
<1> USE DEF Links
<1>0. /\ TypeOK /\ player \in [Protocol -> Object \cup {None}] /\ OneEach /\ LinksTended
  BY DEF SessionInv, TypeOK
<1>1. TypeOK'
  <2>1. \A i \in DOMAIN tasks' : tasks'[i].kind \in Kinds
    <3>1. tasks' \in Seq(AnyTask)
      BY DEF QueueKept
    <3>2. \A i \in DOMAIN tasks' : tasks'[i] \in AnyTask
      BY <3>1
    <3> QED BY <3>2 DEF AnyTask
  <2>2. player' \in [Protocol -> Object \cup {None}]
    BY <1>0
  <2> QED BY <2>1, <2>2 DEF TypeOK, ProtocolsOK, QueueKept, Kinds, AnyObject
<1>2. OneEach'
  <2> SUFFICES ASSUME NEW x \in Object, NEW y \in Object, objects'[x].online, objects'[y].online,
                      objects'[x].name = objects'[y].name, objects'[x].name # None
               PROVE  x = y
    BY DEF OneEach
  <2>1. CASE x # o /\ y # o
    BY <1>0, <2>1 DEF OneEach
  <2>2. CASE x = o \/ y = o
    BY <2>2
  <2> QED BY <2>1, <2>2
<1>3. LinksTended'
  <2> SUFFICES ASSUME NEW x \in Object, NEW r \in Protocol,
                      objects'[x].online, objects'[x].client = r, r \notin raced'
               PROVE  player'[r] = x /\ (Over' \/ Tended(r, tasks', conn'))
    BY DEF LinksTended, Tended
  <2>1. Over' = Over
    BY DEF Over
  <2>2. CASE x = o
    BY <1>0, <2>1, <2>2
  <2>3. CASE x # o
    <3>1. player[r] = x /\ (Over \/ Tended(r, tasks, conn))
      BY <1>0, <2>3 DEF LinksTended
    <3>2. r # p
      BY <2>3, <3>1
    <3>3. Over' \/ Tended(r, tasks', conn')
      BY <2>1, <3>1 DEF QueueKept
    <3> QED BY <1>0, <3>1, <3>2, <3>3
  <2> QED BY <2>2, <2>3
<1>4. InCheck'
  BY DEF InCheck, Checked
<1> QED BY <1>1, <1>2, <1>3, <1>4 DEF SessionInv, QueueKept

\* The last release has not been run, so the protocol is tended.
LEMMA NotLate ==
  ASSUME NEW p \in Protocol, NEW queue \in Seq(AnyTask), ~Late(p, queue)
  PROVE  Tended(p, queue, conn)
BY QueuedZero DEF Late, Tended

LEMMA ConnectKeeps ==
  ASSUME SessionAssumption, SessionInv, ~Undefined, NEW p \in Protocol, NEW n \in Name \cup {None},
         Connect(p, n), ProtocolsOK', phase' = phase,
         tasks # <<>>, Head(tasks).kind # "release"
  PROVE  SessionInv'
<1>0. /\ TypeOK /\ tasks \in Seq(AnyTask) /\ QueueInv /\ ProtocolsOK /\ InCheck /\ OneEach
      /\ objects \in [Object -> AnyObject] /\ player \in [Protocol -> Object \cup {None}]
      /\ raced \subseteq Protocol
  BY DEF SessionInv, TypeOK, ProtocolsOK, AnyObject
<1>1. CASE ~MayTakeOver(PlayerByName(n))
  <2>1. tasks' = Disconnect(Rest, p) /\ conn' = Closed({p}) /\ UNCHANGED <<objects, player, raced>>
    BY <1>1 DEF Connect
  <2>2. QueueKept
    BY <1>0, <2>1, QueueGoesOn
  <2> QED BY <2>1, <2>2, LinksUntouched DEF Over
<1>2. CASE MayTakeOver(PlayerByName(n)) /\ IsConnectionExpired(p)
  <2>1. tasks' = Rest /\ conn' = conn /\ UNCHANGED <<objects, player, raced>>
    BY <1>2 DEF Connect
  <2>2. QueueKept
    BY <1>0, <2>1, QueueGoesOn
  <2> QED BY <2>1, <2>2, LinksUntouched DEF Over
<1>3. CASE MayTakeOver(PlayerByName(n)) /\ ~IsConnectionExpired(p)
  <2>1. PICK o \in Object : /\ o = PlayerByName(n)
                            /\ objects[o].online /\ objects[o].name = n /\ objects[o].client = None
    BY <1>3, Found DEF MayTakeOver
  <2>2. /\ tasks' = Rest /\ conn' = conn
        /\ objects' = [Ref(objects, o, 1) EXCEPT ![o].client = p]
        /\ player' = [player EXCEPT ![p] = o]
        /\ raced' = Raced(p, (conn[p] = "closed" /\ Late(p, Rest)) \/ Abandons(p))
    BY <1>3, <2>1 DEF Connect
  <2>3. QueueKept
    BY <1>0, <2>2, QueueGoesOn
  <2>4. Becomes(objects, objects', o, n, p, objects[o].ref + 1, TRUE,
                objects[o].inCheck, objects[o].releases)
    <3>1. objects[o].online \in BOOLEAN
      BY <1>0 DEF AnyObject
    <3>2. objects[o].online = TRUE
      BY <2>1, <3>1
    <3>3. Becomes(objects, objects', o, objects[o].name, p, objects[o].ref + 1,
                  objects[o].online, objects[o].inCheck, objects[o].releases)
      BY <1>0, <2>2, ClientFacts
    <3> QED BY <2>1, <3>2, <3>3, Zenon
  <2>5. /\ raced \subseteq raced' /\ raced' \subseteq Protocol
        /\ p \notin raced' => ~Abandons(p) /\ ~(conn[p] = "closed" /\ Late(p, Rest))
    BY <1>0, <2>2 DEF Raced
  <2>6. p \notin raced' => Tended(p, tasks', conn')
    <3>1. Rest \in Seq(AnyTask)
      BY <1>0, RestKeeps DEF Rest
    <3>2. conn[p] \in {"open", "closed"}
      BY <1>0, <1>3 DEF TypeOK, IsConnectionExpired
    <3>3. p \notin raced' => ~Late(p, Rest) \/ conn[p] = "open"
      BY <2>5, <3>2
    <3>4. ~Late(p, Rest) => Tended(p, Rest, conn)
      BY <3>1, NotLate
    <3> QED BY <2>2, <3>3, <3>4 DEF Tended
  <2>7. \A x \in Object : Checked(objects'[x])
    <3>1. \A x \in Object : Checked(objects[x])
      BY <1>0, AllChecked
    <3>2. Checked(objects'[o])
      BY <2>1, <2>4, <3>1 DEF Checked, Becomes
    <3> QED BY <2>4, <3>1, <3>2 DEF Becomes
  <2>8. \A x \in Object \ {o} : objects'[x] = objects[x]
           /\ (objects[x].online /\ objects[x].client = p => p \in raced' \/ player[p] # x)
    BY <2>4, <2>5 DEF Becomes, Abandons, SessionAssumption
  <2>9. objects'[o].name # None =>
          \A x \in Object \ {o} : objects'[x].online => objects'[x].name # objects'[o].name
    BY <1>0, <2>1, <2>4, <2>8 DEF Becomes, OneEach
  <2>10. objects' \in [Object -> AnyObject] /\ objects'[o].client = p
    BY <2>4 DEF Becomes
  <2>11. \A x \in Object \ {o} : objects'[x].online =>
           /\ objects[x].online
           /\ objects'[x].client = objects[x].client /\ objects'[x].name = objects[x].name
           /\ objects[x].client = p => p \in raced' \/ player[p] # x
    BY <2>8
  <2>12. Links(p, o)
    BY <2>2, <2>5, <2>6, <2>7, <2>9, <2>10, <2>11 DEF Links
  <2> QED BY <2>3, <2>12, Linking
<1> QED BY <1>1, <1>2, <1>3

LEMMA LoginKeeps ==
  ASSUME SessionAssumption, SessionInv, ~Undefined, NEW p \in Protocol, NEW n \in Name \cup {None},
         \/ RunConnect(p, n) \/ LoginTwice(p, n) \/ LoginReplaces(p, n) \/ LoginConnects(p, n)
  PROVE  SessionInv'
<1>0. /\ TypeOK /\ tasks \in Seq(AnyTask) /\ QueueInv /\ ProtocolsOK
      /\ objects \in [Object -> AnyObject]
  BY DEF SessionInv, TypeOK, ProtocolsOK, AnyObject
<1>1. /\ tasks # <<>> /\ Head(tasks).kind # "release" /\ phase' = phase
  <2>1. (Run("login", p, n) \/ Run("connect", p, n)) /\ phase' = phase
    BY DEF RunConnect, LoginTwice, LoginReplaces, LoginConnects
  <2> QED BY <2>1 DEF Run, Task
<1>2. CASE RunConnect(p, n) \/ LoginConnects(p, n)
  <2>1. Connect(p, n)
    BY <1>2 DEF RunConnect, LoginConnects
  <2>2. ProtocolsOK'
    <3>1. acceptPackets' = acceptPackets \/ acceptPackets' = [acceptPackets EXCEPT ![p] = TRUE]
      BY <2>1 DEF Connect
    <3>2. /\ eventConnect' = [eventConnect EXCEPT ![p] = None] /\ fired' = [fired EXCEPT ![p] = FALSE]
          /\ lastName' = lastName \/ lastName' = [lastName EXCEPT ![p] = n]
          /\ UNCHANGED first
      BY <1>2, <2>1 DEF Connect, RunConnect, LoginConnects
    <3>3. {first, fired, acceptPackets}' \subseteq [Protocol -> BOOLEAN]
      <4>1. first \in [Protocol -> BOOLEAN] /\ fired \in [Protocol -> BOOLEAN]
            /\ acceptPackets \in [Protocol -> BOOLEAN]
        BY <1>0 DEF ProtocolsOK
      <4>2. fired' \in [Protocol -> BOOLEAN]
        BY <3>2, <4>1
      <4>3. acceptPackets' \in [Protocol -> BOOLEAN]
        BY <3>1, <4>1
      <4> QED BY <3>2, <4>1, <4>2, <4>3
    <3>4. {eventConnect, lastName}' \subseteq [Protocol -> Name \cup {None}]
      BY <1>0, <3>2 DEF ProtocolsOK
    <3> QED BY <1>0, <1>1, <3>3, <3>4 DEF ProtocolsOK
  <2> QED BY <1>1, <2>1, <2>2, ConnectKeeps
<1>3. CASE LoginTwice(p, n)
  <2>1. QueueKept
    BY <1>0, <1>1, <1>3, QueueGoesOn DEF LoginTwice
  <2>2. ProtocolsOK'
    BY <1>0, <1>3 DEF LoginTwice, ProtocolsOK, proto
  <2> QED BY <1>3, <2>1, <2>2, LinksUntouched DEF LoginTwice, Over
<1>4. CASE LoginReplaces(p, n)
  <2>1. PICK q \in Protocol \cup {None} : tasks' = Disconnect(Rest, q) /\ conn' = Closed({q})
    <3>1. PlayerByName(n) \in Object
      BY <1>4, Found DEF LoginReplaces, IsLogin
    <3>2. objects[PlayerByName(n)].client \in Protocol \cup {None}
      BY <1>0, <3>1 DEF AnyObject
    <3> QED BY <1>4, <3>2 DEF LoginReplaces
  <2>2. QueueKept
    BY <1>0, <1>1, <2>1, QueueGoesOn
  <2>3. ProtocolsOK'
    BY <1>0, <1>4 DEF LoginReplaces, ProtocolsOK
  <2> QED BY <1>4, <2>2, <2>3, LinksUntouched DEF LoginReplaces, Over
<1> QED BY <1>2, <1>3, <1>4

\* A new player, from memory that holds none.
LEMMA CreateChecked ==
  ASSUME NEW objs \in [Object -> AnyObject], NEW o \in Object, \A x \in Object : Checked(objs[x]),
         NEW n \in Name \cup {None}, NEW p \in Protocol \cup {None},
         NEW made, made = Create(objs, o, n, p), NEW objs2,
         \/ objs2 = made \/ objs2 = Place(made, o) \/ objs2 = Remove(Place(made, o), o)
  PROVE  /\ objs2 \in [Object -> AnyObject]
         /\ \A x \in Object \ {o} : objs2[x] = objs[x]
         /\ objs2[o].client = p /\ objs2[o].name = n
         /\ objs2 = made \/ objs2 = Remove(Place(made, o), o) => ~objs2[o].online
         /\ \A x \in Object : Checked(objs2[x])
<1>1. Becomes(objs, made, o, n, p, 1, FALSE, FALSE, 0)
  BY CreateFacts
<1>2. made \in [Object -> AnyObject]
  BY <1>1 DEF Becomes
<1>3. Becomes(made, Place(made, o), o, made[o].name, made[o].client, made[o].ref + 2, TRUE, TRUE,
              made[o].releases)
  BY <1>2, PlaceFacts
<1>4. Place(made, o) \in [Object -> AnyObject] /\ Place(made, o)[o].online
  BY <1>3 DEF Becomes
<1>5. Becomes(Place(made, o), Remove(Place(made, o), o), o, Place(made, o)[o].name,
              Place(made, o)[o].client, Place(made, o)[o].ref, FALSE,
              Place(made, o)[o].inCheck, Place(made, o)[o].releases + 1)
  BY <1>4, RemoveFacts
<1>6. ~made[o].online /\ ~Remove(Place(made, o), o)[o].online
  BY <1>1, <1>5 DEF Becomes
<1>7. CASE objs2 = made
  BY <1>1, <1>6, <1>7 DEF Becomes, Checked
<1>8. CASE objs2 = Place(made, o)
  <2>1. Place(made, o) # made /\ Place(made, o) # Remove(Place(made, o), o)
    BY <1>4, <1>6
  <2> QED BY <1>1, <1>3, <1>8, <2>1 DEF Becomes, Checked
<1>9. CASE objs2 = Remove(Place(made, o), o)
  BY <1>1, <1>3, <1>5, <1>6, <1>9 DEF Becomes, Checked
<1> QED BY <1>7, <1>8, <1>9

LEMMA LoginNewKeeps ==
  ASSUME SessionAssumption, SessionInv, ~Undefined, NEW p \in Protocol, NEW n \in Name \cup {None},
         NEW outcome \in {"refused", "placed", "kicked"}, LoginNew(p, n, outcome)
  PROVE  SessionInv'
<1>0. /\ TypeOK /\ tasks \in Seq(AnyTask) /\ QueueInv /\ ProtocolsOK /\ InCheck
      /\ objects \in [Object -> AnyObject] /\ player \in [Protocol -> Object \cup {None}]
      /\ raced \subseteq Protocol
  BY DEF SessionInv, TypeOK, ProtocolsOK, AnyObject
<1>1. tasks # <<>> /\ Head(tasks) = Task("login", p, n) /\ phase' = phase
  BY DEF LoginNew, Run
<1>2. Head(tasks).kind # "release"
  BY <1>1 DEF Task
<1>3. QueueKept
  <2>1. CASE outcome = "placed"
    BY <1>0, <1>1, <1>2, <2>1, QueueGoesOn DEF LoginNew
  <2>2. CASE outcome # "placed"
    BY <1>0, <1>1, <1>2, <2>2, QueueGoesOn DEF LoginNew
  <2> QED BY <2>1, <2>2
<1>4. ProtocolsOK'
  <2>1. UNCHANGED <<first, eventConnect, fired, phase>>
    BY DEF LoginNew
  <2>2. acceptPackets' = acceptPackets \/ acceptPackets' = [acceptPackets EXCEPT ![p] = TRUE]
    BY DEF LoginNew
  <2>3. lastName' = lastName \/ lastName' = [lastName EXCEPT ![p] = n]
    BY DEF LoginNew
  <2>4. acceptPackets' \in [Protocol -> BOOLEAN]
    BY <1>0, <2>2 DEF ProtocolsOK
  <2>5. lastName' \in [Protocol -> Name \cup {None}]
    BY <1>0, <2>3 DEF ProtocolsOK
  <2> QED BY <1>0, <2>1, <2>4, <2>5 DEF ProtocolsOK
<1>5. PICK o \in Fresh : LET made == Create(objects, o, n, p) IN
        /\ objects' = CASE outcome = "refused" -> made
                        [] outcome = "placed" -> Place(made, o)
                        [] outcome = "kicked" -> Remove(Place(made, o), o)
        /\ player' = [player EXCEPT ![p] = o]
  BY DEF LoginNew
<1>6. o \in Object
  BY DEF Fresh
<1> DEFINE made == Create(objects, o, n, p)
<1>7. objects' = made \/ objects' = Place(made, o) \/ objects' = Remove(Place(made, o), o)
  BY <1>5
<1> HIDE DEF made
<1>8. \A x \in Object : Checked(objects[x])
  BY <1>0, AllChecked
<1>9. /\ objects' \in [Object -> AnyObject]
      /\ \A x \in Object \ {o} : objects'[x] = objects[x]
      /\ objects'[o].client = p /\ objects'[o].name = n
      /\ \A x \in Object : Checked(objects'[x])
  BY <1>0, <1>6, <1>7, <1>8, CreateChecked DEF made
<1>10. raced \subseteq raced' /\ raced' \subseteq Protocol /\ (p \notin raced' => ~Abandons(p))
  BY <1>0 DEF LoginNew, Raced
<1>11. \A x \in Object \ {o} : objects[x].online /\ objects[x].client = p => p \in raced' \/ player[p] # x
  BY <1>10 DEF Abandons, SessionAssumption
<1>12. \A x \in Object : objects[x].online => objects[x].name # n
  BY Found DEF LoginNew, IsLogin
\* A login waits before its protocol's last release.
<1>13. objects'[o].online => Over \/ Tended(p, tasks', conn')
  <2>1. CASE outcome = "placed"
    <3>1. tasks' = Rest /\ conn' = conn
      BY <2>1 DEF LoginNew
    <3>2. ASSUME ~Over, conn[p] # "open" PROVE Has(Rest, Release(p))
      <4>1. /\ 1 \in DOMAIN tasks /\ tasks[1] = Head(tasks)
            /\ tasks[1].kind = "login" /\ tasks[1].who = p
        BY <1>0, <1>1 DEF Task
      <4>2. PICK j \in DOMAIN tasks : tasks[j] = Release(p)
        BY <1>0, <3>2, <4>1 DEF QueueInv, Followed
      <4>3. Has(tasks, Release(p)) /\ Head(tasks) # Release(p)
        BY <1>2, <4>2, ReleaseIsTask DEF Has
      <4> QED BY <1>0, <1>1, <4>3, RestKeeps DEF Rest
    <3> QED BY <3>1, <3>2 DEF Tended
  <2>2. CASE outcome # "placed"
    <3>1. objects' = made \/ objects' = Remove(Place(made, o), o)
      BY <1>5, <2>2 DEF made
    <3>2. ~objects'[o].online
      BY <1>0, <1>6, <1>7, <1>8, <3>1, CreateChecked DEF made
    <3> QED BY <3>2
  <2> QED BY <2>1, <2>2
<1>14. Links(p, o)
  <2>1. player' = [player EXCEPT ![p] = o]
    BY <1>5
  <2>2. \A x \in Object \ {o} : objects'[x].online =>
           /\ objects[x].online
           /\ objects'[x].client = objects[x].client /\ objects'[x].name = objects[x].name
           /\ objects[x].client = p => p \in raced' \/ player[p] # x
    BY <1>9, <1>11
  <2>3. \A x \in Object \ {o} : objects'[x].online => objects'[x].name # objects'[o].name
    BY <1>9, <1>12
  <2> QED BY <1>9, <1>10, <1>13, <2>1, <2>2, <2>3 DEF Links
<1> QED BY <1>1, <1>3, <1>4, <1>6, <1>14, Linking

Outcomes == {"return", "refused", "banned", "late", "placed", "kicked", "taken"}

\* x without its client, and out of the game.
Left(x) == Remove([objects EXCEPT ![x].client = None], x)

LEMMA LeftFacts ==
  ASSUME objects \in [Object -> AnyObject], \A y \in Object : Checked(objects[y]),
         None \notin Protocol, NEW x \in Object
  PROVE  /\ Left(x) \in [Object -> AnyObject]
         /\ \A y \in Object : /\ Left(x)[y].online => objects[y].online /\ y # x
                              /\ y # x => Left(x)[y].client = objects[y].client
                              /\ Left(x)[y].name = objects[y].name
                              /\ Checked(Left(x)[y])
<1> DEFINE objs == [objects EXCEPT ![x].client = None]
<1>1. Becomes(objects, objs, x, objects[x].name, None, objects[x].ref, objects[x].online,
              objects[x].inCheck, objects[x].releases)
  BY LinkFacts
<1> HIDE DEF objs
<1>2. /\ objs \in [Object -> AnyObject]
      /\ \A y \in Object : /\ Checked(objs[y]) /\ objs[y].name = objects[y].name
                           /\ objs[y].online => objects[y].online
                           /\ y # x => objs[y].client = objects[y].client
  BY <1>1 DEF Becomes, Checked
<1>3. Left(x) = Remove(objs, x)
  BY DEF Left, objs
<1> QED BY <1>2, <1>3, RemoveChecked

\* The three ways of a relog: nothing, a new player, a player who was there.
RelogReturns == tasks' = Rest /\ conn' = conn /\ UNCHANGED <<objects, player, lastName>>

RelogNew(p, x, n, outcome) ==
  /\ x # None /\ (PlayerByName(n) = None \/ x = PlayerByName(n))
  /\ \E fresh \in Fresh :
       LET stay == Create(objects, fresh, n, None)
           linked == Create(Left(x), fresh, n, p)
           isRelog == x = PlayerByName(n)
       IN /\ objects' = CASE outcome = "refused" /\ ~isRelog -> stay
                           [] outcome = "banned" /\ ~isRelog -> Remove(stay, x)
                           [] outcome = "placed" -> Place(linked, fresh)
                           [] outcome = "kicked" -> Remove(Place(linked, fresh), fresh)
                           [] OTHER -> linked
          /\ player' = IF outcome \in {"refused", "banned"} /\ ~isRelog
                       THEN player ELSE [player EXCEPT ![p] = fresh]
  /\ \/ tasks' = Rest /\ conn' = conn
     \/ outcome # "placed" /\ tasks' = Disconnect(Rest, p) /\ conn' = Closed({p})
  /\ lastName' = lastName \/ lastName' = [lastName EXCEPT ![p] = n]

RelogTakes(p, x, n) ==
  /\ x # None /\ PlayerByName(n) # None /\ PlayerByName(n) # x
  /\ LET q == objects[PlayerByName(n)].client IN
     /\ tasks' = IF q = p THEN Rest ELSE Disconnect(Rest, q)
     /\ conn' = IF q = p THEN conn ELSE Closed({q})
  /\ objects' = [Left(x) EXCEPT ![PlayerByName(n)].client = p]
  /\ player' = [player EXCEPT ![p] = PlayerByName(n)]
  /\ lastName' = [lastName EXCEPT ![p] = n]

LEMMA RelogCases ==
  ASSUME NEW o \in Object, NEW n \in Name, NEW outcome \in Outcomes, FastRelog(o, n, outcome),
         NEW p, NEW x, p = objects[o].client, x = player[p]
  PROVE  /\ \/ RelogReturns
            \/ /\ outcome \in {"refused", "banned", "late", "placed", "kicked"}
               /\ objects[x].online /\ RelogNew(p, x, n, outcome)
            \/ objects[x].online /\ RelogTakes(p, x, n)
         /\ raced' = Raced(p, player'[p] # x /\ Late(p, Rest))
         /\ UNCHANGED <<first, eventConnect, fired, acceptPackets, phase, crashed>>
         /\ Run("relog", o, n) /\ p # None
<1> DEFINE isRelog == x = PlayerByName(n)
<1>1. /\ raced' = Raced(p, player'[p] # x /\ Late(p, Rest))
      /\ UNCHANGED <<first, eventConnect, fired, acceptPackets, phase, crashed>>
      /\ Run("relog", o, n) /\ p # None
  BY ZenonT(60) DEF FastRelog
<1>2. CASE x = None \/ ~objects[x].online
  <2>1. RelogReturns
    BY <1>2, ZenonT(60) DEF FastRelog, RelogReturns
  <2> QED BY <1>1, <2>1
<1>3. CASE /\ ~(x = None \/ ~objects[x].online)
           /\ PlayerByName(n) = None \/ isRelog
  <2>1. outcome \in {"refused", "banned", "late", "placed", "kicked"} /\ RelogNew(p, x, n, outcome)
    BY <1>3, ZenonT(60) DEF FastRelog, RelogNew, Left
  <2> QED BY <1>1, <1>3, <2>1
<1>4. CASE /\ ~(x = None \/ ~objects[x].online)
           /\ ~(PlayerByName(n) = None \/ isRelog)
  <2>1. RelogReturns \/ RelogTakes(p, x, n)
    BY <1>4, ZenonT(60) DEF FastRelog, RelogReturns, RelogTakes, Left
  <2> QED BY <1>1, <1>4, <2>1
<1> QED BY <1>2, <1>3, <1>4

LEMMA RelogKeeps ==
  ASSUME SessionAssumption, SessionInv, ~Undefined, NEW o \in Object, NEW n \in Name,
         NEW outcome \in Outcomes, FastRelog(o, n, outcome)
  PROVE  SessionInv'
<1>0. /\ TypeOK /\ tasks \in Seq(AnyTask) /\ QueueInv /\ ProtocolsOK /\ InCheck /\ OneEach
      /\ objects \in [Object -> AnyObject] /\ player \in [Protocol -> Object \cup {None}]
      /\ raced \subseteq Protocol /\ None \notin Protocol \cup Name \cup Object
  BY DEF SessionInv, TypeOK, ProtocolsOK, AnyObject, SessionAssumption
<1>1. PICK p \in Protocol : p = objects[o].client
  <2>1. objects[o].client # None
    BY DEF FastRelog
  <2> QED BY <1>0, <2>1 DEF AnyObject
<1>2. PICK x \in Object \cup {None} : x = player[p]
  BY <1>0
<1>3. /\ \/ RelogReturns
         \/ /\ outcome \in {"refused", "banned", "late", "placed", "kicked"}
            /\ objects[x].online /\ RelogNew(p, x, n, outcome)
         \/ objects[x].online /\ RelogTakes(p, x, n)
      /\ raced' = Raced(p, player'[p] # x /\ Late(p, Rest))
      /\ UNCHANGED <<first, eventConnect, fired, acceptPackets, phase, crashed>>
      /\ Run("relog", o, n)
  BY <1>1, <1>2, RelogCases
<1>4. tasks # <<>> /\ Head(tasks).kind # "release" /\ phase' = phase
  BY <1>3 DEF Run, Task
<1>5. ProtocolsOK'
  <2>1. lastName' = lastName \/ lastName' = [lastName EXCEPT ![p] = n]
    BY <1>3 DEF RelogReturns, RelogNew, RelogTakes
  <2>2. lastName' \in [Protocol -> Name \cup {None}]
    BY <1>0, <2>1 DEF ProtocolsOK
  <2> QED BY <1>0, <1>3, <2>2 DEF ProtocolsOK
<1>6. \A y \in Object : Checked(objects[y])
  BY <1>0, AllChecked
<1>7. /\ raced \subseteq raced' /\ raced' \subseteq Protocol
      /\ p \notin raced' /\ player'[p] # x => ~Late(p, Rest)
  BY <1>0, <1>3 DEF Raced
<1>8. player' = player => raced' = raced
  BY <1>2, <1>3 DEF Raced
<1>9. Rest \in Seq(AnyTask)
  BY <1>0, <1>4, RestKeeps DEF Rest
<1>10. CASE RelogReturns
  <2>1. QueueKept
    BY <1>0, <1>4, <1>10, QueueGoesOn DEF RelogReturns
  <2> QED BY <1>4, <1>5, <1>8, <1>10, <2>1, LinksUntouched DEF RelogReturns, Over
<1>11. CASE /\ outcome \in {"refused", "banned", "late", "placed", "kicked"}
            /\ objects[x].online /\ RelogNew(p, x, n, outcome)
  <2>1. QueueKept
    BY <1>0, <1>4, <1>11, QueueGoesOn DEF RelogNew
  <2>2. x \in Object
    BY <1>11 DEF RelogNew
  <2>3. PICK fresh \in Fresh :
       LET stay == Create(objects, fresh, n, None)
           linked == Create(Left(x), fresh, n, p)
           isRelog == x = PlayerByName(n)
       IN /\ objects' = CASE outcome = "refused" /\ ~isRelog -> stay
                           [] outcome = "banned" /\ ~isRelog -> Remove(stay, x)
                           [] outcome = "placed" -> Place(linked, fresh)
                           [] outcome = "kicked" -> Remove(Place(linked, fresh), fresh)
                           [] OTHER -> linked
          /\ player' = IF outcome \in {"refused", "banned"} /\ ~isRelog
                       THEN player ELSE [player EXCEPT ![p] = fresh]
    BY <1>11 DEF RelogNew
  <2>4. fresh \in Object /\ fresh # x
    <3>1. fresh \in Object /\ objects[fresh] = Free
      BY <2>3 DEF Fresh
    <3>2. ~objects[fresh].online
      BY <3>1 DEF Free
    <3> QED BY <1>11, <3>1, <3>2
  <2> DEFINE stay == Create(objects, fresh, n, None)
             linked == Create(Left(x), fresh, n, p)
             isRelog == x = PlayerByName(n)
  <2>5. CASE outcome \in {"refused", "banned"} /\ ~isRelog
    <3>1. (objects' = stay \/ objects' = Remove(stay, x)) /\ player' = player
      BY <2>3, <2>5
    <3>2. Becomes(objects, stay, fresh, n, None, 1, FALSE, FALSE, 0)
      BY <1>0, <2>4, CreateFacts
    <3> HIDE DEF stay
    <3>3. /\ stay \in [Object -> AnyObject]
          /\ \A y \in Object : /\ Checked(stay[y])
                               /\ stay[y].online => objects[y].online /\ stay[y] = objects[y]
      BY <1>6, <3>2 DEF Becomes, Checked
    <3>4. /\ objects' \in [Object -> AnyObject]
          /\ \A y \in Object : /\ objects'[y].online => stay[y].online
                               /\ objects'[y].client = stay[y].client
                               /\ objects'[y].name = stay[y].name
                               /\ Checked(objects'[y])
      <4>1. CASE objects' = stay
        BY <3>3, <4>1
      <4>2. CASE objects' = Remove(stay, x)
        BY <2>2, <3>3, <4>2, RemoveChecked
      <4> QED BY <3>1, <4>1, <4>2
    <3> QED BY <1>4, <1>5, <1>8, <2>1, <3>1, <3>3, <3>4, PlayersShrink DEF Over
  <2>6. CASE ~(outcome \in {"refused", "banned"} /\ ~isRelog)
    <3>1. /\ player' = [player EXCEPT ![p] = fresh]
          /\ objects' = linked \/ objects' = Place(linked, fresh)
               \/ objects' = Remove(Place(linked, fresh), fresh)
          /\ outcome # "placed" => objects' = linked \/ objects' = Remove(Place(linked, fresh), fresh)
      BY <1>11, <2>3, <2>6
    <3>2. /\ Left(x) \in [Object -> AnyObject]
          /\ \A y \in Object : /\ Left(x)[y].online => objects[y].online /\ y # x
                               /\ y # x => Left(x)[y].client = objects[y].client
                               /\ Left(x)[y].name = objects[y].name
                               /\ Checked(Left(x)[y])
      BY <1>0, <1>6, <2>2, LeftFacts
    <3> HIDE DEF linked
    <3>3. /\ objects' \in [Object -> AnyObject]
          /\ \A y \in Object \ {fresh} : objects'[y] = Left(x)[y]
          /\ objects'[fresh].client = p /\ objects'[fresh].name = n
          /\ outcome # "placed" => ~objects'[fresh].online
          /\ \A y \in Object : Checked(objects'[y])
      BY <2>4, <3>1, <3>2, CreateChecked DEF linked
    <3>4. \A y \in Object \ {fresh} : objects'[y].online =>
            /\ objects[y].online
            /\ objects'[y].client = objects[y].client /\ objects'[y].name = objects[y].name
            /\ objects[y].client = p => p \in raced' \/ player[p] # y
      BY <1>2, <3>2, <3>3
    <3>5. \A y \in Object \ {fresh} : objects'[y].online => objects'[y].name # objects'[fresh].name
      <4> SUFFICES ASSUME NEW y \in Object \ {fresh}, objects'[y].online PROVE objects[y].name # n
        BY <3>3, <3>4
      <4>1. objects[y].online /\ y # x
        BY <3>2, <3>3
      <4>2. CASE PlayerByName(n) = None
        BY <4>1, <4>2, Found
      <4>3. CASE x = PlayerByName(n)
        <5>1. objects[x].online /\ objects[x].name = n
          BY <1>0, <2>2, <4>3, Found
        <5> QED BY <1>0, <2>2, <4>1, <5>1 DEF OneEach
      <4> QED BY <1>11, <4>2, <4>3 DEF RelogNew
    <3>6. objects'[fresh].online => p \in raced' \/ Over \/ Tended(p, tasks', conn')
      <4>1. CASE outcome = "placed"
        <5>1. player'[p] # x
          BY <1>0, <2>4, <3>1
        <5>2. tasks' = Rest /\ conn' = conn
          BY <1>11, <4>1 DEF RelogNew
        <5>3. p \notin raced' => Tended(p, Rest, conn)
          BY <1>7, <1>9, <5>1, NotLate
        <5> QED BY <5>2, <5>3 DEF Tended
      <4> QED BY <3>3, <4>1
    <3>7. Links(p, fresh)
      BY <1>7, <3>1, <3>3, <3>4, <3>5, <3>6 DEF Links
    <3> QED BY <1>4, <1>5, <2>1, <2>4, <3>7, Linking
  <2> QED BY <2>5, <2>6
<1>12. CASE objects[x].online /\ RelogTakes(p, x, n)
  <2>1. PICK other \in Object : /\ other = PlayerByName(n) /\ other # x
                                /\ objects[other].online /\ objects[other].name = n
    BY <1>12, Found DEF RelogTakes
  <2>2. x \in Object
    BY <1>12 DEF RelogTakes
  <2>3. /\ \/ tasks' = Rest /\ conn' = conn
           \/ /\ objects[other].client # p
              /\ tasks' = Disconnect(Rest, objects[other].client)
              /\ conn' = Closed({objects[other].client})
        /\ objects' = [Left(x) EXCEPT ![other].client = p]
        /\ player' = [player EXCEPT ![p] = other]
    BY <1>12, <2>1 DEF RelogTakes
  <2>4. objects[other].client \in Protocol \cup {None}
    BY <1>0 DEF AnyObject
  <2>5. QueueKept
    BY <1>0, <1>4, <2>3, <2>4, QueueGoesOn
  <2>6. /\ Left(x) \in [Object -> AnyObject]
        /\ \A y \in Object : /\ Left(x)[y].online => objects[y].online /\ y # x
                             /\ y # x => Left(x)[y].client = objects[y].client
                             /\ Left(x)[y].name = objects[y].name
                             /\ Checked(Left(x)[y])
    BY <1>0, <1>6, <2>2, LeftFacts
  <2>7. Becomes(Left(x), objects', other, Left(x)[other].name, p, Left(x)[other].ref,
                Left(x)[other].online, Left(x)[other].inCheck, Left(x)[other].releases)
    BY <2>3, <2>6, LinkFacts
  <2>8. /\ objects' \in [Object -> AnyObject]
        /\ \A y \in Object \ {other} : objects'[y] = Left(x)[y]
        /\ objects'[other].client = p /\ objects'[other].name = n
        /\ \A y \in Object : Checked(objects'[y])
    BY <2>1, <2>6, <2>7 DEF Becomes, Checked
  <2>9. \A y \in Object \ {other} : objects'[y].online =>
          /\ objects[y].online
          /\ objects'[y].client = objects[y].client /\ objects'[y].name = objects[y].name
          /\ objects[y].client = p => p \in raced' \/ player[p] # y
    BY <1>2, <2>6, <2>8
  <2>10. \A y \in Object \ {other} : objects'[y].online => objects'[y].name # objects'[other].name
    BY <1>0, <2>1, <2>8, <2>9 DEF OneEach
  <2>11. p \in raced' \/ Over \/ Tended(p, tasks', conn')
    <3>1. player'[p] # x
      BY <1>0, <2>1, <2>3
    <3>2. p \notin raced' => Tended(p, Rest, conn)
      BY <1>7, <1>9, <3>1, NotLate
    <3>3. CASE tasks' = Rest /\ conn' = conn
      BY <3>2, <3>3 DEF Tended
    <3>4. CASE ~(tasks' = Rest /\ conn' = conn)
      <4>1. Quiet(Rest, conn)
        BY <1>0, <1>4, RestKeeps DEF Rest, QueueInv
      <4>2. PICK q \in Protocol \cup {None} : tasks' = Disconnect(Rest, q) /\ conn' = Closed({q})
        BY <2>3, <2>4, <3>4
      <4>3. phase # "stopped" /\ Tended(p, Rest, conn) =>
              Tended(p, Disconnect(Rest, q), Closed({q}))
        BY <1>0, <1>9, <4>1, CloseKeeps
      <4> QED BY <3>2, <4>2, <4>3 DEF Over
    <3> QED BY <3>3, <3>4
  <2>12. Links(p, other)
    BY <1>7, <2>3, <2>8, <2>9, <2>10, <2>11 DEF Links
  <2> QED BY <1>4, <1>5, <2>5, <2>12, Linking
<1> QED BY <1>3, <1>10, <1>11, <1>12

(***************************************************************************)
(* The invariant                                                           *)
(***************************************************************************)
LEMMA SessionInitially == ASSUME SessionAssumption, Init PROVE SessionInv
<1>1. Free \in AnyObject /\ ~Free.online /\ Free.releases = 0
  BY DEF Free, AnyObject
<1>2. objects \in [Object -> AnyObject] /\ \A o \in Object : objects[o] = Free
  BY <1>1 DEF Init
<1>3. TypeOK
  <2>1. /\ player \in [Protocol -> Object \cup {None}]
        /\ conn \in [Protocol -> {"open", "closed", "gone"}]
        /\ {first, fired, acceptPackets} \subseteq [Protocol -> BOOLEAN]
        /\ {eventConnect, lastName} \subseteq [Protocol -> Name \cup {None}]
    BY DEF Init
  <2>2. /\ phase \in {"running", "kicking", "stopped", "ended"} /\ raced \subseteq Protocol
        /\ DOMAIN tasks = {}
    BY DEF Init
  <2> QED BY <1>2, <2>1, <2>2 DEF TypeOK, AnyObject
<1>4. tasks \in Seq(AnyTask) /\ QueueInv
  BY DEF Init, QueueInv, Quiet, Followed, Has
<1>5. OneEach /\ LinksTended
  BY <1>1, <1>2 DEF OneEach, LinksTended
<1>6. InCheck
  BY <1>1, <1>2 DEF InCheck
<1> QED BY <1>3, <1>4, <1>5, <1>6 DEF SessionInv

\* Every step keeps the invariant.
LEMMA SessionStep ==
  ASSUME SessionAssumption, SessionInv, [Next]_vars
  PROVE  SessionInv'
<1>1. CASE UNCHANGED vars
  <2> USE <1>1 DEF vars, net, proto
  <2>1. TypeOK' /\ OneEach' /\ (tasks \in Seq(AnyTask))'
    BY DEF SessionInv, TypeOK, OneEach
  <2>2. QueueInv' /\ LinksTended'
    BY DEF SessionInv, QueueInv, Quiet, Followed, Over, LinksTended, Tended
  <2>3. InCheck'
    BY DEF SessionInv, InCheck, Dangling, References, Holders
  <2> QED BY <2>1, <2>2, <2>3 DEF SessionInv
<1>2. CASE Next
  <2>1. ~Undefined
    BY <1>2 DEF Next
  <2>2. CASE NetworkStep
    BY <2>2, NetworkKeeps
  <2>3. CASE RunTask
    <3>1. ASSUME NEW p \in Protocol, RunRelease(p) PROVE SessionInv'
      BY <2>1, <3>1, ReleaseKeeps
    <3>2. ASSUME NEW p \in Protocol, NEW allowed \in BOOLEAN, RunLogout(p, allowed)
          PROVE  SessionInv'
      BY <2>1, <3>2, GameKeeps
    <3>3. ASSUME NEW p \in Protocol, NEW n \in Name \cup {None},
                 NEW outcome \in {"refused", "placed", "kicked"}, LoginNew(p, n, outcome)
          PROVE  SessionInv'
      BY <2>1, <3>3, LoginNewKeeps
    <3>4. ASSUME NEW p \in Protocol, NEW n \in Name \cup {None},
                 RunConnect(p, n) \/ LoginTwice(p, n) \/ LoginReplaces(p, n) \/ LoginConnects(p, n)
          PROVE  SessionInv'
      BY <2>1, <3>4, LoginKeeps
    <3>5. ASSUME NEW n \in Name, NEW outcome \in {"none", "revived", "losses", "corpse"},
                 RunDeath(n, outcome)
          PROVE  SessionInv'
      BY <2>1, <3>5, GameKeeps
    <3>6. ASSUME NEW n \in Name, NEW o \in Object, FastRelogCrashes(o, n) PROVE SessionInv'
      BY <3>6, PhaseKeeps
    <3>7. ASSUME NEW n \in Name, NEW o \in Object, NEW outcome \in Outcomes,
                 FastRelog(o, n, outcome)
          PROVE  SessionInv'
      BY <2>1, <3>7, RelogKeeps
    <3>8. CASE StartShutdown \/ Halt
      BY <2>1, <3>8, PhaseKeeps, GameKeeps
    <3> QED BY <2>3, <3>1, <3>2, <3>3, <3>4, <3>5, <3>6, <3>7, <3>8 DEF RunTask, Outcomes
  <2>4. CASE ShutdownStep \/ Cleanup \/ RequestShutdown
    BY <2>1, <2>4, PhaseKeeps, GameKeeps DEF ShutdownStep
  <2>5. ASSUME NEW o \in Object,
               \/ KickOne(o) \/ Hit(o) \/ CheckCreatures(o)
               \/ \E n \in Name : RequestFastRelog(o, n)
        PROVE  SessionInv'
    BY <2>1, <2>5, PhaseKeeps, GameKeeps
  <2> QED BY <1>2, <2>2, <2>3, <2>4, <2>5 DEF Next
<1> QED BY <1>1, <1>2

\* The inductive invariant of the sessions: besides the properties below it says that
\* a release is queued only for a connection that is closed, that every login of a
\* closed protocol has a release behind it, and that whoever is in the game, or is
\* to be released, is still in the list of checkCreatures.
THEOREM SessionInvariance == Spec => []SessionInv
<1>1. Init => SessionInv
  BY SessionInitially, SessionAssumption
<1>2. SessionInv /\ [Next]_vars => SessionInv'
  BY SessionStep, SessionAssumption
<1> QED BY <1>1, <1>2, PTL DEF Spec

\* However many clients, characters and objects there are: a character is in the
\* game once (the lookups by name in login and fastRelog).
THEOREM OnePlayerForEach == Spec => []OnePlayerEach
<1>1. SessionInv => OnePlayerEach
  <2> SUFFICES ASSUME SessionInv, NEW n \in Name PROVE Cardinality(Online(n)) <= 1
    BY DEF OnePlayerEach, UniqueOnline, SessionInv
  <2>1. CASE Online(n) = {}
    BY <2>1, FS_EmptySet
  <2>2. CASE Online(n) # {}
    <3>1. PICK o \in Online(n) : TRUE
      BY <2>2
    <3>2. n # None /\ OneEach
      BY SessionAssumption DEF SessionAssumption, SessionInv
    <3>3. \A x \in Online(n) : x = o
      BY <3>1, <3>2 DEF Online, OneEach
    <3>4. Online(n) = {o}
      BY <3>1, <3>3
    <3>5. Cardinality({o}) = 1
      BY FS_Singleton
    <3> QED BY <3>4, <3>5
  <2> QED BY <2>1, <2>2
<1> QED BY <1>1, SessionInvariance, PTL

\* A player in the game whose client has lost its connection, and will hear of no
\* release any more, is left only by the races that raced records.
THEOREM GhostsAreRaced == Spec => []OnlyRacedIsGhost
<1>1. SessionInv => OnlyRacedIsGhost
  <2> SUFFICES ASSUME SessionInv, NEW o \in Object, Ghost(o)
               PROVE  objects[o].client \in raced \/ Over
    BY DEF OnlyRacedIsGhost, Over
  <2>1. objects[o].client \in Protocol /\ tasks \in Seq(AnyTask)
    BY DEF SessionInv, TypeOK, Ghost
  <2>2. ~Tended(objects[o].client, tasks, conn)
    BY <2>1, QueuedZero DEF Ghost, Tended
  <2> QED BY <2>1, <2>2 DEF SessionInv, LinksTended, Ghost
<1> QED BY <1>1, SessionInvariance, PTL

(***************************************************************************)
(* Reference counts and links, step by step                                *)
(***************************************************************************)
One(b) == IF b THEN 1 ELSE 0

\* Who counts as a reference, before and after a step.
LEMMA ReferencesOf ==
  ASSUME SessionAssumption, NEW o \in Object
  PROVE  /\ References(o) = Count(player, o) + objects[o].releases
              + One(objects[o].online) + One(objects[o].inCheck)
         /\ References(o)' = Count(player', o) + objects'[o].releases
              + One(objects'[o].online) + One(objects'[o].inCheck)
         /\ Count(player, o) \in Nat /\ Count(player', o) \in Nat
BY CountIsNat DEF References, Holders, Count, One

\* What a step may do to a player: its counter follows its references, it stays
\* linked with its client, and does not change hands.
Exact(o) ==
  /\ objects[o].ref - References(o) = (objects[o].ref - References(o))'
  /\ \A p \in Protocol : Linked(o, p) => Linked(o, p)'
  /\ objects[o].client # None => objects'[o].client \in {objects[o].client, None}

\* Nobody touches it.
LEMMA UntouchedExact ==
  ASSUME SessionAssumption, NEW o \in Object, objects'[o] = objects[o],
         \A p \in Protocol : player[p] = o <=> player'[p] = o
  PROVE  Exact(o)
<1>1. Count(player', o) = Count(player, o)
  BY CountSame
<1>2. References(o)' = References(o)
  BY <1>1, ReferencesOf
<1> QED BY <1>2 DEF Exact, Linked

\* removeCreature: the game's reference waits for the next cleanup.
LEMMA RemovedExact ==
  ASSUME SessionAssumption, objects \in [Object -> AnyObject], player' = player,
         NEW o \in Object, NEW x \in Object, objects' = Remove(objects, x)
  PROVE  Exact(o)
<1>1. CASE ~objects[x].online \/ o # x
  <2>1. objects'[o] = objects[o]
    <3>1. CASE ~objects[x].online
      BY <3>1, RemoveFacts
    <3>2. CASE objects[x].online
      <4>1. Becomes(objects, objects', x, objects[x].name, objects[x].client,
                    objects[x].ref, FALSE, objects[x].inCheck, objects[x].releases + 1)
        BY <3>2, RemoveFacts
      <4> QED BY <1>1, <3>2, <4>1 DEF Becomes
    <3> QED BY <3>1, <3>2
  <2> QED BY <2>1, UntouchedExact
<1>2. CASE objects[x].online /\ o = x
  <2>1. Becomes(objects, objects', x, objects[x].name, objects[x].client,
                objects[x].ref, FALSE, objects[x].inCheck, objects[x].releases + 1)
    BY <1>2, RemoveFacts
  <2>2. /\ objects'[o].ref = objects[o].ref /\ objects'[o].releases = objects[o].releases + 1
        /\ ~objects'[o].online /\ objects'[o].inCheck = objects[o].inCheck
        /\ objects'[o].client = objects[o].client
    BY <1>2, <2>1 DEF Becomes
  <2>3. /\ One(objects[o].online) = 1 /\ One(objects'[o].online) = 0
        /\ One(objects'[o].inCheck) = One(objects[o].inCheck)
        /\ One(objects[o].inCheck) \in Nat /\ objects[o].releases \in Nat
    BY <1>2, <2>2 DEF One, AnyObject
  <2>4. References(o)' = References(o)
    BY <2>2, <2>3, ReferencesOf
  <2> QED BY <2>2, <2>4 DEF Exact, Linked
<1> QED BY <1>1, <1>2

\* cleanup: what is deleted while somebody refers to it dangles.
LEMMA CleanedExact ==
  ASSUME SessionAssumption, objects \in [Object -> AnyObject], player' = player,
         player \in [Protocol -> Object \cup {None}],
         NEW objs \in [Object -> AnyObject], objects' = Cleaned(objs), NEW o \in Object,
         objs[o].ref = objects[o].ref, objs[o].online = objects[o].online,
         objs[o].client = objects[o].client,
         \/ objs[o].inCheck = objects[o].inCheck /\ objs[o].releases = objects[o].releases
         \/ /\ objects[o].inCheck /\ ~objs[o].inCheck
            /\ objs[o].releases = objects[o].releases + 1,
         ~Dangling(o)'
  PROVE  Exact(o)
<1>1. /\ objects'[o].online = objects[o].online /\ objects'[o].inCheck = objs[o].inCheck
      /\ objects[o].ref \in Nat /\ objs[o].releases \in Nat /\ objects[o].releases \in Nat
      /\ objects' \in [Object -> AnyObject]
  BY CleanedFacts, CleanedType DEF AnyObject
<1>2. /\ One(objs[o].inCheck) + objs[o].releases = One(objects[o].inCheck) + objects[o].releases
      /\ One(objects'[o].online) = One(objects[o].online)
      /\ One(objects'[o].inCheck) = One(objs[o].inCheck)
      /\ One(objects[o].inCheck) \in Nat /\ One(objs[o].inCheck) \in Nat
      /\ One(objects[o].online) \in Nat
  BY <1>1 DEF One
<1>3. CASE objs[o].ref > objs[o].releases
  <2>1. /\ objects'[o].ref = objects[o].ref - objs[o].releases
        /\ objects'[o].client = objects[o].client /\ objects'[o].releases = 0
    BY <1>3, CleanedFacts
  <2>2. References(o)' + objs[o].releases = References(o)
    <3> DEFINE c == Count(player, o)
    <3>1. /\ References(o) = c + objects[o].releases
               + One(objects[o].online) + One(objects[o].inCheck)
          /\ References(o)' = c + objects'[o].releases
               + One(objects'[o].online) + One(objects'[o].inCheck)
          /\ c \in Nat
      BY ReferencesOf
    <3> HIDE DEF c
    <3> QED BY <1>1, <1>2, <2>1, <3>1
  <2>3. References(o) \in Nat /\ References(o)' \in Nat
    BY <1>1, <1>2, <2>1, ReferencesOf
  <2>4. (objects[o].ref - References(o))' = objects[o].ref - References(o)
    BY <1>1, <2>1, <2>2, <2>3
  <2> QED BY <1>1, <2>1, <2>4 DEF Exact, Linked
<1>4. CASE ~(objs[o].ref > objs[o].releases)
  <2>1. /\ objects'[o].ref = 0 /\ objects'[o].client = None
        /\ objects'[o].releases = objs[o].releases - objects[o].ref
    BY <1>4, CleanedFacts
  <2>2. /\ ~objects'[o].online /\ ~objects'[o].inCheck /\ ~(objects'[o].releases > 0)
        /\ \A p \in Protocol : player[p] # o
    BY <1>1, <2>1, Dangles
  <2>3. Count(player, o) = 0
    BY <2>2, CountIsNat
  <2>4. /\ One(objects'[o].online) = 0 /\ One(objects'[o].inCheck) = 0
        /\ objects'[o].releases = 0 /\ objs[o].releases = objects[o].ref
    BY <1>1, <1>4, <2>1, <2>2 DEF One
  <2>5. References(o)' = 0
    BY <2>3, <2>4, ReferencesOf
  <2>6. References(o) = objects[o].ref
    BY <1>1, <1>2, <2>3, <2>4, ReferencesOf
  <2> QED BY <1>1, <2>1, <2>2, <2>5, <2>6, SessionAssumption DEF Exact, Linked, SessionAssumption
<1> QED BY <1>3, <1>4

LEMMA ReleaseExact ==
  ASSUME SessionAssumption, SessionInv, ~Undefined, NEW p \in Protocol, RunRelease(p),
         SessionInv', NEW o \in Object, ~Dangling(o)'
  PROVE  Exact(o)
<1>0. /\ objects \in [Object -> AnyObject] /\ player \in [Protocol -> Object \cup {None}]
      /\ objects' \in [Object -> AnyObject] /\ None \notin Protocol \cup Object
      /\ Checked(objects[o])
  BY AllChecked, SessionAssumption DEF SessionInv, TypeOK, AnyObject, SessionAssumption
<1>1. CASE ~(player[p] # None /\ objects[player[p]].client = p)
  BY <1>1, UntouchedExact DEF RunRelease
<1>2. CASE player[p] # None /\ objects[player[p]].client = p /\ player[p] # o
  <2>1. PICK x \in Object : x = player[p] /\ objects' = Unlinked(x) /\ player' = [player EXCEPT ![p] = None]
    BY <1>0, <1>2 DEF RunRelease
  <2>2. objects'[o] = objects[o]
    BY <1>0, <1>2, <2>1, UnlinkedFacts
  <2>3. \A r \in Protocol : player[r] = o <=> player'[r] = o
    BY <1>0, <1>2, <2>1
  <2> QED BY <2>2, <2>3, UntouchedExact
<1>3. CASE player[p] = o /\ objects[o].client = p
  <2>1. objects' = Unlinked(o) /\ player' = [player EXCEPT ![p] = None]
    BY <1>0, <1>3 DEF RunRelease
  <2>2. /\ objects'[o].client = None /\ objects'[o].online = objects[o].online
        /\ objects'[o].inCheck = objects[o].inCheck
    BY <1>0, <2>1, UnlinkedFacts
  <2>3. player'[p] = None /\ \A r \in Protocol \ {p} : player'[r] = player[r]
    BY <1>0, <2>1
  <2>4. Count(player, o) = Count(player', o) + 1
    <3>1. player'[p] # o /\ player[p] = o /\ \A r \in Protocol \ {p} : player'[r] = player[r]
      BY <1>0, <1>3, <2>3
    <3> QED BY <3>1, CountShrinks
  <2>5. /\ One(objects'[o].online) = One(objects[o].online)
        /\ One(objects'[o].inCheck) = One(objects[o].inCheck)
        /\ One(objects[o].online) \in Nat /\ One(objects[o].inCheck) \in Nat
        /\ objects[o].ref \in Nat /\ objects[o].releases \in Nat
    BY <1>0, <2>2 DEF One, AnyObject
  <2>6. (objects[o].ref - References(o))' = objects[o].ref - References(o)
    <3> DEFINE c == Count(player', o)
    <3>1. /\ References(o) = c + 1 + objects[o].releases
               + One(objects[o].online) + One(objects[o].inCheck)
          /\ References(o)' = c + objects'[o].releases
               + One(objects'[o].online) + One(objects'[o].inCheck)
          /\ c \in Nat
      BY <2>4, ReferencesOf
    <3>2. CASE objects[o].ref > 1
      <4>1. objects'[o].ref = objects[o].ref - 1 /\ objects'[o].releases = objects[o].releases
        BY <1>0, <2>1, <3>2, UnlinkedFacts
      <4> HIDE DEF c
      <4> QED BY <2>5, <3>1, <4>1
    <3>3. CASE ~(objects[o].ref > 1)
      <4>1. objects'[o].ref = 0 /\ objects'[o].releases = 1 - objects[o].ref
        BY <1>0, <2>1, <3>3, UnlinkedFacts
      <4>2. /\ ~objects'[o].online /\ ~objects'[o].inCheck /\ ~(objects'[o].releases > 0)
            /\ \A r \in Protocol : player'[r] # o
        BY <1>0, <4>1, Dangles
      <4>3. c = 0
        BY <4>2, CountIsNat
      <4>4. One(objects'[o].online) = 0 /\ One(objects'[o].inCheck) = 0
        BY <4>2 DEF One
      <4>5. ~(objects[o].releases > 0)
        BY <1>0, <2>2, <4>2 DEF Checked
      <4>6. objects[o].ref = 1 /\ objects'[o].releases = 0 /\ objects[o].releases = 0
        BY <2>5, <3>3, <4>1, <4>2, <4>5
      <4> HIDE DEF c
      <4> QED BY <2>5, <3>1, <4>1, <4>3, <4>4, <4>6
    <3> QED BY <3>2, <3>3
  <2>7. ASSUME NEW r \in Protocol, Linked(o, r) PROVE Linked(o, r)'
    BY <1>0, <1>3, <2>2, <2>3, <2>7 DEF Linked
  <2> QED BY <2>2, <2>6, <2>7 DEF Exact
<1> QED BY <1>0, <1>1, <1>2, <1>3

LEMMA ConnectExact ==
  ASSUME SessionAssumption, SessionInv, NEW p \in Protocol, NEW n \in Name \cup {None},
         Connect(p, n), player[p] = None, NEW o \in Object
  PROVE  Exact(o)
<1>0. /\ objects \in [Object -> AnyObject] /\ player \in [Protocol -> Object \cup {None}]
      /\ None \notin Protocol \cup Object
  BY SessionAssumption DEF SessionInv, TypeOK, AnyObject, SessionAssumption
<1>1. CASE UNCHANGED <<objects, player>>
  BY <1>1, UntouchedExact
<1>2. CASE ~UNCHANGED <<objects, player>>
  <2>1. PICK x \in Object : /\ objects[x].client = None
                            /\ objects' = [Ref(objects, x, 1) EXCEPT ![x].client = p]
                            /\ player' = [player EXCEPT ![p] = x]
    BY <1>2, Found DEF Connect, MayTakeOver
  <2>2. Becomes(objects, objects', x, objects[x].name, p, objects[x].ref + 1,
                objects[x].online, objects[x].inCheck, objects[x].releases)
    BY <1>0, <2>1, ClientFacts
  <2>3. player'[p] = x /\ \A r \in Protocol \ {p} : player'[r] = player[r]
    BY <1>0, <2>1
  <2>4. CASE o # x
    <3>1. objects'[o] = objects[o]
      BY <2>2, <2>4 DEF Becomes
    <3>2. \A r \in Protocol : player[r] = o <=> player'[r] = o
      BY <1>0, <2>3, <2>4
    <3> QED BY <3>1, <3>2, UntouchedExact
  <2>5. CASE o = x
    <3>1. Count(player', o) = Count(player, o) + 1
      <4>1. player[p] # o /\ player'[p] = o /\ \A r \in Protocol \ {p} : player'[r] = player[r]
        BY <1>0, <2>3, <2>5
      <4> QED BY <4>1, CountGrows
    <3>2. /\ objects'[o].ref = objects[o].ref + 1 /\ objects'[o].client = p
          /\ objects'[o].releases = objects[o].releases
          /\ objects'[o].online = objects[o].online /\ objects'[o].inCheck = objects[o].inCheck
      BY <2>2, <2>5 DEF Becomes
    <3>3. /\ One(objects[o].online) \in Nat /\ One(objects[o].inCheck) \in Nat
          /\ objects[o].ref \in Nat /\ objects[o].releases \in Nat
      BY <1>0 DEF One, AnyObject
    <3>4. (objects[o].ref - References(o))' = objects[o].ref - References(o)
      <4> DEFINE c == Count(player, o)
      <4>1. /\ References(o) = c + objects[o].releases
                 + One(objects[o].online) + One(objects[o].inCheck)
            /\ References(o)' = c + 1 + objects'[o].releases
                 + One(objects'[o].online) + One(objects'[o].inCheck)
            /\ c \in Nat
        BY <3>1, ReferencesOf
      <4> HIDE DEF c
      <4> QED BY <3>2, <3>3, <4>1
    <3>5. ASSUME NEW r \in Protocol, Linked(o, r) PROVE Linked(o, r)'
      BY <1>0, <2>1, <2>3, <2>5, <3>2, <3>5 DEF Linked
    <3> QED BY <2>1, <2>5, <3>4, <3>5 DEF Exact
  <2> QED BY <2>4, <2>5
<1> QED BY <1>1, <1>2

\* A new player's counter: what creates it and what places it each take their own.
LEMMA CreateCounted ==
  ASSUME NEW objs \in [Object -> AnyObject], NEW o \in Object,
         NEW n \in Name \cup {None}, NEW p \in Protocol \cup {None},
         NEW made, made = Create(objs, o, n, p), NEW objs2,
         \/ objs2 = made \/ objs2 = Place(made, o) \/ objs2 = Remove(Place(made, o), o)
  PROVE  /\ objs2[o].ref = 1 + objs2[o].releases + One(objs2[o].online) + One(objs2[o].inCheck)
         /\ objs2[o].ref \in Nat /\ objs2[o].releases \in Nat
<1>1. Becomes(objs, made, o, n, p, 1, FALSE, FALSE, 0)
  BY CreateFacts
<1>2. made \in [Object -> AnyObject]
  BY <1>1 DEF Becomes
<1>3. Becomes(made, Place(made, o), o, made[o].name, made[o].client, made[o].ref + 2, TRUE, TRUE,
              made[o].releases)
  BY <1>2, PlaceFacts
<1>4. Place(made, o) \in [Object -> AnyObject] /\ Place(made, o)[o].online
  BY <1>3 DEF Becomes
<1>5. Becomes(Place(made, o), Remove(Place(made, o), o), o, Place(made, o)[o].name,
              Place(made, o)[o].client, Place(made, o)[o].ref, FALSE,
              Place(made, o)[o].inCheck, Place(made, o)[o].releases + 1)
  BY <1>4, RemoveFacts
<1>6. CASE objs2 = made
  <2>1. /\ objs2[o].ref = 1 /\ objs2[o].releases = 0
        /\ One(objs2[o].online) = 0 /\ One(objs2[o].inCheck) = 0
    BY <1>1, <1>6 DEF Becomes, One
  <2> QED BY <2>1
<1>7. CASE objs2 = Place(made, o)
  <2>1. /\ objs2[o].ref = 3 /\ objs2[o].releases = 0
        /\ One(objs2[o].online) = 1 /\ One(objs2[o].inCheck) = 1
    BY <1>1, <1>3, <1>7 DEF Becomes, One
  <2> QED BY <2>1
<1>8. CASE objs2 = Remove(Place(made, o), o)
  <2>1. /\ objs2[o].ref = 3 /\ objs2[o].releases = 1
        /\ One(objs2[o].online) = 0 /\ One(objs2[o].inCheck) = 1
    BY <1>1, <1>3, <1>5, <1>8 DEF Becomes, One
  <2> QED BY <2>1
<1> QED BY <1>6, <1>7, <1>8

LEMMA LoginNewExact ==
  ASSUME SessionAssumption, SessionInv, ~Undefined, NEW p \in Protocol, NEW n \in Name \cup {None},
         NEW outcome \in {"refused", "placed", "kicked"}, LoginNew(p, n, outcome),
         player[p] = None, NEW o \in Object
  PROVE  Exact(o)
<1>0. /\ objects \in [Object -> AnyObject] /\ player \in [Protocol -> Object \cup {None}]
      /\ None \notin Protocol \cup Object /\ \A x \in Object : Checked(objects[x])
  BY AllChecked, SessionAssumption DEF SessionInv, TypeOK, AnyObject, SessionAssumption
<1>1. PICK x \in Fresh : LET made == Create(objects, x, n, p) IN
        /\ objects' = CASE outcome = "refused" -> made
                        [] outcome = "placed" -> Place(made, x)
                        [] outcome = "kicked" -> Remove(Place(made, x), x)
        /\ player' = [player EXCEPT ![p] = x]
  BY DEF LoginNew
<1>2. x \in Object /\ objects[x] = Free /\ Holders(x) = {}
  BY DEF Fresh
<1> DEFINE made == Create(objects, x, n, p)
<1>3. objects' = made \/ objects' = Place(made, x) \/ objects' = Remove(Place(made, x), x)
  BY <1>1
<1> HIDE DEF made
<1>4. player'[p] = x /\ \A r \in Protocol \ {p} : player'[r] = player[r]
  BY <1>0, <1>1
<1>5. /\ \A y \in Object \ {x} : objects'[y] = objects[y]
      /\ objects'[x].client = p
  BY <1>0, <1>2, <1>3, CreateChecked DEF made
<1>6. CASE o # x
  <2>1. \A r \in Protocol : player[r] = o <=> player'[r] = o
    BY <1>0, <1>4, <1>6
  <2> QED BY <1>5, <1>6, <2>1, UntouchedExact
<1>7. CASE o = x
  <2>1. Count(player', o) = Count(player, o) + 1
    BY <1>0, <1>4, <1>7, CountGrows
  <2>2. Count(player, o) = 0 /\ \A r \in Protocol : player[r] # o
    BY <1>2, <1>7, CountIsNat DEF Holders
  <2>3. /\ objects'[o].ref = 1 + objects'[o].releases + One(objects'[o].online) + One(objects'[o].inCheck)
        /\ objects'[o].ref \in Nat /\ objects'[o].releases \in Nat
    BY <1>0, <1>2, <1>3, <1>7, CreateCounted DEF made
  <2>4. References(o)' = objects'[o].ref
    <3>1. /\ One(objects'[o].online) \in Nat /\ One(objects'[o].inCheck) \in Nat
      BY DEF One
    <3> QED BY <2>1, <2>2, <2>3, <3>1, ReferencesOf
  <2>5. objects[o].ref = 0 /\ References(o) = 0 /\ objects[o].client = None
    <3>1. /\ objects[o].ref = 0 /\ objects[o].releases = 0 /\ objects[o].client = None
          /\ One(objects[o].online) = 0 /\ One(objects[o].inCheck) = 0
      BY <1>2, <1>7 DEF Free, One
    <3> QED BY <2>2, <3>1, ReferencesOf
  <2>6. (objects[o].ref - References(o))' = objects[o].ref - References(o)
    BY <2>3, <2>4, <2>5
  <2>7. ASSUME NEW r \in Protocol PROVE Linked(o, r)'
    BY <1>0, <1>4, <1>5, <1>7, <2>2, <2>7 DEF Linked
  <2> QED BY <2>5, <2>6, <2>7 DEF Exact
<1> QED BY <1>6, <1>7

\* A blow, and a player who revives.
LEMMA DyingExact ==
  ASSUME SessionAssumption, objects \in [Object -> AnyObject], player' = player,
         NEW x \in Object, NEW b \in BOOLEAN, objects' = [objects EXCEPT ![x].dying = b],
         NEW o \in Object
  PROVE  Exact(o)
<1>1. CASE o # x
  <2>1. objects'[o] = objects[o]
    BY <1>1
  <2> QED BY <2>1, UntouchedExact
<1>2. CASE o = x
  <2> DEFINE r == [objects[x] EXCEPT !.dying = b]
  <2>1. /\ r.online = objects[x].online /\ r.client = objects[x].client /\ r.ref = objects[x].ref
        /\ r.inCheck = objects[x].inCheck /\ r.releases = objects[x].releases
    BY DEF AnyObject
  <2>2. objects'[o] = r
    BY <1>2
  <2> HIDE DEF r
  <2>3. References(o)' = References(o)
    BY <1>2, <2>1, <2>2, ReferencesOf
  <2>4. /\ objects'[o].ref = objects[o].ref /\ objects'[o].client = objects[o].client
        /\ objects'[o].online = objects[o].online
    BY <1>2, <2>1, <2>2
  <2> QED BY <2>3, <2>4 DEF Exact, Linked
<1> QED BY <1>1, <1>2

LEMMA LeaveExact ==
  ASSUME SessionAssumption, SessionInv, NEW p \in Protocol, NEW queue, Leave(p, queue),
         NEW o \in Object
  PROVE  Exact(o)
<1>0. objects \in [Object -> AnyObject] /\ player \in [Protocol -> Object \cup {None}]
  BY DEF SessionInv, TypeOK, AnyObject
<1>1. CASE player[p] = None
  BY <1>1, UntouchedExact DEF Leave
<1>2. CASE player[p] # None
  <2>1. player[p] \in Object /\ objects' = Remove(objects, player[p]) /\ player' = player
    BY <1>0, <1>2 DEF Leave
  <2> QED BY <1>0, <2>1, RemovedExact
<1> QED BY <1>1, <1>2

LEMMA KickExact ==
  ASSUME SessionAssumption, SessionInv, NEW x \in Object, Kick(x), NEW o \in Object
  PROVE  Exact(o)
<1>0. objects \in [Object -> AnyObject]
  BY DEF SessionInv, TypeOK, AnyObject
<1>1. CASE objects[x].client # None
  <2>1. objects[x].client \in Protocol /\ Leave(objects[x].client, tasks)
    BY <1>0, <1>1 DEF Kick, AnyObject
  <2> QED BY <2>1, LeaveExact
<1>2. CASE objects[x].client = None
  BY <1>0, <1>2, RemovedExact DEF Kick
<1> QED BY <1>1, <1>2

LEMMA GameExact ==
  ASSUME SessionAssumption, SessionInv, ~Undefined,
         \/ Cleanup \/ Halt
         \/ \E x \in Object : CheckCreatures(x) \/ Hit(x) \/ KickOne(x) \/ ShutdownKicks(x)
         \/ \E p \in Protocol, allowed \in BOOLEAN : RunLogout(p, allowed)
         \/ \E n \in Name, outcome \in {"none", "revived", "losses", "corpse"} : RunDeath(n, outcome),
         NEW o \in Object, ~Dangling(o)'
  PROVE  Exact(o)
<1>0. objects \in [Object -> AnyObject] /\ player \in [Protocol -> Object \cup {None}]
  BY DEF SessionInv, TypeOK, AnyObject
<1>1. CASE Cleanup \/ Halt
  BY <1>0, <1>1, CleanedExact DEF Cleanup, Halt
<1>2. ASSUME NEW x \in Object, CheckCreatures(x) PROVE Exact(o)
  <2> DEFINE r == [objects[x] EXCEPT !.inCheck = FALSE]
             s == [r EXCEPT !.releases = @ + 1]
             objs == [objects EXCEPT ![x] = s]
  <2>1. r \in AnyObject
    BY <1>0, Updates
  <2>2. s \in AnyObject
    <3>1. \A y \in AnyObject : [y EXCEPT !.releases = @ + 1] \in AnyObject
      BY DEF AnyObject
    <3> QED BY <2>1, <3>1
  <2>3. /\ s.online = objects[x].online /\ s.client = objects[x].client
        /\ s.ref = objects[x].ref /\ ~s.inCheck
    BY <1>0, <2>1 DEF AnyObject
  <2>4. s.releases = objects[x].releases + 1
    BY <1>0, <2>1 DEF AnyObject
  <2>5. objects' = Cleaned(objs) /\ objects[x].inCheck /\ player' = player
    BY <1>2 DEF CheckCreatures
  <2> HIDE DEF r, s
  <2>6. /\ objs \in [Object -> AnyObject]
        /\ objs[o].ref = objects[o].ref /\ objs[o].online = objects[o].online
        /\ objs[o].client = objects[o].client
        /\ \/ objs[o].inCheck = objects[o].inCheck /\ objs[o].releases = objects[o].releases
           \/ /\ objects[o].inCheck /\ ~objs[o].inCheck
              /\ objs[o].releases = objects[o].releases + 1
    <3>1. CASE o = x
      BY <1>0, <2>2, <2>3, <2>4, <2>5, <3>1
    <3>2. CASE o # x
      BY <1>0, <2>2, <3>2
    <3> QED BY <3>1, <3>2
  <2> HIDE DEF objs
  <2> QED BY <1>0, <2>5, <2>6, CleanedExact
<1>3. ASSUME NEW x \in Object, Hit(x) PROVE Exact(o)
  BY <1>0, <1>3, DyingExact DEF Hit
<1>4. ASSUME NEW x \in Object, KickOne(x) \/ ShutdownKicks(x) PROVE Exact(o)
  BY <1>4, KickExact DEF KickOne, ShutdownKicks
<1>5. ASSUME NEW p \in Protocol, NEW allowed \in BOOLEAN, RunLogout(p, allowed) PROVE Exact(o)
  <2>1. CASE allowed
    <3>1. Leave(p, Rest)
      BY <1>5, <2>1 DEF RunLogout
    <3> QED BY <3>1, LeaveExact
  <2>2. CASE ~allowed
    <3>1. UNCHANGED <<objects, player>>
      BY <1>5, <2>2 DEF RunLogout
    <3> QED BY <3>1, UntouchedExact
  <2> QED BY <2>1, <2>2
<1>6. ASSUME NEW n \in Name, NEW outcome \in {"none", "revived", "losses", "corpse"},
             RunDeath(n, outcome)
      PROVE  Exact(o)
  <2>1. player' = player
    BY <1>6 DEF RunDeath
  <2>2. CASE outcome = "none"
    <3>1. objects' = objects
      BY <1>6, <2>2 DEF RunDeath
    <3> QED BY <2>1, <3>1, UntouchedExact
  <2>3. CASE outcome # "none"
    <3>1. PICK x \in Object : x = PlayerByName(n)
      BY <1>6, <2>3, Found DEF RunDeath
    <3>2. \/ objects' = [objects EXCEPT ![x].dying = FALSE]
          \/ objects' = Remove(objects, x)
      BY <1>6, <2>3, <3>1 DEF RunDeath
    <3> QED BY <1>0, <2>1, <3>2, DyingExact, RemovedExact
  <2> QED BY <2>2, <2>3
<1> QED BY <1>1, <1>2, <1>3, <1>4, <1>5, <1>6

\* What runs the head posts one release at most.
LEMMA HeadIsRun ==
  ASSUME SessionAssumption, SessionInv, tasks # <<>>,
         NEW p \in Protocol \cup {None}, tasks' = Rest \/ tasks' = Disconnect(Rest, p)
  PROVE  Len(tasks') <= Len(tasks)
<1>1. TypeOK /\ tasks \in Seq(AnyTask)
  BY DEF SessionInv
<1>2. Rest \in Seq(AnyTask) /\ Len(Rest) = Len(tasks) - 1
  BY <1>1, RestKeeps DEF Rest
<1>3. Len(Disconnect(Rest, p)) <= Len(Rest) + 1 /\ Disconnect(Rest, p) \in Seq(AnyTask)
  BY <1>1, <1>2, CloseKeeps
<1>4. Len(tasks) \in Nat /\ Len(Rest) \in Nat
  BY <1>1, <1>2
<1>5. CASE tasks' = Rest
  BY <1>2, <1>4, <1>5
<1>6. CASE tasks' = Disconnect(Rest, p)
  <2>1. Len(Disconnect(Rest, p)) \in Nat
    BY <1>3
  <2> QED BY <1>2, <1>3, <1>4, <1>6, <2>1
<1> QED BY <1>5, <1>6

LEMMA LinkingIsRelog ==
  ASSUME SessionAssumption, SessionInv,
         \/ \E p \in Protocol, n \in Name \cup {None} :
              /\ player[p] # None
              /\ \/ RunConnect(p, n) \/ LoginConnects(p, n)
                 \/ \E outcome \in {"refused", "placed", "kicked"} : LoginNew(p, n, outcome)
         \/ \E o \in Object, n \in Name, outcome \in Outcomes : FastRelog(o, n, outcome)
  PROVE  Relog
<1>1. ASSUME NEW p \in Protocol, NEW n \in Name \cup {None}, player[p] # None,
             \/ RunConnect(p, n) \/ LoginConnects(p, n)
             \/ \E outcome \in {"refused", "placed", "kicked"} : LoginNew(p, n, outcome)
      PROVE  Relog
  <2>1. tasks' = Rest \/ tasks' = Disconnect(Rest, p)
    BY <1>1 DEF RunConnect, LoginConnects, LoginNew, Connect
  <2>2. Run("connect", p, n) \/ Run("login", p, n)
    BY <1>1 DEF RunConnect, LoginConnects, LoginNew
  <2>3. Len(tasks') <= Len(tasks)
    BY <2>1, <2>2, HeadIsRun DEF Run
  <2> QED BY <1>1, <2>2, <2>3 DEF Relog
<1>2. ASSUME NEW o \in Object, NEW n \in Name, NEW outcome \in Outcomes, FastRelog(o, n, outcome)
      PROVE  Relog
  <2>1. objects \in [Object -> AnyObject] /\ player \in [Protocol -> Object \cup {None}]
    BY DEF SessionInv, TypeOK, AnyObject
  <2>2. PICK p \in Protocol : p = objects[o].client
    <3>1. objects[o].client # None
      BY <1>2 DEF FastRelog
    <3> QED BY <2>1, <3>1 DEF AnyObject
  <2>3. PICK x \in Object \cup {None} : x = player[p]
    BY <2>1
  <2>4. /\ RelogReturns \/ RelogNew(p, x, n, outcome) \/ RelogTakes(p, x, n)
        /\ Run("relog", o, n)
    BY <1>2, <2>2, <2>3, RelogCases
  <2>5. PICK q \in Protocol \cup {None} : tasks' = Rest \/ tasks' = Disconnect(Rest, q)
    <3>1. CASE RelogReturns \/ RelogNew(p, x, n, outcome)
      BY <3>1 DEF RelogReturns, RelogNew
    <3>2. CASE RelogTakes(p, x, n)
      <4>1. PlayerByName(n) \in Object
        BY <3>2, Found DEF RelogTakes
      <4>2. objects[PlayerByName(n)].client \in Protocol \cup {None}
        BY <2>1, <4>1 DEF AnyObject
      <4> QED BY <3>2, <4>2 DEF RelogTakes
    <3> QED BY <2>4, <3>1, <3>2
  <2>6. Len(tasks') <= Len(tasks)
    BY <2>4, <2>5, HeadIsRun DEF Run
  <2> QED BY <2>4, <2>6 DEF Relog
<1> QED BY <1>1, <1>2

LEMMA StepIsExact ==
  ASSUME SessionAssumption, SessionInv, Next, SessionInv'
  PROVE  Relog \/ (\E o \in Object : Dangling(o)') \/ \A o \in Object : Exact(o)
<1> SUFFICES ASSUME ~Relog, \A o \in Object : ~Dangling(o)', NEW o \in Object
             PROVE  Exact(o)
  OBVIOUS
<1>1. ~Undefined /\ ~Dangling(o)'
  BY DEF Next
<1>2. CASE UNCHANGED <<objects, player>>
  BY <1>2, UntouchedExact
<1>3. CASE NetworkStep
  <2>1. UNCHANGED <<objects, player>>
    BY <1>3 DEF NetworkStep, FirstMessage, NetworkClose, ConnectionDestroyed, LogoutPacket,
                ReloginPacket, ConnectFires
  <2> QED BY <1>2, <2>1
<1>4. CASE RunTask
  <2>1. ASSUME NEW p \in Protocol, RunRelease(p) PROVE Exact(o)
    BY <1>1, <2>1, ReleaseExact
  <2>2. ASSUME NEW p \in Protocol, NEW allowed \in BOOLEAN, RunLogout(p, allowed) PROVE Exact(o)
    BY <1>1, <2>2, GameExact
  <2>3. ASSUME NEW p \in Protocol, NEW n \in Name \cup {None},
               \E outcome \in {"refused", "placed", "kicked"} : LoginNew(p, n, outcome)
        PROVE  Exact(o)
    <3>1. player[p] = None
      BY <2>3, LinkingIsRelog
    <3> QED BY <1>1, <2>3, <3>1, LoginNewExact
  <2>4. ASSUME NEW p \in Protocol, NEW n \in Name \cup {None}, RunConnect(p, n) \/ LoginConnects(p, n)
        PROVE  Exact(o)
    <3>1. player[p] = None
      BY <2>4, LinkingIsRelog
    <3> QED BY <2>4, <3>1, ConnectExact DEF RunConnect, LoginConnects
  <2>5. ASSUME NEW p \in Protocol, NEW n \in Name \cup {None}, LoginTwice(p, n) \/ LoginReplaces(p, n)
        PROVE  Exact(o)
    BY <1>2, <2>5 DEF LoginTwice, LoginReplaces
  <2>6. ASSUME NEW n \in Name, NEW outcome \in {"none", "revived", "losses", "corpse"},
               RunDeath(n, outcome)
        PROVE  Exact(o)
    BY <1>1, <2>6, GameExact
  <2>7. ASSUME NEW n \in Name, NEW x \in Object, FastRelogCrashes(x, n) PROVE Exact(o)
    BY <1>2, <2>7 DEF FastRelogCrashes
  <2>8. ASSUME NEW n \in Name, NEW x \in Object, NEW outcome \in Outcomes, FastRelog(x, n, outcome)
        PROVE  Exact(o)
    BY <2>8, LinkingIsRelog
  <2>9. CASE StartShutdown \/ Halt
    BY <1>1, <1>2, <2>9, GameExact DEF StartShutdown
  <2> QED BY <1>4, <2>1, <2>2, <2>3, <2>4, <2>5, <2>6, <2>7, <2>8, <2>9 DEF RunTask, Outcomes
<1>5. CASE ShutdownStep \/ Cleanup \/ RequestShutdown
  BY <1>1, <1>2, <1>5, GameExact DEF ShutdownStep, StopDispatcher, RequestShutdown
<1>6. ASSUME NEW x \in Object,
             \/ KickOne(x) \/ Hit(x) \/ CheckCreatures(x)
             \/ \E n \in Name : RequestFastRelog(x, n)
      PROVE  Exact(o)
  BY <1>1, <1>2, <1>6, GameExact DEF RequestFastRelog
<1> QED BY <1>3, <1>4, <1>5, <1>6 DEF Next

\* The calls of incrementReferenceCounter and decrementReferenceCounter that login,
\* connect, release, placeCreature, removeCreature, checkCreatures and cleanup make
\* agree with who refers to the player, whatever runs between them: only a relog
\* miscounts, or a step that leaves somebody with a deleted player.
THEOREM ReferencesAreExact == Spec => RefsExact
<1>1. SessionInv /\ SessionInv' /\ [Next]_vars =>
        [\/ Relog
         \/ \E o \in Object : Dangling(o)'
         \/ \A o \in Object : objects[o].ref - References(o) = (objects[o].ref - References(o))']_vars
  BY StepIsExact, SessionAssumption DEF Exact
<1> QED BY <1>1, SessionInvariance, PTL DEF Spec, RefsExact

\* A player and its client stay linked both ways, and no player is handed from one
\* client to another, but for a relog (connect asks for client == nullptr,
\* release for player->client == this).
THEOREM LinksAreMutual == Spec => LinkedBothWays
<1>1. SessionInv /\ SessionInv' /\ [Next]_vars =>
        [\/ Relog
         \/ \E o \in Object : Dangling(o)'
         \/ /\ \A o \in Object, p \in Protocol : Linked(o, p) => Linked(o, p)'
            /\ \A o \in Object :
                 objects[o].client # None => objects'[o].client \in {objects[o].client, None}]_vars
  BY StepIsExact, SessionAssumption DEF Exact
<1> QED BY <1>1, SessionInvariance, PTL DEF Spec, LinkedBothWays

-----------------------------------------------------------------------------
(* Who talks to whom: chat channels, guilds and buddies. *)

AnyCompany ==
  [on : SUBSET Player, linked : SUBSET Player, ghost : SUBSET Player, may : SUBSET Player,
   users : [Channel -> SUBSET Player], made : SUBSET Channel,
   owner : [Private -> Player \cup {Null}], invites : [Private -> SUBSET Player],
   windows : [Player -> SUBSET Ids],
   party : [Player -> Address \cup {Null}], leader : [Address -> Player \cup {Null}],
   guild : [Player -> Guild \cup {Null}], loaded : SUBSET Guild, members : [Guild -> SUBSET Player],
   listed : [Player -> SUBSET Player], rows : SUBSET ({account[p] : p \in Player} \X Player),
   shown : [Player -> [Player -> {"online", "offline", "absent"}]]]

\* Who is not in the game is pointed at by nothing, and only clients show windows.
Present(w) ==
  /\ w.linked \subseteq w.on /\ w.ghost \subseteq w.on
  /\ \A p \in Player : p \notin w.linked => w.windows[p] = {}
  /\ \A p \in Player : p \notin w.on => w.guild[p] = Null
  /\ \A c \in Channel : w.users[c] \subseteq w.on
  /\ \A i \in Private : w.invites[i] \subseteq w.on

\* A slot that is free is empty.
Slots(w) ==
  \A i \in Private :
    /\ i \in w.made <=> w.owner[i] # Null
    /\ w.users[i] \subseteq w.invites[i] \cup {w.owner[i]}
    /\ w.owner[i] # Null => w.owner[i] \in w.users[i]
    /\ w.owner[i] = Null => w.invites[i] = {}
    /\ w.owner[i] \notin w.invites[i]
    /\ \A j \in Private : w.owner[i] # Null /\ w.owner[j] = w.owner[i] => i = j

\* What the client of a player shows and what it hears.
Matches(w, h, p) ==
  /\ \A id \in w.windows[p] : <<p, id>> \in h.dropped \/ \E c \in Channel : Id(c) = id /\ p \in w.users[c]
  /\ \A c \in Channel : p \in w.users[c] => Id(c) \in w.windows[p] \/ <<p, Id(c)>> \in h.left

\* Why a player hears a channel.
Reasons(w, h, p) ==
  /\ \A c \in Address : p \in w.users[c] => c \in w.made /\ (w.party[p] = c \/ <<p, "party">> \in h.left)
  /\ \A c \in Guild : p \in w.users[c] => c \in w.made /\ (w.guild[p] = c \/ <<p, "guild">> \in h.left)
  /\ \A c \in Normal : p \in w.users[c] => p \in w.may \/ <<p, c>> \in h.left

Guilds(w, h) ==
  /\ \A g \in Guild : \A p \in w.members[g] : w.guild[p] = g \/ <<p, g>> \in h.slipped
  /\ \A p \in Player : w.guild[p] # Null => w.guild[p] \in w.loaded /\ p \in w.members[w.guild[p]]
  /\ \A g \in w.loaded : w.members[g] # {} \/ g \in h.copied

\* The leader of a party is of it.
Leaders(w) == \A a \in Address : w.leader[a] # Null => w.party[w.leader[a]] = a

Buddies(w) ==
  \A p \in w.linked : \A q \in w.listed[p] :
    w.shown[p][q] # "absent" => w.shown[p][q] = Status(Visible(w, p, q))

AnyPast ==
  [left : SUBSET (Player \X Ids), dropped : SUBSET (Player \X Ids),
   slipped : SUBSET (Player \X Guild), copied : SUBSET Guild]

Good(w, h) ==
  /\ w \in AnyCompany /\ h \in AnyPast
  /\ Present(w) /\ Slots(w)
  /\ \A p \in Player : Reasons(w, h, p)
  /\ \A p \in w.linked : Matches(w, h, p)
  /\ Guilds(w, h) /\ Leaders(w) /\ Buddies(w)

CompanyInv == Good(state, past)

LEMMA ChannelKinds ==
  /\ Normal \subseteq Channel /\ Private \subseteq Channel /\ Address \subseteq Channel /\ Guild \subseteq Channel
  /\ \A c \in Channel :
       /\ c \in Normal => c \notin Private /\ c \notin Address /\ c \notin Guild
       /\ c \in Private => c \notin Address /\ c \notin Guild
       /\ c \in Address => c \notin Guild
       /\ c \notin {Null, "party", "guild"}
  /\ Null \notin Player
<1>1. /\ Normal \subseteq Channel /\ Private \subseteq Channel /\ Address \subseteq Channel /\ Guild \subseteq Channel
      /\ {Null, "party", "guild"} \cap Channel = {} /\ Null \notin Player
  BY CompanyAssumption DEF Channel
<1>2. /\ Normal \cap (Private \cup Address \cup Guild) = {}
      /\ Private \cap (Address \cup Guild) = {} /\ Address \cap Guild = {}
  BY CompanyAssumption
<1>3. ASSUME NEW c \in Channel
      PROVE  /\ c \in Normal => c \notin Private /\ c \notin Address /\ c \notin Guild
             /\ c \in Private => c \notin Address /\ c \notin Guild
             /\ c \in Address => c \notin Guild
             /\ c \notin {Null, "party", "guild"}
  BY <1>1, <1>2
<1> QED BY <1>1, <1>3

LEMMA CompanyInvIsSound ==
  ASSUME CompanyInv
  PROVE  CompanySound
<1>1. PointersLive
  BY DEF CompanyInv, Good, Present, Guilds, PointersLive
<1>2. GuildsKept
  BY DEF CompanyInv, Good, Guilds, GuildsKept
<1>3. PrivateKept
  <2>1. ASSUME NEW i \in Private, i \in state.made
        PROVE  state.owner[i] \in state.users[i] /\ \A j \in Private \ {i} : state.owner[j] # state.owner[i]
    BY <2>1 DEF CompanyInv, Good, Slots
  <2>2. \A i \in Private : (i \in state.made <=> state.owner[i] # Null) /\ state.users[i] \subseteq state.invites[i] \cup {state.owner[i]}
    BY DEF CompanyInv, Good, Slots
  <2> QED BY <2>1, <2>2 DEF PrivateKept
<1>4. HeardByMembers
  BY DEF CompanyInv, Good, AnyCompany, Reasons, HeardByMembers, Heard
<1>5. WindowsMatch
  <2>1. SUFFICES ASSUME NEW p \in state.linked, NEW id \in Ids
                 PROVE  /\ id \in state.windows[p] => id \in {Id(c) : c \in Heard(state, p)} \/ <<p, id>> \in past.dropped
                        /\ id \in {Id(c) : c \in Heard(state, p)} => id \in state.windows[p] \/ <<p, id>> \in past.left
    BY DEF WindowsMatch
  <2>2. /\ \A d \in state.windows[p] : <<p, d>> \in past.dropped \/ \E c \in Channel : Id(c) = d /\ p \in state.users[c]
        /\ \A c \in Channel : p \in state.users[c] => Id(c) \in state.windows[p] \/ <<p, Id(c)>> \in past.left
    BY DEF CompanyInv, Good, Matches
  <2>3. \A c : c \in Heard(state, p) <=> c \in Channel /\ p \in state.users[c]
    BY DEF Heard
  <2>. HIDE DEF Id
  <2>4. ASSUME id \in state.windows[p] PROVE id \in {Id(c) : c \in Heard(state, p)} \/ <<p, id>> \in past.dropped
    BY <2>2, <2>3, <2>4
  <2>5. ASSUME id \in {Id(c) : c \in Heard(state, p)} PROVE id \in state.windows[p] \/ <<p, id>> \in past.left
    BY <2>2, <2>3, <2>5
  <2> QED BY <2>4, <2>5
<1>6. StatusExact
  BY DEF CompanyInv, Good, Buddies, StatusExact
<1> QED BY <1>1, <1>2, <1>3, <1>4, <1>5, <1>6 DEF CompanySound

LEMMA CompanyInitInv == CompanyInit => CompanyInv
<1>. SUFFICES ASSUME CompanyInit PROVE CompanyInv
  OBVIOUS
<1>1. /\ state.on = {} /\ state.linked = {} /\ state.users = [c \in Channel |-> {}] /\ state.made = {}
      /\ state.owner = [i \in Private |-> Null] /\ state.invites = [i \in Private |-> {}] /\ state.may = Player
      /\ state.party = [p \in Player |-> Null] /\ state.leader = [a \in Address |-> Null]
      /\ state.guild = [p \in Player |-> Null] /\ state.loaded = {} /\ state.members = [g \in Guild |-> {}]
      /\ state.windows = [p \in Player |-> {}]
  BY DEF CompanyInit
<1>2. state \in AnyCompany
  BY DEF CompanyInit, AnyCompany, Nothing
<1>3. Present(state) /\ (\A p \in Player : Reasons(state, past, p)) /\ Guilds(state, past) /\ Leaders(state)
  <2>1. Present(state)
    BY <1>1, <1>2 DEF CompanyInit, Present
  <2>2. \A p \in Player : Reasons(state, past, p)
    BY <1>1, ChannelKinds DEF Reasons
  <2>3. Guilds(state, past) /\ Leaders(state)
    BY <1>1 DEF Guilds, Leaders
  <2> QED BY <2>1, <2>2, <2>3
<1>4. Slots(state)
  <2>1. Private \subseteq Channel
    BY DEF Channel
  <2> QED BY <1>1, <2>1 DEF Slots
<1>5. Buddies(state) /\ past \in AnyPast
  BY <1>1 DEF Buddies, CompanyInit, AnyPast
<1> QED BY <1>1, <1>2, <1>3, <1>4, <1>5 DEF CompanyInv, Good

-----------------------------------------------------------------------------
(* Channels and their ids *)

LEMMA IdFacts ==
  /\ \A c \in Channel : Id(c) \in Ids
  /\ \A c \in Address : Id(c) = "party"
  /\ \A c \in Guild : Id(c) = "guild"
  /\ \A c \in Normal \cup Private : Id(c) = c
  /\ \A c \in Normal \cup Private, d \in Channel : Id(d) = c => d = c
  /\ \A d \in Channel : (Id(d) = "party" => d \in Address) /\ (Id(d) = "guild" => d \in Guild)
<1>1. ASSUME NEW c \in Channel
      PROVE  \/ c \in Address /\ Id(c) = "party"
             \/ c \in Guild /\ Id(c) = "guild"
             \/ c \in Normal \cup Private /\ Id(c) = c
  BY ChannelKinds DEF Id, Channel
<1> QED BY <1>1, ChannelKinds DEF Ids

\* Who may have a channel that there is.
Admits(w, p, c) ==
  /\ c \in Address => w.party[p] = c /\ c \in w.made
  /\ c \in Guild => w.guild[p] = c /\ c \in w.made
  /\ c \in Normal => p \in w.may
  /\ c \in Private => c \in w.made /\ (w.owner[c] = p \/ p \in w.invites[c])

LEMMA Admitted ==
  ASSUME NEW w \in AnyCompany, NEW p \in Player, NEW id \in Ids, NEW c \in Channel
  PROVE  c \in GetChannel(w, p, id) <=> Id(c) = id /\ Admits(w, p, c)
<1>1. /\ w.party[p] \in Address \cup {Null} /\ w.guild[p] \in Guild \cup {Null}
  BY DEF AnyCompany
<1>2. CASE id = "party"
  <2>1. GetChannel(w, p, id) = {w.party[p]} \cap w.made
    BY <1>2, ChannelKinds DEF GetChannel
  <2> QED BY <2>1, <1>1, <1>2, ChannelKinds, IdFacts DEF Admits
<1>3. CASE id = "guild"
  <2>1. GetChannel(w, p, id) = {w.guild[p]} \cap w.made
    BY <1>3, ChannelKinds DEF GetChannel
  <2> QED BY <2>1, <1>1, <1>3, ChannelKinds, IdFacts DEF Admits
<1>4. CASE id \in Normal
  <2>0. id # "party" /\ id # "guild"
    BY <1>4, ChannelKinds
  <2>1. GetChannel(w, p, id) = {d \in {id} : p \in w.may}
    BY <1>4, <2>0 DEF GetChannel
  <2> QED BY <2>1, <1>4, ChannelKinds, IdFacts DEF Admits
<1>5. CASE id \in Private
  <2>0. id # "party" /\ id # "guild" /\ id \notin Normal
    BY <1>5, ChannelKinds
  <2>1. GetChannel(w, p, id) = {i \in {id} \cap w.made : IsInvited(w, p, i)}
    BY <2>0 DEF GetChannel
  <2> QED BY <2>1, <1>5, ChannelKinds, IdFacts DEF Admits, IsInvited
<1> QED BY <1>2, <1>3, <1>4, <1>5 DEF Ids

\* What channels and parties do not touch.
SameRest(w, v) ==
  /\ v.on = w.on /\ v.linked = w.linked /\ v.ghost = w.ghost /\ v.may = w.may
  /\ v.guild = w.guild /\ v.loaded = w.loaded /\ v.members = w.members
  /\ v.listed = w.listed /\ v.rows = w.rows /\ v.shown = w.shown

SameParties(w, v) == v.party = w.party /\ v.leader = w.leader
SameSlots(w, v) == v.made = w.made /\ v.owner = w.owner /\ v.invites = w.invites

Hidden(w, v, P, id) ==
  /\ v \in AnyCompany /\ SameRest(w, v) /\ SameParties(w, v) /\ SameSlots(w, v) /\ v.users = w.users
  /\ \A q \in Player : v.windows[q] = IF q \in P THEN w.windows[q] \ {id} ELSE w.windows[q]

LEMMA HidesHidden ==
  ASSUME NEW w \in AnyCompany, NEW P, NEW id
  PROVE  Hidden(w, Hides(w, P, id), P, id)
BY DEF Hides, Hidden, AnyCompany, SameRest, SameParties, SameSlots

Deleted(w, v, I) ==
  /\ v \in AnyCompany /\ SameRest(w, v) /\ SameParties(w, v)
  /\ v.made = w.made \ I
  /\ \A c \in Channel : v.users[c] = IF c \in I THEN {} ELSE w.users[c]
  /\ \A i \in Private : v.owner[i] = IF i \in I THEN Null ELSE w.owner[i]
  /\ \A i \in Private : v.invites[i] = IF i \in I THEN {} ELSE w.invites[i]
  /\ \A q \in Player : v.windows[q] = w.windows[q] \ {i \in I : q \in w.users[i]}

LEMMA DeleteDeletes ==
  ASSUME NEW w \in AnyCompany, NEW I \in SUBSET Private
  PROVE  Deleted(w, DeleteChannels(w, I), I)
BY DEF DeleteChannels, Deleted, AnyCompany, SameRest, SameParties

Removed(w, v, P, id) ==
  /\ v \in AnyCompany /\ SameRest(w, v) /\ SameParties(w, v) /\ SameSlots(w, v) /\ v.windows = w.windows
  /\ \A c \in Channel : v.users[c] = {p \in w.users[c] : ~(p \in P /\ Id(c) = id /\ Admits(w, p, c))}

LEMMA RemoveRemoves ==
  ASSUME NEW w \in AnyCompany, NEW P, NEW id \in Ids
  PROVE  Removed(w, RemoveUsers(w, P, id), P, id)
<1>. DEFINE v == RemoveUsers(w, P, id)
<1>1. /\ v \in AnyCompany /\ SameRest(w, v) /\ SameParties(w, v) /\ SameSlots(w, v) /\ v.windows = w.windows
      /\ v.users = [c \in Channel |-> w.users[c] \ {p \in P : c \in GetChannel(w, p, id)}]
  BY DEF RemoveUsers, AnyCompany, SameRest, SameParties, SameSlots
<1>. HIDE DEF v
<1>2. ASSUME NEW c \in Channel
      PROVE  v.users[c] = {p \in w.users[c] : ~(p \in P /\ Id(c) = id /\ Admits(w, p, c))}
  <2>1. w.users[c] \subseteq Player
    BY DEF AnyCompany
  <2>2. \A p \in Player : c \in GetChannel(w, p, id) <=> Id(c) = id /\ Admits(w, p, c)
    BY Admitted
  <2>3. v.users[c] = w.users[c] \ {p \in P : c \in GetChannel(w, p, id)}
    BY <1>1
  <2> QED BY <2>1, <2>2, <2>3
<1> QED BY <1>1, <1>2 DEF Removed, v

-----------------------------------------------------------------------------
(* Leaving all channels *)

TalkLeft(w, v, p) ==
  /\ v \in AnyCompany /\ SameRest(w, v) /\ SameParties(w, v)
  /\ v.made = w.made \ Owned(w, p)
  /\ \A c \in Channel : v.users[c] = IF c \in Owned(w, p) THEN {} ELSE w.users[c] \ {p}
  /\ \A i \in Private : v.owner[i] = IF i \in Owned(w, p) THEN Null ELSE w.owner[i]
  /\ \A i \in Private : v.invites[i] = IF i \in Owned(w, p) THEN {} ELSE w.invites[i] \ {p}
  /\ \A q \in Player : v.windows[q] = w.windows[q] \ {i \in Owned(w, p) : q \in w.users[i] \ {p}}

LEMMA AllLeft ==
  ASSUME NEW w \in AnyCompany, NEW p \in Player
  PROVE  TalkLeft(w, RemoveUserFromAllChannels(w, p), p)
<1>. DEFINE u == [w EXCEPT !.users = [c \in Channel |-> @[c] \ {p}],
                           !.invites = [i \in Private |-> @[i] \ {p}]]
            v == DeleteChannels(u, Owned(w, p))
<1>1. /\ u \in AnyCompany /\ SameRest(w, u) /\ SameParties(w, u)
      /\ u.made = w.made /\ u.owner = w.owner /\ u.windows = w.windows
      /\ u.users = [c \in Channel |-> w.users[c] \ {p}]
      /\ u.invites = [i \in Private |-> w.invites[i] \ {p}]
  BY DEF AnyCompany, SameRest, SameParties
<1>2. Owned(w, p) \in SUBSET Private /\ Private \subseteq Channel
  BY ChannelKinds DEF Owned
<1>3. RemoveUserFromAllChannels(w, p) = v
  BY DEF RemoveUserFromAllChannels
<1>. HIDE DEF u
<1>4. Deleted(u, v, Owned(w, p))
  BY <1>1, <1>2, DeleteDeletes
<1>. HIDE DEF v
<1>5. /\ v \in AnyCompany /\ SameRest(w, v) /\ SameParties(w, v)
      /\ v.made = w.made \ Owned(w, p)
  BY <1>1, <1>4 DEF Deleted, SameRest, SameParties
<1>6. \A c \in Channel : v.users[c] = IF c \in Owned(w, p) THEN {} ELSE w.users[c] \ {p}
  BY <1>1, <1>4 DEF Deleted
<1>7. \A i \in Private : /\ v.owner[i] = IF i \in Owned(w, p) THEN Null ELSE w.owner[i]
                         /\ v.invites[i] = IF i \in Owned(w, p) THEN {} ELSE w.invites[i] \ {p}
  BY <1>1, <1>4 DEF Deleted
<1>8. ASSUME NEW q \in Player
      PROVE  v.windows[q] = w.windows[q] \ {i \in Owned(w, p) : q \in w.users[i] \ {p}}
  <2>1. v.windows[q] = w.windows[q] \ {i \in Owned(w, p) : q \in u.users[i]}
    BY <1>1, <1>4 DEF Deleted
  <2>2. \A i \in Owned(w, p) : u.users[i] = w.users[i] \ {p}
    BY <1>1, <1>2
  <2> QED BY <2>1, <2>2
<1> QED BY <1>3, <1>5, <1>6, <1>7, <1>8 DEF TalkLeft

\* The slots that are deleted go from the windows of those who heard them.
LEMMA DeletedMatch ==
  ASSUME NEW w \in AnyCompany, NEW h, NEW q \in Player, NEW I \in SUBSET Private, NEW v,
         Matches(w, h, q), v.windows[q] = w.windows[q] \ {i \in I : q \in w.users[i]},
         \A c \in Channel : v.users[c] \cap {q} = IF c \in I THEN {} ELSE w.users[c] \cap {q}
  PROVE  Matches(v, h, q)
<1>1. ASSUME NEW id \in v.windows[q], <<q, id>> \notin h.dropped
      PROVE  \E c \in Channel : Id(c) = id /\ q \in v.users[c]
  <2>1. PICK c \in Channel : Id(c) = id /\ q \in w.users[c]
    BY <1>1 DEF Matches
  <2>2. c \notin I
    <3>1. ASSUME c \in I PROVE FALSE
      <4>1. Id(c) = c
        BY <3>1, IdFacts
      <4> QED BY <4>1, <3>1, <2>1, <1>1
    <3> QED BY <3>1
  <2> QED BY <2>1, <2>2
<1>2. ASSUME NEW c \in Channel, q \in v.users[c] PROVE Id(c) \in v.windows[q] \/ <<q, Id(c)>> \in h.left
  <2>1. c \notin I /\ q \in w.users[c]
    BY <1>2
  <2>2. Id(c) \notin I
    BY <2>1, IdFacts, ChannelKinds
  <2> QED BY <2>1, <2>2 DEF Matches
<1> QED BY <1>1, <1>2 DEF Matches

LEMMA LeftKeeps ==
  ASSUME NEW w \in AnyCompany, NEW v, NEW h, NEW p \in Player, TalkLeft(w, v, p), Slots(w)
  PROVE  /\ Slots(v)
         /\ \A c \in Channel : v.users[c] \subseteq w.users[c] /\ p \notin v.users[c]
         /\ \A i \in Private : v.invites[i] \subseteq w.invites[i] /\ p \notin v.invites[i]
         /\ \A q \in Player : v.windows[q] \subseteq w.windows[q]
         /\ \A q \in Player \ {p} : Matches(w, h, q) => Matches(v, h, q)
         /\ \A q \in Player \ {p} : Reasons(w, h, q) => Reasons(v, h, q)
<1>0. /\ Private \subseteq Channel /\ Address \subseteq Channel /\ Guild \subseteq Channel /\ Normal \subseteq Channel
      /\ Null \notin Player
  BY ChannelKinds
<1>1. \A i \in Private : i \in Owned(w, p) <=> w.owner[i] = p
  BY DEF Owned
<1>2. /\ \A c \in Channel : v.users[c] \subseteq w.users[c] /\ p \notin v.users[c]
      /\ \A i \in Private : v.invites[i] \subseteq w.invites[i] /\ p \notin v.invites[i]
      /\ \A q \in Player : v.windows[q] \subseteq w.windows[q]
  BY <1>0 DEF TalkLeft
<1>3. Slots(v)
  <2>1. \A i \in Private : w.owner[i] \in Player \cup {Null} /\ w.invites[i] \subseteq Player
    BY DEF AnyCompany
  <2>2. ASSUME NEW i \in Private
        PROVE  /\ i \in v.made <=> v.owner[i] # Null
               /\ v.users[i] \subseteq v.invites[i] \cup {v.owner[i]}
               /\ v.owner[i] # Null => v.owner[i] \in v.users[i]
               /\ v.owner[i] = Null => v.invites[i] = {}
               /\ v.owner[i] \notin v.invites[i]
    <3>1. CASE w.owner[i] = p
      BY <3>1, <1>0, <1>1 DEF TalkLeft, Slots
    <3>2. CASE w.owner[i] # p
      <4>1. /\ v.owner[i] = w.owner[i] /\ v.invites[i] = w.invites[i] \ {p} /\ v.users[i] = w.users[i] \ {p}
            /\ i \in v.made <=> i \in w.made
        BY <3>2, <1>0, <1>1 DEF TalkLeft
      <4>2. /\ i \in w.made <=> w.owner[i] # Null
            /\ w.users[i] \subseteq w.invites[i] \cup {w.owner[i]}
            /\ w.owner[i] # Null => w.owner[i] \in w.users[i]
            /\ w.owner[i] = Null => w.invites[i] = {}
            /\ w.owner[i] \notin w.invites[i]
        BY DEF Slots
      <4> QED BY <4>1, <4>2, <3>2
    <3> QED BY <3>1, <3>2
  <2>3. \A i, j \in Private : v.owner[i] # Null /\ v.owner[j] = v.owner[i] => i = j
    BY <1>0, <1>1 DEF TalkLeft, Slots
  <2> QED BY <2>2, <2>3 DEF Slots
<1>4. ASSUME NEW q \in Player \ {p}, Matches(w, h, q) PROVE Matches(v, h, q)
  <2>1. Owned(w, p) \in SUBSET Private
    BY DEF Owned
  <2>2. v.windows[q] = w.windows[q] \ {i \in Owned(w, p) : q \in w.users[i]}
    BY DEF TalkLeft
  <2>3. \A c \in Channel : v.users[c] \cap {q} = IF c \in Owned(w, p) THEN {} ELSE w.users[c] \cap {q}
    BY DEF TalkLeft
  <2> QED BY <1>4, <2>1, <2>2, <2>3, DeletedMatch
<1>5. ASSUME NEW q \in Player \ {p}, Reasons(w, h, q) PROVE Reasons(v, h, q)
  <2>1. v.party = w.party /\ v.guild = w.guild /\ v.may = w.may
    BY DEF TalkLeft, SameRest, SameParties
  <2>2. \A c \in Address \cup Guild : c \in w.made => c \in v.made
    BY ChannelKinds DEF TalkLeft, Owned
  <2> QED BY <1>5, <1>0, <1>2, <2>1, <2>2 DEF Reasons
<1> QED BY <1>2, <1>3, <1>4, <1>5

-----------------------------------------------------------------------------
(* Leaving a party *)

OutOf(w, v, P) ==
  /\ v \in AnyCompany /\ SameRest(w, v) /\ SameSlots(w, v) /\ v.users = w.users /\ v.leader = w.leader
  /\ \A q \in Player : v.party[q] = IF q \in P THEN Null ELSE w.party[q]
  /\ \A q \in Player : v.windows[q] = IF q \in P THEN w.windows[q] \ {"party"} ELSE w.windows[q]

LEMMA OutLeaves ==
  ASSUME NEW w \in AnyCompany, NEW P
  PROVE  OutOf(w, OutOfParty(w, P), P)
<1>. DEFINE u == [w EXCEPT !.party = [p \in Player |-> IF p \in P THEN Null ELSE @[p]]]
            x == RemoveUsers(u, P, "party")
            v == Hides(x, P, "party")
<1>1. /\ u \in AnyCompany /\ SameRest(w, u) /\ SameSlots(w, u) /\ u.users = w.users /\ u.leader = w.leader
      /\ u.windows = w.windows /\ u.party = [p \in Player |-> IF p \in P THEN Null ELSE w.party[p]]
  BY DEF AnyCompany, SameRest, SameSlots
<1>2. OutOfParty(w, P) = v
  <2>1. "party" \notin Private
    BY ChannelKinds
  <2> QED BY <2>1 DEF OutOfParty, SendClosePrivate
<1>. HIDE DEF u
<1>3. Removed(u, x, P, "party")
  BY <1>1, RemoveRemoves DEF Ids
<1>. HIDE DEF x
<1>4. x.users = w.users
  <2>1. ASSUME NEW c \in Channel, NEW p \in w.users[c] PROVE ~(p \in P /\ Id(c) = "party" /\ Admits(u, p, c))
    <3>1. p \in Player
      BY DEF AnyCompany
    <3>2. Id(c) = "party" => c \in Address /\ c # Null
      BY IdFacts, ChannelKinds
    <3>3. p \in P => u.party[p] = Null
      BY <3>1, <1>1
    <3> QED BY <3>2, <3>3 DEF Admits
  <2>2. \A c \in Channel : x.users[c] = w.users[c]
    BY <1>1, <1>3, <2>1 DEF Removed
  <2>3. x.users \in [Channel -> SUBSET Player] /\ w.users \in [Channel -> SUBSET Player]
    BY <1>3 DEF Removed, AnyCompany
  <2> QED BY <2>2, <2>3
<1>5. Hidden(x, v, P, "party")
  BY <1>3, HidesHidden DEF Removed
<1>. HIDE DEF v
<1>6. /\ v \in AnyCompany /\ SameRest(w, v) /\ SameSlots(w, v) /\ v.users = w.users /\ v.leader = w.leader
  BY <1>1, <1>3, <1>4, <1>5 DEF Removed, Hidden, SameRest, SameSlots, SameParties
<1>7. \A q \in Player : v.party[q] = IF q \in P THEN Null ELSE w.party[q]
  BY <1>1, <1>3, <1>5 DEF Removed, Hidden, SameParties
<1>8. \A q \in Player : v.windows[q] = IF q \in P THEN w.windows[q] \ {"party"} ELSE w.windows[q]
  BY <1>1, <1>3, <1>5 DEF Removed, Hidden
<1> QED BY <1>2, <1>6, <1>7, <1>8 DEF OutOf

\* Who leaves a party by a request of p: p, and all when it is disbanded.
PartyLeft(w, v, p, G) ==
  /\ v \in AnyCompany /\ SameRest(w, v) /\ SameSlots(w, v) /\ v.users = w.users
  /\ p \in G /\ G \subseteq Members(w, w.party[p])
  /\ \A q \in Player : v.party[q] = IF q \in G THEN Null ELSE w.party[q]
  /\ \A q \in Player : v.windows[q] = IF q \in G THEN w.windows[q] \ {"party"} ELSE w.windows[q]
  /\ Leaders(v)
  /\ v.leader[w.party[p]] = Null \/ G = {p}

LEMMA LeavePartyLeaves ==
  ASSUME NEW w \in AnyCompany, Leaders(w), NEW p \in Player, w.party[p] # Null, NEW invited \in BOOLEAN
  PROVE  \E G \in SUBSET Player : PartyLeft(w, LeaveParty(w, p, invited), p, G)
<1>. DEFINE a == w.party[p]
            others == Members(w, a) \ {p}
            ends == others = {} \/ (Cardinality(others) = 1 /\ ~invited)
            next == IF w.leader[a] # p \/ ends THEN w.leader[a] ELSE CHOOSE q \in others : TRUE
            u == [w EXCEPT !.leader[a] = next]
            x == OutOfParty(u, {p})
<1>0. a \in Address /\ p \in Members(w, a) /\ Members(w, a) \subseteq Player /\ Null \notin Player /\ Null \notin Address
  <2>1. Null \notin Player /\ Null \notin Address
    BY ChannelKinds
  <2> QED BY <2>1 DEF AnyCompany, Members
<1>1. next \in Player \cup {Null} /\ (next # Null => next \in Members(w, a))
  <2>1. w.leader[a] \in Player \cup {Null} /\ (w.leader[a] # Null => w.leader[a] \in Members(w, a))
    BY <1>0 DEF AnyCompany, Leaders, Members
  <2>2. ~ends => others # {}
    OBVIOUS
  <2>3. others # {} => (CHOOSE q \in others : TRUE) \in others
    OBVIOUS
  <2> QED BY <2>1, <2>2, <2>3, <1>0
<1>2. ~ends => next # p
  <2>1. others # {} => (CHOOSE q \in others : TRUE) \in others
    OBVIOUS
  <2> QED BY <2>1
<1>3. LeaveParty(w, p, invited) = IF ends THEN Disband(x, a) ELSE x
  BY DEF LeaveParty
<1>. HIDE DEF ends, next
<1>4. /\ u \in AnyCompany /\ SameRest(w, u) /\ SameSlots(w, u) /\ u.users = w.users /\ u.party = w.party
      /\ u.windows = w.windows /\ u.leader = [w.leader EXCEPT ![a] = next]
  BY <1>0, <1>1 DEF AnyCompany, SameRest, SameSlots
<1>. HIDE DEF u
<1>5. OutOf(u, x, {p})
  BY <1>4, OutLeaves
<1>. HIDE DEF x
<1>6. /\ x \in AnyCompany /\ SameRest(w, x) /\ SameSlots(w, x) /\ x.users = w.users
      /\ x.leader = [w.leader EXCEPT ![a] = next]
      /\ \A q \in Player : x.party[q] = IF q = p THEN Null ELSE w.party[q]
      /\ \A q \in Player : x.windows[q] = IF q = p THEN w.windows[q] \ {"party"} ELSE w.windows[q]
  BY <1>4, <1>5 DEF OutOf, SameRest, SameSlots
<1>7. w.leader \in [Address -> Player \cup {Null}] /\ \A b \in Address : w.leader[b] # Null => w.party[w.leader[b]] = b
  BY DEF AnyCompany, Leaders
<1>8. CASE ~ends
  <2>1. Leaders(x)
    <3>1. ASSUME NEW b \in Address, x.leader[b] # Null PROVE x.party[x.leader[b]] = b
      <4>1. CASE b = a
        <5>1. x.leader[b] = next /\ next \in Members(w, a) /\ next # p /\ next \in Player
          BY <4>1, <3>1, <1>0, <1>1, <1>2, <1>6, <1>7, <1>8
        <5> QED BY <5>1, <4>1, <1>6 DEF Members
      <4>2. CASE b # a
        <5>1. x.leader[b] = w.leader[b] /\ w.leader[b] \in Player /\ w.party[w.leader[b]] = b
          BY <4>2, <3>1, <1>6, <1>7
        <5> QED BY <5>1, <4>2, <1>6
      <4> QED BY <4>1, <4>2
    <3> QED BY <3>1 DEF Leaders
  <2>2. PartyLeft(w, x, p, {p})
    BY <2>1, <1>0, <1>6 DEF PartyLeft
  <2> QED BY <2>2, <1>3, <1>8
<1>9. CASE ends
  <2>. DEFINE P == Members(x, a) \cup {x.leader[a]}
              y == OutOfParty(x, P)
              z == [y EXCEPT !.leader[a] = Null]
  <2>1. Disband(x, a) = z
    BY DEF Disband
  <2>2. OutOf(x, y, P)
    BY <1>6, OutLeaves
  <2>3. \A q \in Player : q \in Members(w, a) <=> q = p \/ q \in P
    <3>1. x.leader[a] = next
      BY <1>0, <1>6, <1>7
    <3>2. \A q \in Player : q \in Members(x, a) <=> q # p /\ q \in Members(w, a)
      BY <1>0, <1>6 DEF Members
    <3> QED BY <3>1, <3>2, <1>0, <1>1
  <2>. HIDE DEF P, y
  <2>4. /\ z \in AnyCompany /\ SameRest(y, z) /\ SameSlots(y, z) /\ z.users = y.users /\ z.party = y.party
        /\ z.windows = y.windows /\ z.leader = [y.leader EXCEPT ![a] = Null]
    <3>1. y \in AnyCompany
      BY <2>2 DEF OutOf
    <3> QED BY <3>1, <1>0 DEF AnyCompany, SameRest, SameSlots
  <2>. HIDE DEF z
  <2>5. /\ SameRest(w, z) /\ SameSlots(w, z) /\ z.users = w.users
        /\ z.leader = [[w.leader EXCEPT ![a] = next] EXCEPT ![a] = Null]
    BY <2>2, <2>4, <1>6 DEF OutOf, SameRest, SameSlots
  <2>6. /\ \A q \in Player : z.party[q] = IF q \in Members(w, a) THEN Null ELSE w.party[q]
        /\ \A q \in Player : z.windows[q] = IF q \in Members(w, a) THEN w.windows[q] \ {"party"} ELSE w.windows[q]
    <3>1. ASSUME NEW q \in Player
          PROVE  /\ z.party[q] = IF q \in Members(w, a) THEN Null ELSE w.party[q]
                 /\ z.windows[q] = IF q \in Members(w, a) THEN w.windows[q] \ {"party"} ELSE w.windows[q]
      <4>1. /\ z.party[q] = IF q \in P THEN Null ELSE x.party[q]
            /\ z.windows[q] = IF q \in P THEN x.windows[q] \ {"party"} ELSE x.windows[q]
        BY <2>2, <2>4 DEF OutOf
      <4> QED BY <4>1, <2>3, <1>6
    <3> QED BY <3>1
  <2>7. Leaders(z) /\ z.leader[a] = Null
    <3>1. ASSUME NEW b \in Address, z.leader[b] # Null PROVE z.party[z.leader[b]] = b
      <4>1. b # a /\ z.leader[b] = w.leader[b] /\ w.leader[b] \in Player /\ w.party[w.leader[b]] = b
        BY <3>1, <2>5, <1>7, <1>0
      <4> QED BY <4>1, <2>6 DEF Members
    <3>2. z.leader[a] = Null
      BY <2>5, <1>0, <1>7
    <3> QED BY <3>1, <3>2 DEF Leaders
  <2>8. PartyLeft(w, z, p, Members(w, a))
    BY <2>4, <2>5, <2>6, <2>7, <1>0 DEF PartyLeft
  <2> QED BY <2>1, <2>8, <1>0, <1>3, <1>9
<1> QED BY <1>8, <1>9

LEMMA PartyLeftKeeps ==
  ASSUME NEW w, NEW v, NEW h, NEW k, NEW p \in Player, NEW G, PartyLeft(w, v, p, G),
         NEW q \in Player, q \in G => <<q, "party">> \in k.left,
         \A id : <<q, id>> \in h.left => <<q, id>> \in k.left,
         \A id : <<q, id>> \in h.dropped => <<q, id>> \in k.dropped
  PROVE  /\ Matches(w, h, q) => Matches(v, k, q)
         /\ Reasons(w, h, q) => Reasons(v, k, q)
<1>1. /\ v.users = w.users /\ v.made = w.made /\ v.guild = w.guild /\ v.may = w.may
      /\ v.party[q] = IF q \in G THEN Null ELSE w.party[q]
      /\ v.windows[q] = IF q \in G THEN w.windows[q] \ {"party"} ELSE w.windows[q]
  BY DEF PartyLeft, SameRest, SameSlots
<1>2. ASSUME Matches(w, h, q) PROVE Matches(v, k, q)
  BY <1>1, <1>2 DEF Matches
<1>3. ASSUME Reasons(w, h, q) PROVE Reasons(v, k, q)
  BY <1>1, <1>3 DEF Reasons
<1> QED BY <1>2, <1>3

\* A step that is about channels only.
LEMMA TalkStep ==
  ASSUME NEW w, NEW h, Good(w, h), NEW v \in AnyCompany, NEW k \in AnyPast,
         SameRest(w, v), SameParties(w, v), k.slipped = h.slipped, k.copied = h.copied,
         Slots(v), \A c \in Channel : v.users[c] \subseteq w.on, \A i \in Private : v.invites[i] \subseteq w.on,
         \A p \in Player : p \notin w.linked => v.windows[p] = {},
         \A p \in Player : Reasons(v, k, p), \A p \in w.linked : Matches(v, k, p)
  PROVE  Good(v, k)
<1>1. Present(v)
  BY DEF Good, Present, SameRest
<1>2. Guilds(v, k)
  BY DEF Good, Guilds, SameRest
<1>3. Leaders(v)
  BY DEF Good, Leaders, SameParties
<1>4. Buddies(v)
  BY DEF Good, Buddies, SameRest, Visible
<1> QED BY <1>1, <1>2, <1>3, <1>4 DEF Good, SameRest

\* A step that leaves the channels as they are.
SameTalk(w, v) ==
  /\ v.users = w.users /\ SameSlots(w, v) /\ v.windows = w.windows /\ v.may = w.may
  /\ SameParties(w, v)

LEMMA OtherStep ==
  ASSUME NEW w, NEW h, Good(w, h), NEW v \in AnyCompany, NEW k \in AnyPast,
         SameTalk(w, v), v.guild = w.guild, v.on = w.on, k.left = h.left, k.dropped = h.dropped
  PROVE  /\ Slots(v) /\ (\A p \in Player : Reasons(v, k, p)) /\ Leaders(v)
         /\ \A p \in Player : Matches(w, h, p) => Matches(v, k, p)
         /\ v.linked = w.linked /\ v.ghost \subseteq w.on => Present(v)
<1>1. Slots(v)
  BY DEF Good, Slots, SameTalk, SameSlots
<1>2. \A p \in Player : Reasons(v, k, p)
  BY DEF Good, Reasons, SameTalk, SameSlots, SameParties
<1>3. Leaders(v)
  BY DEF Good, Leaders, SameTalk, SameParties
<1>4. \A p \in Player : Matches(w, h, p) => Matches(v, k, p)
  BY DEF Matches, SameTalk
<1>5. v.linked = w.linked /\ v.ghost \subseteq w.on => Present(v)
  BY DEF Good, Present, SameTalk, SameSlots
<1> QED BY <1>1, <1>2, <1>3, <1>4, <1>5

-----------------------------------------------------------------------------
(* One lemma for each step *)

LEMMA RequestChannelsKeeps ==
  ASSUME CompanyInv, NEW p \in Player, RequestChannels(p)
  PROVE  CompanyInv'
<1>. DEFINE v == [state EXCEPT !.made = @ \cup ({state.guild[p], state.party[p]} \ {Null})]
<1>1. state' = v /\ past' = past
  BY DEF RequestChannels, Makes
<1>2. /\ SameRest(state, v) /\ SameParties(state, v) /\ v.users = state.users /\ v.windows = state.windows
      /\ v.owner = state.owner /\ v.invites = state.invites
      /\ v.made = state.made \cup ({state.guild[p], state.party[p]} \ {Null})
  BY DEF CompanyInv, Good, AnyCompany, SameRest, SameParties
<1>3. state.guild[p] \in Guild \cup {Null} /\ state.party[p] \in Address \cup {Null}
  BY DEF CompanyInv, Good, AnyCompany
<1>4. v \in AnyCompany
  <2>. DEFINE N == {state.guild[p], state.party[p]} \ {Null}
  <2>1. N \subseteq Channel
    BY <1>3, ChannelKinds
  <2>2. v = [state EXCEPT !.made = @ \cup N]
    OBVIOUS
  <2>. HIDE DEF N, v
  <2>3. v.made \in SUBSET Channel
    BY <1>2, <2>1, <2>2 DEF CompanyInv, Good, AnyCompany
  <2> QED BY <2>2, <2>3 DEF CompanyInv, Good, AnyCompany
<1>. HIDE DEF v
<1>5. \A i \in Private : i \in v.made <=> i \in state.made
  BY <1>2, <1>3, ChannelKinds
<1>6. Slots(v)
  BY <1>2, <1>5 DEF CompanyInv, Good, Slots
<1>7. \A q \in Player : Reasons(v, past, q)
  BY <1>2 DEF CompanyInv, Good, Reasons, SameRest, SameParties
<1>8. \A q \in state.linked : Matches(v, past, q)
  BY <1>2 DEF CompanyInv, Good, Matches
<1>9. Good(v, past)
  BY <1>2, <1>4, <1>6, <1>7, <1>8, TalkStep DEF CompanyInv, Good, Present
<1> QED BY <1>1, <1>9 DEF CompanyInv

Added(w, v, p, c) ==
  /\ v \in AnyCompany /\ SameRest(w, v) /\ SameParties(w, v) /\ SameSlots(w, v)
  /\ v.users = [w.users EXCEPT ![c] = @ \cup {p}]
  /\ v.windows = [w.windows EXCEPT ![p] = @ \cup {Id(c)}]

LEMMA AddUserAdds ==
  ASSUME NEW w \in AnyCompany, NEW p \in w.linked, NEW c \in Channel
  PROVE  Added(w, AddUser(w, p, c), p, c)
<1>1. p \in Player /\ Id(c) \in Ids
  BY IdFacts DEF AnyCompany
<1>2. {x \in {Id(c)} : p \in w.linked} = {Id(c)}
  OBVIOUS
<1>. DEFINE u == [w EXCEPT !.users[c] = @ \cup {p}]
            v == [u EXCEPT !.windows[p] = @ \cup {Id(c)}]
<1>3. AddUser(w, p, c) = v
  <2>1. u.linked = w.linked
    BY DEF AnyCompany
  <2> QED BY <1>2, <2>1 DEF AddUser, Shows
<1>. HIDE DEF Id
<1>4. v \in AnyCompany
  <2>1. w.users \in [Channel -> SUBSET Player] /\ w.windows \in [Player -> SUBSET Ids]
    BY DEF AnyCompany
  <2>2. [w.users EXCEPT ![c] = @ \cup {p}] \in [Channel -> SUBSET Player]
    BY <1>1, <2>1
  <2>3. [w.windows EXCEPT ![p] = @ \cup {Id(c)}] \in [Player -> SUBSET Ids]
    BY <1>1, <2>1
  <2>4. v = [w EXCEPT !.users = [w.users EXCEPT ![c] = @ \cup {p}],
                      !.windows = [w.windows EXCEPT ![p] = @ \cup {Id(c)}]]
    BY DEF AnyCompany
  <2> QED BY <2>2, <2>3, <2>4 DEF AnyCompany
<1>5. SameRest(w, v) /\ SameParties(w, v) /\ SameSlots(w, v)
  BY DEF AnyCompany, SameRest, SameParties, SameSlots
<1>6. v.users = [w.users EXCEPT ![c] = @ \cup {p}] /\ v.windows = [w.windows EXCEPT ![p] = @ \cup {Id(c)}]
  BY DEF AnyCompany
<1> QED BY <1>3, <1>4, <1>5, <1>6 DEF Added

LEMMA AddUserMatches ==
  ASSUME NEW w \in AnyCompany, NEW h, NEW v, NEW p \in Player, NEW c \in Channel, NEW q \in Player,
         v.users = [w.users EXCEPT ![c] = @ \cup {p}],
         v.windows = [w.windows EXCEPT ![p] = @ \cup {Id(c)}],
         Matches(w, h, q)
  PROVE  Matches(v, h, q)
<1>. HIDE DEF Id
<1>1. /\ \A d \in Channel : v.users[d] = IF d = c THEN w.users[d] \cup {p} ELSE w.users[d]
      /\ v.windows[q] = IF q = p THEN w.windows[q] \cup {Id(c)} ELSE w.windows[q]
  BY DEF AnyCompany
<1>2. ASSUME NEW id \in v.windows[q], <<q, id>> \notin h.dropped
      PROVE  \E d \in Channel : Id(d) = id /\ q \in v.users[d]
  <2>1. CASE id \in w.windows[q]
    BY <1>1, <1>2, <2>1 DEF Matches
  <2>2. CASE id \notin w.windows[q]
    BY <1>1, <1>2, <2>2
  <2> QED BY <2>1, <2>2
<1>3. ASSUME NEW d \in Channel, q \in v.users[d] PROVE Id(d) \in v.windows[q] \/ <<q, Id(d)>> \in h.left
  <2>1. CASE q \in w.users[d]
    BY <1>1, <2>1 DEF Matches
  <2>2. CASE q \notin w.users[d]
    BY <1>1, <1>3, <2>2
  <2> QED BY <2>1, <2>2
<1> QED BY <1>2, <1>3 DEF Matches

LEMMA OpenChannelKeeps ==
  ASSUME CompanyInv, NEW p \in Player, NEW c \in Channel, OpenChannel(p, c)
  PROVE  CompanyInv'
<1>. DEFINE v == AddUser(state, p, c)
<1>1. state' = v /\ past' = past /\ p \in state.linked /\ c \in GetChannel(state, p, Id(c))
  BY DEF OpenChannel, Makes
<1>2. state \in AnyCompany /\ past \in AnyPast
  BY DEF CompanyInv, Good
<1>3. /\ v \in AnyCompany /\ SameRest(state, v) /\ SameParties(state, v) /\ SameSlots(state, v)
      /\ v.users = [state.users EXCEPT ![c] = @ \cup {p}]
      /\ v.windows = [state.windows EXCEPT ![p] = @ \cup {Id(c)}]
  BY <1>1, <1>2, AddUserAdds DEF Added
<1>. HIDE DEF v
<1>4. Admits(state, p, c)
  BY <1>1, <1>2, Admitted, IdFacts
<1>. HIDE DEF Id
<1>5. /\ \A d \in Channel : v.users[d] = IF d = c THEN state.users[d] \cup {p} ELSE state.users[d]
      /\ \A q \in Player : q # p => v.windows[q] = state.windows[q]
  BY <1>2, <1>3 DEF AnyCompany
<1>6. Slots(v)
  BY <1>3, <1>4, <1>5, ChannelKinds DEF CompanyInv, Good, Slots, SameSlots, Admits
<1>7. \A q \in Player : Reasons(v, past, q)
  BY <1>3, <1>4, <1>5, ChannelKinds DEF CompanyInv, Good, Reasons, SameRest, SameParties, SameSlots, Admits
<1>8. \A q \in state.linked : Matches(v, past, q)
  <2>1. state.linked \subseteq Player /\ \A q \in state.linked : Matches(state, past, q)
    BY <1>2 DEF CompanyInv, Good, AnyCompany
  <2> QED BY <1>2, <1>3, <2>1, AddUserMatches
<1>9. /\ \A d \in Channel : v.users[d] \subseteq state.on
      /\ \A i \in Private : v.invites[i] \subseteq state.on
      /\ \A q \in Player : q \notin state.linked => v.windows[q] = {}
  BY <1>1, <1>3, <1>5 DEF CompanyInv, Good, Present, SameSlots
<1>10. Good(v, past)
  BY <1>2, <1>3, <1>6, <1>7, <1>8, <1>9, TalkStep DEF CompanyInv
<1> QED BY <1>1, <1>10 DEF CompanyInv

LEMMA CreatePrivateChannelKeeps ==
  ASSUME CompanyInv, NEW p \in Player, NEW i \in Private, CreatePrivateChannel(p, i)
  PROVE  CompanyInv'
<1>. DEFINE u == [state EXCEPT !.made = @ \cup {i}, !.owner[i] = p]
            v == AddUser(u, p, i)
<1>1. /\ state' = v /\ past' = past /\ p \in state.linked /\ i \notin state.made
      /\ \A j \in Private : state.owner[j] # p
  BY DEF CreatePrivateChannel, Makes
<1>2. state \in AnyCompany /\ past \in AnyPast /\ i \in Channel /\ Id(i) = i
  BY ChannelKinds, IdFacts DEF CompanyInv, Good
<1>3. /\ u \in AnyCompany /\ SameRest(state, u) /\ SameParties(state, u) /\ u.users = state.users
      /\ u.windows = state.windows /\ u.invites = state.invites
      /\ u.made = state.made \cup {i} /\ u.owner = [state.owner EXCEPT ![i] = p]
  BY <1>2 DEF AnyCompany, SameRest, SameParties
<1>. HIDE DEF u
<1>4. Added(u, v, p, i)
  BY <1>1, <1>2, <1>3, AddUserAdds DEF SameRest
<1>. HIDE DEF v, Id
<1>5. /\ v \in AnyCompany /\ SameRest(state, v) /\ SameParties(state, v)
      /\ v.users = [state.users EXCEPT ![i] = @ \cup {p}] /\ v.invites = state.invites
      /\ v.made = state.made \cup {i} /\ v.owner = [state.owner EXCEPT ![i] = p]
      /\ v.windows = [state.windows EXCEPT ![p] = @ \cup {Id(i)}]
  BY <1>3, <1>4 DEF Added, SameRest, SameParties, SameSlots
<1>6. /\ \A d \in Channel : v.users[d] = IF d = i THEN state.users[d] \cup {p} ELSE state.users[d]
      /\ \A q \in Player : q # p => v.windows[q] = state.windows[q]
      /\ \A j \in Private : v.owner[j] = IF j = i THEN p ELSE state.owner[j]
  <2>1. /\ state.users \in [Channel -> SUBSET Player] /\ state.owner \in [Private -> Player \cup {Null}]
        /\ state.windows \in [Player -> SUBSET Ids]
    BY <1>2 DEF AnyCompany
  <2>2. \A d \in Channel : v.users[d] = IF d = i THEN state.users[d] \cup {p} ELSE state.users[d]
    BY <1>5, <2>1
  <2>3. \A q \in Player : q # p => v.windows[q] = state.windows[q]
    BY <1>5, <2>1
  <2>4. \A j \in Private : v.owner[j] = IF j = i THEN p ELSE state.owner[j]
    BY <1>5, <2>1
  <2> QED BY <2>2, <2>3, <2>4
<1>7. Slots(v)
  <2>1. state.owner[i] = Null /\ state.invites[i] = {}
    BY <1>1 DEF CompanyInv, Good, Slots
  <2>2. state.users[i] = {}
    <3>1. state.users[i] \subseteq {Null} /\ state.users[i] \subseteq Player
      BY <1>2, <2>1 DEF CompanyInv, Good, Slots, AnyCompany
    <3> QED BY <3>1, ChannelKinds
  <2>3. ASSUME NEW j \in Private
        PROVE  /\ j \in v.made <=> v.owner[j] # Null
               /\ v.users[j] \subseteq v.invites[j] \cup {v.owner[j]}
               /\ v.owner[j] # Null => v.owner[j] \in v.users[j]
               /\ v.owner[j] = Null => v.invites[j] = {}
               /\ v.owner[j] \notin v.invites[j]
               /\ \A l \in Private : v.owner[j] # Null /\ v.owner[l] = v.owner[j] => j = l
    <3>1. CASE j = i
      BY <3>1, <2>1, <2>2, <1>1, <1>5, <1>6, ChannelKinds
    <3>2. CASE j # i
      <4>1. v.users[j] = state.users[j] /\ v.owner[j] = state.owner[j]
        BY <3>2, <1>6, ChannelKinds
      <4>2. j \in v.made <=> j \in state.made
        BY <3>2, <1>5
      <4>3. \A l \in Private : v.owner[j] # Null /\ v.owner[l] = v.owner[j] => j = l
        <5>1. \A l \in Private : state.owner[j] # Null /\ state.owner[l] = state.owner[j] => j = l
          BY DEF CompanyInv, Good, Slots
        <5> QED BY <4>1, <5>1, <1>1, <1>6
      <4> QED BY <4>1, <4>2, <4>3, <1>5 DEF CompanyInv, Good, Slots
    <3> QED BY <3>1, <3>2
  <2> QED BY <2>3 DEF Slots
<1>8. \A q \in Player : Reasons(v, past, q)
  BY <1>5, <1>6, ChannelKinds DEF CompanyInv, Good, Reasons, SameRest, SameParties
<1>9. \A q \in state.linked : Matches(v, past, q)
  <2>1. state.linked \subseteq Player /\ \A q \in state.linked : Matches(state, past, q)
    BY <1>2 DEF CompanyInv, Good, AnyCompany
  <2> QED BY <1>2, <1>5, <2>1, AddUserMatches
<1>10. /\ \A d \in Channel : v.users[d] \subseteq state.on
       /\ \A j \in Private : v.invites[j] \subseteq state.on
       /\ \A q \in Player : q \notin state.linked => v.windows[q] = {}
  BY <1>1, <1>5, <1>6 DEF CompanyInv, Good, Present
<1>11. Good(v, past)
  BY <1>2, <1>5, <1>7, <1>8, <1>9, <1>10, TalkStep DEF CompanyInv
<1> QED BY <1>1, <1>11 DEF CompanyInv

LEMMA CloseChannelKeeps ==
  ASSUME CompanyInv, NEW p \in Player, NEW id \in Ids, CloseChannel(p, id)
  PROVE  CompanyInv'
<1>. DEFINE u == Hides(state, {p}, id)
            x == RemoveUsers(u, {p}, id)
            I == {i \in Owned(u, p) \cap {id} : p \in u.users[i]}
            v == DeleteChannels(x, I)
<1>1. state' = v /\ past' = past
  BY DEF CloseChannel, Makes, RemoveUserFromChannel
<1>2. state \in AnyCompany /\ past \in AnyPast /\ Private \subseteq Channel
  BY ChannelKinds DEF CompanyInv, Good
<1>3. Hidden(state, u, {p}, id)
  BY <1>2, HidesHidden
<1>. HIDE DEF u
<1>4. Removed(u, x, {p}, id)
  BY <1>3, RemoveRemoves DEF Hidden
<1>. HIDE DEF x
<1>5. I \in SUBSET Private /\ (\A i \in Private : i \in I <=> i = id /\ state.owner[i] = p /\ p \in state.users[i])
  BY <1>3 DEF Owned, Hidden, SameSlots
<1>. HIDE DEF I
<1>6. Deleted(x, v, I)
  BY <1>4, <1>5, DeleteDeletes DEF Removed
<1>. HIDE DEF v
<1>7. /\ v \in AnyCompany /\ SameRest(state, v) /\ SameParties(state, v) /\ v.made = state.made \ I
  BY <1>3, <1>4, <1>6 DEF Hidden, Removed, Deleted, SameRest, SameParties, SameSlots
<1>8. \A i \in Private : /\ v.owner[i] = IF i \in I THEN Null ELSE state.owner[i]
                         /\ v.invites[i] = IF i \in I THEN {} ELSE state.invites[i]
  BY <1>3, <1>4, <1>6 DEF Hidden, Removed, Deleted, SameSlots
<1>9. \A c \in Channel : x.users[c] = {q \in state.users[c] : ~(q = p /\ Id(c) = id /\ Admits(state, q, c))}
  <2>1. \A q \in Player, c \in Channel : Admits(u, q, c) <=> Admits(state, q, c)
    BY <1>3 DEF Hidden, SameRest, SameParties, SameSlots, Admits
  <2>2. \A c \in Channel : u.users[c] = state.users[c] /\ state.users[c] \subseteq Player
    BY <1>2, <1>3 DEF Hidden, AnyCompany
  <2>3. \A c \in Channel : x.users[c] = {q \in u.users[c] : ~(q \in {p} /\ Id(c) = id /\ Admits(u, q, c))}
    BY <1>4 DEF Removed
  <2>4. ASSUME NEW c \in Channel
        PROVE  x.users[c] = {q \in state.users[c] : ~(q = p /\ Id(c) = id /\ Admits(state, q, c))}
    <3>. HIDE DEF Id
    <3> QED BY <2>1, <2>2, <2>3
  <2> QED BY <2>4
<1>. HIDE DEF Id
<1>10. \A c \in Channel : v.users[c] = IF c \in I THEN {} ELSE x.users[c]
  BY <1>6 DEF Deleted
<1>11. /\ \A q \in Player \ {p} : x.windows[q] = state.windows[q]
       /\ x.windows[p] = state.windows[p] \ {id}
       /\ \A q \in Player : v.windows[q] = x.windows[q] \ {i \in I : q \in x.users[i]}
  BY <1>3, <1>4, <1>6 DEF Hidden, Removed, Deleted
<1>12. \A c \in Channel : v.users[c] \subseteq state.users[c]
  BY <1>9, <1>10
<1>13. Slots(v)
  <2>1. ASSUME NEW i \in Private
        PROVE  /\ i \in v.made <=> v.owner[i] # Null
               /\ v.users[i] \subseteq v.invites[i] \cup {v.owner[i]}
               /\ v.owner[i] # Null => v.owner[i] \in v.users[i]
               /\ v.owner[i] = Null => v.invites[i] = {}
               /\ v.owner[i] \notin v.invites[i]
    <3>1. CASE i \in I
      BY <3>1, <1>2, <1>7, <1>8, <1>10
    <3>2. CASE i \notin I
      <4>1. v.owner[i] = state.owner[i] /\ v.invites[i] = state.invites[i] /\ (i \in v.made <=> i \in state.made)
        BY <3>2, <1>7, <1>8
      <4>2. /\ i \in state.made <=> state.owner[i] # Null
            /\ state.users[i] \subseteq state.invites[i] \cup {state.owner[i]}
            /\ state.owner[i] # Null => state.owner[i] \in state.users[i]
            /\ state.owner[i] = Null => state.invites[i] = {}
            /\ state.owner[i] \notin state.invites[i]
        BY DEF CompanyInv, Good, Slots
      <4>3. v.owner[i] # Null => v.owner[i] \in v.users[i]
        <5>1. ASSUME v.owner[i] = p, Id(i) = id PROVE v.owner[i] = Null
          <6>1. i = id
            BY <5>1, IdFacts
          <6> QED BY <6>1, <5>1, <4>1, <4>2, <3>2, <1>5
        <5> QED BY <5>1, <4>1, <4>2, <3>2, <1>2, <1>9, <1>10
      <4> QED BY <4>1, <4>2, <4>3, <1>2, <1>12
    <3> QED BY <3>1, <3>2
  <2>2. \A i, j \in Private : v.owner[i] # Null /\ v.owner[j] = v.owner[i] => i = j
    BY <1>8 DEF CompanyInv, Good, Slots
  <2> QED BY <2>1, <2>2 DEF Slots
<1>14. \A q \in Player : Reasons(v, past, q)
  <2>1. \A c \in Address \cup Guild : c \in state.made => c \in v.made
    BY <1>5, <1>7, ChannelKinds
  <2> QED BY <2>1, <1>7, <1>12, ChannelKinds DEF CompanyInv, Good, Reasons, SameRest, SameParties
<1>15. ASSUME NEW q \in state.linked PROVE Matches(v, past, q)
  <2>1. q \in Player /\ Matches(state, past, q)
    BY <1>2 DEF CompanyInv, Good, AnyCompany
  <2>2. Matches(x, past, q)
    <3>1. CASE q # p
      <4>1. \A c \in Channel : q \in x.users[c] <=> q \in state.users[c]
        BY <3>1, <1>9
      <4> QED BY <4>1, <3>1, <2>1, <1>11 DEF Matches
    <3>2. CASE q = p
      <4>1. ASSUME NEW d \in x.windows[p], <<p, d>> \notin past.dropped
            PROVE  \E c \in Channel : Id(c) = d /\ p \in x.users[c]
        <5>1. d \in state.windows[p] /\ d # id
          BY <1>11, <4>1
        <5>2. PICK c \in Channel : Id(c) = d /\ p \in state.users[c]
          BY <5>1, <4>1, <3>2, <2>1 DEF Matches
        <5> QED BY <5>1, <5>2, <1>9
      <4>2. ASSUME NEW c \in Channel, p \in x.users[c] PROVE Id(c) \in x.windows[p] \/ <<p, Id(c)>> \in past.left
        <5>1. p \in state.users[c] /\ ~(Id(c) = id /\ Admits(state, p, c))
          BY <4>2, <1>9
        <5>2. CASE Id(c) # id
          BY <5>1, <5>2, <3>2, <2>1, <1>11 DEF Matches
        <5>3. CASE ~Admits(state, p, c)
          <6>1. c \in Private => Admits(state, p, c)
            <7>1. ASSUME c \in Private PROVE c \in state.made /\ (state.owner[c] = p \/ p \in state.invites[c])
              BY <7>1, <5>1, ChannelKinds DEF CompanyInv, Good, Slots
            <7> QED BY <7>1, ChannelKinds DEF Admits
          <6>2. Reasons(state, past, p)
            BY DEF CompanyInv, Good
          <6>3. CASE c \in Address
            <7>1. state.party[p] = c /\ c \in state.made => Admits(state, p, c)
              BY <6>3, ChannelKinds DEF Admits
            <7> QED BY <7>1, <6>2, <6>3, <5>1, <5>3, IdFacts DEF Reasons
          <6>4. CASE c \in Guild
            <7>1. state.guild[p] = c /\ c \in state.made => Admits(state, p, c)
              BY <6>4, ChannelKinds DEF Admits
            <7> QED BY <7>1, <6>2, <6>4, <5>1, <5>3, IdFacts DEF Reasons
          <6>5. CASE c \in Normal
            <7>1. p \in state.may => Admits(state, p, c)
              BY <6>5, ChannelKinds DEF Admits
            <7> QED BY <7>1, <6>2, <6>5, <5>1, <5>3, IdFacts DEF Reasons
          <6> QED BY <6>1, <6>3, <6>4, <6>5, <5>3 DEF Channel
        <5> QED BY <5>1, <5>2, <5>3
      <4> QED BY <4>1, <4>2, <3>2 DEF Matches
    <3> QED BY <3>1, <3>2
  <2>3. \A c \in Channel : v.users[c] \cap {q} = IF c \in I THEN {} ELSE x.users[c] \cap {q}
    BY <1>10
  <2>4. x \in AnyCompany
    BY <1>4 DEF Removed
  <2> QED BY <2>1, <2>2, <2>3, <2>4, <1>5, <1>11, DeletedMatch
<1>16. /\ \A c \in Channel : v.users[c] \subseteq state.on
       /\ \A i \in Private : v.invites[i] \subseteq state.on
       /\ \A q \in Player : q \notin state.linked => v.windows[q] = {}
  BY <1>8, <1>11, <1>12 DEF CompanyInv, Good, Present
<1>17. Good(v, past)
  BY <1>2, <1>7, <1>13, <1>14, <1>15, <1>16, TalkStep DEF CompanyInv
<1> QED BY <1>1, <1>17 DEF CompanyInv

LEMMA ChannelInviteKeeps ==
  ASSUME CompanyInv, NEW p \in Player, NEW i \in Private, NEW q \in Player, ChannelInvite(p, i, q)
  PROVE  CompanyInv'
<1>. DEFINE v == [state EXCEPT !.invites[i] = @ \cup {q}]
<1>1. state' = v /\ past' = past /\ state.owner[i] = p /\ q \in state.on \ {p}
  BY DEF ChannelInvite, Makes
<1>2. state \in AnyCompany /\ past \in AnyPast
  BY DEF CompanyInv, Good
<1>3. /\ v \in AnyCompany /\ SameRest(state, v) /\ SameParties(state, v) /\ v.users = state.users
      /\ v.windows = state.windows /\ v.made = state.made /\ v.owner = state.owner
      /\ v.invites = [state.invites EXCEPT ![i] = @ \cup {q}]
  BY <1>2 DEF AnyCompany, SameRest, SameParties
<1>. HIDE DEF v
<1>4. \A j \in Private : v.invites[j] = IF j = i THEN state.invites[j] \cup {q} ELSE state.invites[j]
  BY <1>2, <1>3 DEF AnyCompany
<1>5. Slots(v)
  BY <1>1, <1>3, <1>4, ChannelKinds DEF CompanyInv, Good, Slots
<1>6. \A r \in Player : Reasons(v, past, r)
  BY <1>3 DEF CompanyInv, Good, Reasons, SameRest, SameParties
<1>7. \A r \in state.linked : Matches(v, past, r)
  BY <1>3 DEF CompanyInv, Good, Matches
<1>8. /\ \A c \in Channel : v.users[c] \subseteq state.on
      /\ \A j \in Private : v.invites[j] \subseteq state.on
      /\ \A r \in Player : r \notin state.linked => v.windows[r] = {}
  BY <1>1, <1>3, <1>4 DEF CompanyInv, Good, Present
<1>9. Good(v, past)
  BY <1>2, <1>3, <1>5, <1>6, <1>7, <1>8, TalkStep DEF CompanyInv
<1> QED BY <1>1, <1>9 DEF CompanyInv

LEMMA ChannelExcludeKeeps ==
  ASSUME CompanyInv, NEW p \in Player, NEW i \in Private, NEW q \in Player, ChannelExclude(p, i, q)
  PROVE  CompanyInv'
<1>. DEFINE u == [state EXCEPT !.invites[i] = @ \ {q}, !.users[i] = @ \ {q}]
            v == Hides(u, {q}, i)
<1>1. state' = v /\ past' = past /\ state.owner[i] = p /\ q \in state.invites[i]
  BY DEF ChannelExclude, Makes, SendClosePrivate
<1>2. state \in AnyCompany /\ past \in AnyPast /\ Private \subseteq Channel /\ Id(i) = i
  BY ChannelKinds, IdFacts DEF CompanyInv, Good
<1>3. /\ u \in AnyCompany /\ SameRest(state, u) /\ SameParties(state, u)
      /\ u.users = [state.users EXCEPT ![i] = @ \ {q}]
      /\ u.windows = state.windows /\ u.made = state.made /\ u.owner = state.owner
      /\ u.invites = [state.invites EXCEPT ![i] = @ \ {q}]
  BY <1>2 DEF AnyCompany, SameRest, SameParties
<1>. HIDE DEF u
<1>4. Hidden(u, v, {q}, i)
  BY <1>3, HidesHidden
<1>. HIDE DEF v, Id
<1>5. /\ v \in AnyCompany /\ SameRest(state, v) /\ SameParties(state, v)
      /\ v.made = state.made /\ v.owner = state.owner
  BY <1>3, <1>4 DEF Hidden, SameRest, SameParties, SameSlots
<1>6. \A c \in Channel : v.users[c] = IF c = i THEN state.users[c] \ {q} ELSE state.users[c]
  <2>1. v.users = [state.users EXCEPT ![i] = @ \ {q}]
    BY <1>3, <1>4 DEF Hidden
  <2>2. state.users \in [Channel -> SUBSET Player] /\ i \in Channel
    BY <1>2 DEF AnyCompany
  <2> QED BY <2>1, <2>2
<1>7. \A j \in Private : v.invites[j] = IF j = i THEN state.invites[j] \ {q} ELSE state.invites[j]
  <2>1. v.invites = [state.invites EXCEPT ![i] = @ \ {q}]
    BY <1>3, <1>4 DEF Hidden, SameSlots
  <2>2. state.invites \in [Private -> SUBSET Player]
    BY <1>2 DEF AnyCompany
  <2> QED BY <2>1, <2>2
<1>8. \A r \in Player : v.windows[r] = IF r = q THEN state.windows[r] \ {i} ELSE state.windows[r]
  BY <1>3, <1>4 DEF Hidden
<1>9. Slots(v)
  <2>1. q # state.owner[i]
    BY <1>1 DEF CompanyInv, Good, Slots
  <2>2. Slots(state)
    BY DEF CompanyInv, Good
  <2>3. ASSUME NEW j \in Private
        PROVE  /\ v.users[j] \subseteq v.invites[j] \cup {v.owner[j]}
               /\ v.owner[j] # Null => v.owner[j] \in v.users[j]
    <3>1. CASE j = i
      <4>1. v.users[i] = state.users[i] \ {q} /\ v.invites[i] = state.invites[i] \ {q} /\ v.owner[i] = state.owner[i]
        BY <1>2, <1>5, <1>6, <1>7
      <4>2. /\ state.users[i] \subseteq state.invites[i] \cup {state.owner[i]}
            /\ state.owner[i] # Null => state.owner[i] \in state.users[i]
        BY <2>2 DEF Slots
      <4> QED BY <4>1, <4>2, <3>1, <2>1
    <3>2. CASE j # i
      <4>1. v.users[j] = state.users[j] /\ v.invites[j] = state.invites[j]
        BY <3>2, <1>2, <1>6, <1>7
      <4> QED BY <4>1, <2>2, <1>5 DEF Slots
    <3> QED BY <3>1, <3>2
  <2>4. \A j \in Private : v.invites[j] \subseteq state.invites[j]
    BY <1>7
  <2>5. \A j \in Private : /\ j \in v.made <=> v.owner[j] # Null
                           /\ v.owner[j] = Null => v.invites[j] = {}
                           /\ v.owner[j] \notin v.invites[j]
    BY <2>2, <2>4, <1>5 DEF Slots
  <2>6. \A j, l \in Private : v.owner[j] # Null /\ v.owner[l] = v.owner[j] => j = l
    BY <2>2, <1>5 DEF Slots
  <2>7. \A j \in Private : /\ v.users[j] \subseteq v.invites[j] \cup {v.owner[j]}
                           /\ v.owner[j] # Null => v.owner[j] \in v.users[j]
    BY <2>3
  <2> QED BY <2>5, <2>6, <2>7 DEF Slots
<1>10. \A r \in Player : Reasons(v, past, r)
  <2>1. \A c \in Address \cup Guild \cup Normal : v.users[c] = state.users[c]
    BY <1>6, ChannelKinds
  <2>2. \A r \in Player : Reasons(state, past, r)
    BY DEF CompanyInv, Good
  <2> QED BY <2>1, <2>2, <1>5 DEF Reasons, SameRest, SameParties
<1>11. ASSUME NEW r \in state.linked PROVE Matches(v, past, r)
  <2>1. r \in Player /\ Matches(state, past, r)
    BY <1>2 DEF CompanyInv, Good, AnyCompany
  <2>2. ASSUME NEW d \in v.windows[r], <<r, d>> \notin past.dropped
        PROVE  \E c \in Channel : Id(c) = d /\ r \in v.users[c]
    <3>1. PICK c \in Channel : Id(c) = d /\ r \in state.users[c]
      BY <2>1, <2>2, <1>8 DEF Matches
    <3>2. r \in v.users[c]
      BY <3>1, <2>1, <2>2, <1>2, <1>6, <1>8
    <3> QED BY <3>1, <3>2
  <2>3. ASSUME NEW c \in Channel, r \in v.users[c] PROVE Id(c) \in v.windows[r] \/ <<r, Id(c)>> \in past.left
    <3>1. r \in state.users[c] /\ ~(c = i /\ r = q)
      BY <2>3, <1>6
    <3>2. Id(c) = i => c = i
      BY IdFacts
    <3> QED BY <3>1, <3>2, <2>1, <1>8 DEF Matches
  <2> QED BY <2>2, <2>3 DEF Matches
<1>12. /\ \A c \in Channel : v.users[c] \subseteq state.on
       /\ \A j \in Private : v.invites[j] \subseteq state.on
       /\ \A r \in Player : r \notin state.linked => v.windows[r] = {}
  BY <1>6, <1>7, <1>8 DEF CompanyInv, Good, Present
<1>13. Good(v, past)
  BY <1>2, <1>5, <1>9, <1>10, <1>11, <1>12, TalkStep DEF CompanyInv
<1> QED BY <1>1, <1>13 DEF CompanyInv

LEMMA LoadKeeps ==
  ASSUME CompanyInv, NEW c \in Normal, NEW kept \in SUBSET Player, Load(c, kept)
  PROVE  CompanyInv'
<1>. DEFINE v == [state EXCEPT !.users[c] = kept]
            k == [past EXCEPT !.dropped = @ \cup ((state.users[c] \ kept) \X {c})]
<1>1. state' = v /\ past' = k /\ kept \subseteq state.users[c]
  BY DEF Load
<1>2. state \in AnyCompany /\ past \in AnyPast /\ c \in Channel /\ Id(c) = c /\ c \notin Private /\ c \in Ids
  BY ChannelKinds, IdFacts DEF CompanyInv, Good, Ids
<1>3. /\ v \in AnyCompany /\ SameRest(state, v) /\ SameParties(state, v) /\ SameSlots(state, v)
      /\ v.users = [state.users EXCEPT ![c] = kept] /\ v.windows = state.windows
  BY <1>2 DEF AnyCompany, SameRest, SameParties, SameSlots
<1>4. /\ k \in AnyPast /\ k.left = past.left /\ k.slipped = past.slipped /\ k.copied = past.copied
      /\ k.dropped = past.dropped \cup ((state.users[c] \ kept) \X {c})
  <2>1. state.users[c] \subseteq Player
    BY <1>2 DEF AnyCompany
  <2> QED BY <2>1, <1>2 DEF AnyPast
<1>. HIDE DEF v, k, Id
<1>5. \A d \in Channel : v.users[d] = IF d = c THEN kept ELSE state.users[d]
  BY <1>2, <1>3 DEF AnyCompany
<1>6. Slots(v)
  BY <1>2, <1>3, <1>5, ChannelKinds DEF CompanyInv, Good, Slots, SameSlots
<1>7. \A r \in Player : Reasons(v, k, r)
  BY <1>1, <1>3, <1>4, <1>5, ChannelKinds DEF CompanyInv, Good, Reasons, SameRest, SameParties, SameSlots
<1>8. ASSUME NEW r \in state.linked PROVE Matches(v, k, r)
  <2>1. r \in Player /\ Matches(state, past, r)
    BY <1>2 DEF CompanyInv, Good, AnyCompany
  <2>2. ASSUME NEW d \in v.windows[r], <<r, d>> \notin k.dropped
        PROVE  \E e \in Channel : Id(e) = d /\ r \in v.users[e]
    <3>1. PICK e \in Channel : Id(e) = d /\ r \in state.users[e]
      BY <2>1, <2>2, <1>3, <1>4 DEF Matches
    <3>2. e = c => r \in kept
      BY <3>1, <2>2, <1>2, <1>4
    <3> QED BY <3>1, <3>2, <1>5
  <2>3. ASSUME NEW e \in Channel, r \in v.users[e] PROVE Id(e) \in v.windows[r] \/ <<r, Id(e)>> \in k.left
    BY <2>1, <2>3, <1>1, <1>3, <1>4, <1>5 DEF Matches
  <2> QED BY <2>2, <2>3 DEF Matches
<1>9. /\ \A d \in Channel : v.users[d] \subseteq state.on
      /\ \A j \in Private : v.invites[j] \subseteq state.on
      /\ \A r \in Player : r \notin state.linked => v.windows[r] = {}
  BY <1>1, <1>3, <1>5 DEF CompanyInv, Good, Present, SameSlots
<1>10. Good(v, k)
  <2>1. Good(state, past)
    BY DEF CompanyInv
  <2>2. v \in AnyCompany /\ k \in AnyPast /\ k.slipped = past.slipped /\ k.copied = past.copied
    BY <1>3, <1>4
  <2>3. SameRest(state, v) /\ SameParties(state, v) /\ \A j \in Private : v.invites[j] \subseteq state.on
    BY <1>3, <1>9
  <2> QED BY <2>1, <2>2, <2>3, <1>6, <1>7, <1>8, <1>9, TalkStep
<1> QED BY <1>1, <1>10 DEF CompanyInv

LEMMA ChangeRightsKeeps ==
  ASSUME CompanyInv, NEW p \in Player, ChangeRights(p)
  PROVE  CompanyInv'
<1>. DEFINE v == [state EXCEPT !.may = IF p \in @ THEN @ \ {p} ELSE @ \cup {p}]
            gone == IF p \in state.may THEN {<<p, c>> : c \in Normal} ELSE {}
            k == [past EXCEPT !.left = @ \cup gone]
<1>1. state' = v /\ past' = k
  BY DEF ChangeRights, Leaves
<1>2. state \in AnyCompany /\ past \in AnyPast /\ Normal \subseteq Channel
  BY ChannelKinds DEF CompanyInv, Good
<1>3. /\ v \in AnyCompany /\ v.users = state.users /\ SameSlots(state, v) /\ v.windows = state.windows
      /\ SameParties(state, v) /\ v.on = state.on /\ v.linked = state.linked /\ v.ghost = state.ghost
      /\ v.guild = state.guild /\ v.loaded = state.loaded /\ v.members = state.members
      /\ v.listed = state.listed /\ v.shown = state.shown
      /\ v.may = IF p \in state.may THEN state.may \ {p} ELSE state.may \cup {p}
  BY <1>2 DEF AnyCompany, SameParties, SameSlots
<1>4. /\ k \in AnyPast /\ k.dropped = past.dropped /\ k.slipped = past.slipped /\ k.copied = past.copied
      /\ past.left \subseteq k.left /\ (p \in state.may => \A c \in Normal : <<p, c>> \in k.left)
  <2>1. gone \subseteq Player \X Ids
    BY DEF Ids
  <2>2. p \in state.may => \A c \in Normal : <<p, c>> \in gone
    OBVIOUS
  <2>. HIDE DEF gone
  <2> QED BY <2>1, <2>2, <1>2 DEF AnyPast
<1>. HIDE DEF v, k
<1>5. Present(v) /\ Slots(v) /\ Leaders(v) /\ Guilds(v, k)
  <2>1. Present(v)
    BY <1>3 DEF CompanyInv, Good, Present, SameSlots
  <2>2. Slots(v)
    BY <1>3 DEF CompanyInv, Good, Slots, SameSlots
  <2>3. Leaders(v)
    BY <1>3 DEF CompanyInv, Good, Leaders, SameParties
  <2>4. Guilds(v, k)
    BY <1>3, <1>4 DEF CompanyInv, Good, Guilds
  <2> QED BY <2>1, <2>2, <2>3, <2>4
<1>6. Buddies(v)
  BY <1>3 DEF CompanyInv, Good, Buddies, Visible
<1>7. \A q \in Player : Reasons(v, k, q)
  BY <1>2, <1>3, <1>4 DEF CompanyInv, Good, Reasons, SameSlots, SameParties
<1>8. \A q \in v.linked : Matches(v, k, q)
  BY <1>3, <1>4 DEF CompanyInv, Good, Matches
<1>9. Good(v, k)
  BY <1>3, <1>4, <1>5, <1>6, <1>7, <1>8 DEF Good
<1> QED BY <1>1, <1>9 DEF CompanyInv

LEMMA LoseClientKeeps ==
  ASSUME CompanyInv, NEW p \in Player, LoseClient(p)
  PROVE  CompanyInv'
<1>. DEFINE v == [state EXCEPT !.linked = @ \ {p}, !.windows[p] = {}, !.shown[p] = Nothing]
<1>1. state' = v /\ past' = past
  BY DEF LoseClient, Makes
<1>2. state \in AnyCompany /\ past \in AnyPast
  BY DEF CompanyInv, Good
<1>3. v \in AnyCompany
  <2>1. Nothing \in [Player -> {"online", "offline", "absent"}]
    BY DEF Nothing
  <2> QED BY <2>1, <1>2 DEF AnyCompany
<1>4. /\ v.on = state.on /\ v.ghost = state.ghost /\ v.may = state.may /\ v.users = state.users
      /\ SameSlots(state, v) /\ SameParties(state, v)
      /\ v.guild = state.guild /\ v.loaded = state.loaded /\ v.members = state.members /\ v.listed = state.listed
      /\ v.linked = state.linked \ {p}
      /\ v.windows = [state.windows EXCEPT ![p] = {}] /\ v.shown = [state.shown EXCEPT ![p] = Nothing]
  BY <1>2 DEF AnyCompany, SameSlots, SameParties
<1>. HIDE DEF v
<1>5. /\ \A q \in Player : v.windows[q] = IF q = p THEN {} ELSE state.windows[q]
      /\ \A q \in Player : q # p => v.shown[q] = state.shown[q]
  BY <1>2, <1>4 DEF AnyCompany
<1>6. Present(v)
  BY <1>4, <1>5 DEF CompanyInv, Good, Present, SameSlots
<1>7. Slots(v) /\ Leaders(v) /\ Guilds(v, past)
  BY <1>4 DEF CompanyInv, Good, Slots, Leaders, Guilds, SameSlots, SameParties
<1>8. \A q \in Player : Reasons(v, past, q)
  BY <1>4 DEF CompanyInv, Good, Reasons, SameSlots, SameParties
<1>9. \A q \in v.linked : q \in Player /\ q \in state.linked /\ q # p
  BY <1>2, <1>4 DEF AnyCompany
<1>10. \A q \in v.linked : Matches(v, past, q)
  BY <1>4, <1>5, <1>9 DEF CompanyInv, Good, Matches
<1>11. Buddies(v)
  BY <1>4, <1>5, <1>9 DEF CompanyInv, Good, Buddies, Visible
<1>12. Good(v, past)
  BY <1>2, <1>3, <1>6, <1>7, <1>8, <1>10, <1>11 DEF Good
<1> QED BY <1>1, <1>12 DEF CompanyInv

\* What a client shows once it was sent the entries of its list.
Sent(w, v, p) ==
  /\ v \in AnyCompany /\ v = [w EXCEPT !.shown = v.shown]
  /\ \A q \in Player : q # p => v.shown[q] = w.shown[q]
  /\ \A r \in Player : v.shown[p][r] # "absent" => v.shown[p][r] = Status(Visible(w, p, r))

LEMMA EntriesSent ==
  ASSUME NEW w \in AnyCompany, NEW p \in Player
  PROVE  Sent(w, SendVIPEntries(w, p), p)
<1>. DEFINE list == [q \in Player |-> IF q \in Rows(w, p) THEN Status(Visible(w, p, q)) ELSE "absent"]
            v == [w EXCEPT !.shown = [w.shown EXCEPT ![p] = list]]
<1>1. SendVIPEntries(w, p) = v
  BY DEF SendVIPEntries, AnyCompany
<1>2. list \in [Player -> {"online", "offline", "absent"}]
  BY DEF Status
<1>3. \A r \in Player : list[r] # "absent" => list[r] = Status(Visible(w, p, r))
  OBVIOUS
<1>. HIDE DEF list
<1>4. v \in AnyCompany /\ v.shown = [w.shown EXCEPT ![p] = list]
  BY <1>2 DEF AnyCompany
<1>5. v.shown[p] = list /\ \A q \in Player : q # p => v.shown[q] = w.shown[q]
  BY <1>4 DEF AnyCompany
<1>6. v = [w EXCEPT !.shown = v.shown]
  BY <1>4
<1> QED BY <1>1, <1>3, <1>4, <1>5, <1>6 DEF Sent

LEMMA ReconnectKeeps ==
  ASSUME CompanyInv, NEW p \in Player, Reconnect(p)
  PROVE  CompanyInv'
<1>. DEFINE x == RemoveUserFromAllChannels(state, p)
            u == [x EXCEPT !.linked = @ \cup {p}]
            v == SendVIPEntries(u, p)
            k == [past EXCEPT !.left = {y \in @ : y[1] # p}, !.dropped = {y \in @ : y[1] # p}]
<1>1. state' = v /\ past' = k /\ p \in state.on /\ p \notin state.linked
  BY DEF Reconnect
<1>2. state \in AnyCompany /\ past \in AnyPast /\ Slots(state)
  BY DEF CompanyInv, Good
<1>3. TalkLeft(state, x, p)
  BY <1>2, AllLeft
<1>. HIDE DEF x
<1>4. /\ Slots(x)
      /\ \A c \in Channel : x.users[c] \subseteq state.users[c] /\ p \notin x.users[c]
      /\ \A i \in Private : x.invites[i] \subseteq state.invites[i]
      /\ \A q \in Player : x.windows[q] \subseteq state.windows[q]
      /\ \A q \in Player \ {p} : Matches(state, past, q) => Matches(x, past, q)
      /\ \A q \in Player \ {p} : Reasons(state, past, q) => Reasons(x, past, q)
  BY <1>2, <1>3, LeftKeeps
<1>5. x \in AnyCompany /\ SameRest(state, x) /\ SameParties(state, x)
  BY <1>3 DEF TalkLeft
<1>6. /\ u \in AnyCompany /\ u.linked = x.linked \cup {p} /\ SameSlots(x, u) /\ SameParties(x, u)
      /\ u.users = x.users /\ u.windows = x.windows /\ u.on = x.on /\ u.ghost = x.ghost /\ u.may = x.may
      /\ u.guild = x.guild /\ u.loaded = x.loaded /\ u.members = x.members /\ u.listed = x.listed /\ u.shown = x.shown
  BY <1>5 DEF AnyCompany, SameSlots, SameParties
<1>. HIDE DEF u
<1>7. Sent(u, v, p)
  BY <1>6, EntriesSent
<1>. HIDE DEF v
<1>8. /\ v \in AnyCompany /\ v.linked = state.linked \cup {p} /\ SameSlots(x, v) /\ SameParties(state, v)
      /\ v.users = x.users /\ v.windows = x.windows /\ v.on = state.on /\ v.ghost = state.ghost /\ v.may = state.may
      /\ v.guild = state.guild /\ v.loaded = state.loaded /\ v.members = state.members /\ v.listed = state.listed
  BY <1>5, <1>6, <1>7 DEF Sent, AnyCompany, SameRest, SameSlots, SameParties
<1>9. /\ k \in AnyPast /\ k.slipped = past.slipped /\ k.copied = past.copied
      /\ \A q, id : q # p => (<<q, id>> \in k.left <=> <<q, id>> \in past.left)
                          /\ (<<q, id>> \in k.dropped <=> <<q, id>> \in past.dropped)
  BY <1>2 DEF AnyPast
<1>. HIDE DEF k
<1>10. Present(v)
  BY <1>1, <1>4, <1>8 DEF CompanyInv, Good, Present, SameSlots
<1>11. Slots(v) /\ Leaders(v) /\ Guilds(v, k)
  BY <1>4, <1>8, <1>9 DEF CompanyInv, Good, Slots, Leaders, Guilds, SameSlots, SameParties
<1>12. ASSUME NEW q \in Player PROVE Reasons(v, k, q)
  <2>1. CASE q = p
    BY <2>1, <1>4, <1>8, ChannelKinds DEF Reasons
  <2>2. CASE q # p
    <3>1. Reasons(x, past, q)
      BY <2>2, <1>4 DEF CompanyInv, Good
    <3> QED BY <3>1, <2>2, <1>5, <1>8, <1>9 DEF Reasons, SameRest, SameParties, SameSlots
  <2> QED BY <2>1, <2>2
<1>13. ASSUME NEW q \in v.linked PROVE Matches(v, k, q)
  <2>1. CASE q = p
    <3>1. state.windows[p] = {}
      BY <1>1 DEF CompanyInv, Good, Present
    <3> QED BY <2>1, <3>1, <1>4, <1>8 DEF Matches
  <2>2. CASE q # p
    <3>1. q \in Player /\ q \in state.linked
      BY <2>2, <1>8 DEF AnyCompany
    <3>2. Matches(x, past, q)
      BY <3>1, <2>2, <1>4 DEF CompanyInv, Good
    <3> QED BY <3>2, <2>2, <1>8, <1>9 DEF Matches
  <2> QED BY <2>1, <2>2
<1>14. Buddies(v)
  <2>1. ASSUME NEW q \in v.linked, NEW r \in v.listed[q], v.shown[q][r] # "absent"
        PROVE  v.shown[q][r] = Status(Visible(v, q, r))
    <3>0. q \in Player /\ r \in Player
      BY <1>8 DEF AnyCompany
    <3>1. Visible(v, q, r) <=> Visible(u, q, r)
      BY <1>5, <1>6, <1>8 DEF Visible, SameRest
    <3>2. CASE q = p
      BY <2>1, <3>0, <3>1, <3>2, <1>7 DEF Sent, Status
    <3>3. CASE q # p
      <4>1. q \in state.linked /\ v.shown[q] = state.shown[q]
        BY <3>0, <3>3, <1>5, <1>6, <1>7, <1>8 DEF Sent, SameRest
      <4>2. Visible(v, q, r) <=> Visible(state, q, r)
        BY <1>8 DEF Visible
      <4> QED BY <2>1, <4>1, <4>2, <1>8 DEF CompanyInv, Good, Buddies, Status
    <3> QED BY <3>2, <3>3
  <2> QED BY <2>1 DEF Buddies
<1>15. Good(v, k)
  BY <1>8, <1>9, <1>10, <1>11, <1>12, <1>13, <1>14 DEF Good
<1> QED BY <1>1, <1>15 DEF CompanyInv

Told(w, v, q, is, P) ==
  /\ v \in AnyCompany /\ v = [w EXCEPT !.shown = v.shown]
  /\ \A p \in Player :
       /\ \A r \in Player : r # q => v.shown[p][r] = w.shown[p][r]
       /\ p \in P /\ p \in w.linked /\ q \in w.listed[p] => v.shown[p][q] = Status(is)
       /\ p \notin P => v.shown[p] = w.shown[p]

LEMMA NotifyTells ==
  ASSUME NEW w \in AnyCompany, NEW q \in Player, NEW is, NEW P
  PROVE  Told(w, NotifyStatusChange(w, q, is, P), q, is, P)
<1>. DEFINE told == [p \in Player |->
              IF p \in P \cap w.linked /\ q \in w.listed[p] THEN [w.shown[p] EXCEPT ![q] = Status(is)] ELSE w.shown[p]]
            v == [w EXCEPT !.shown = told]
<1>1. NotifyStatusChange(w, q, is, P) = v
  BY DEF NotifyStatusChange
<1>2. \A p \in Player : w.shown[p] \in [Player -> {"online", "offline", "absent"}]
  BY DEF AnyCompany
<1>3. Status(is) \in {"online", "offline", "absent"}
  BY DEF Status
<1>4. told \in [Player -> [Player -> {"online", "offline", "absent"}]]
  BY <1>2, <1>3
<1>5. \A p \in Player :
        /\ \A r \in Player : r # q => told[p][r] = w.shown[p][r]
        /\ p \in P /\ p \in w.linked /\ q \in w.listed[p] => told[p][q] = Status(is)
        /\ p \notin P => told[p] = w.shown[p]
  BY <1>2
<1>. HIDE DEF told
<1>6. v \in AnyCompany /\ v.shown = told /\ v = [w EXCEPT !.shown = v.shown]
  BY <1>4 DEF AnyCompany
<1> QED BY <1>1, <1>5, <1>6 DEF Told

LEMMA SetGhostModeKeeps ==
  ASSUME CompanyInv, NEW p \in Player, SetGhostMode(p)
  PROVE  CompanyInv'
<1>. DEFINE w == [state EXCEPT !.ghost = IF p \in @ THEN @ \ {p} ELSE @ \cup {p}]
            v == NotifyStatusChange(w, p, p \notin w.ghost, Player \ Access)
<1>1. state' = v /\ past' = past /\ p \in state.on
  BY DEF SetGhostMode, Makes
<1>2. state \in AnyCompany /\ past \in AnyPast /\ Good(state, past)
  BY DEF CompanyInv, Good
<1>3. /\ w \in AnyCompany /\ SameTalk(state, w) /\ w.on = state.on /\ w.linked = state.linked /\ w.guild = state.guild
      /\ w.loaded = state.loaded /\ w.members = state.members /\ w.listed = state.listed /\ w.shown = state.shown
      /\ w.ghost = IF p \in state.ghost THEN state.ghost \ {p} ELSE state.ghost \cup {p}
  BY <1>2 DEF AnyCompany, SameTalk, SameSlots, SameParties
<1>. HIDE DEF w
<1>4. Told(w, v, p, p \notin w.ghost, Player \ Access)
  BY <1>3, NotifyTells
<1>. HIDE DEF v
<1>5. /\ v \in AnyCompany /\ SameTalk(state, v) /\ v.on = state.on /\ v.linked = state.linked /\ v.guild = state.guild
      /\ v.loaded = state.loaded /\ v.members = state.members /\ v.listed = state.listed /\ v.ghost = w.ghost
  BY <1>3, <1>4 DEF Told, AnyCompany, SameTalk, SameSlots, SameParties
<1>6. /\ Slots(v) /\ (\A q \in Player : Reasons(v, past, q)) /\ Leaders(v)
      /\ \A q \in Player : Matches(state, past, q) => Matches(v, past, q)
      /\ v.linked = state.linked /\ v.ghost \subseteq state.on => Present(v)
  BY <1>2, <1>5, OtherStep
<1>7. Present(v)
  BY <1>1, <1>3, <1>5, <1>6 DEF CompanyInv, Good, Present
<1>8. Guilds(v, past)
  BY <1>5 DEF CompanyInv, Good, Guilds
<1>9. \A q \in v.linked : Matches(v, past, q)
  BY <1>2, <1>5, <1>6 DEF CompanyInv, Good, AnyCompany
<1>10. Buddies(v)
  <2>1. ASSUME NEW q \in v.linked, NEW r \in v.listed[q], v.shown[q][r] # "absent"
        PROVE  v.shown[q][r] = Status(Visible(v, q, r))
    <3>0. q \in Player /\ r \in Player /\ q \in state.linked
      BY <1>5 DEF AnyCompany
    <3>1. CASE r # p
      <4>1. v.shown[q][r] = state.shown[q][r]
        BY <3>0, <3>1, <1>3, <1>4 DEF Told
      <4>2. Visible(v, q, r) <=> Visible(state, q, r)
        BY <3>1, <1>3, <1>5 DEF Visible
      <4> QED BY <2>1, <4>1, <4>2, <1>5 DEF CompanyInv, Good, Buddies, Status
    <3>2. CASE r = p /\ q \in Access
      <4>1. v.shown[q] = state.shown[q]
        BY <3>0, <3>2, <1>3, <1>4 DEF Told
      <4>2. Visible(v, q, r) <=> Visible(state, q, r)
        BY <3>2, <1>5 DEF Visible
      <4> QED BY <2>1, <4>1, <4>2, <1>5 DEF CompanyInv, Good, Buddies, Status
    <3>3. CASE r = p /\ q \notin Access
      <4>1. v.shown[q][r] = Status(p \notin w.ghost)
        BY <2>1, <3>0, <3>3, <1>3, <1>4, <1>5 DEF Told
      <4>2. Visible(v, q, r) <=> p \notin w.ghost
        BY <3>3, <1>1, <1>5 DEF Visible
      <4> QED BY <4>1, <4>2 DEF Status
    <3> QED BY <3>1, <3>2, <3>3
  <2> QED BY <2>1 DEF Buddies
<1>11. Good(v, past)
  BY <1>2, <1>5, <1>6, <1>7, <1>8, <1>9, <1>10 DEF Good
<1> QED BY <1>1, <1>11 DEF CompanyInv

LEMMA RequestAddVipKeeps ==
  ASSUME CompanyInv, NEW p \in Player, NEW q \in Player, RequestAddVip(p, q)
  PROVE  CompanyInv'
<1>. DEFINE v == [state EXCEPT !.listed[p] = @ \cup {q}, !.rows = @ \cup {<<account[p], q>>},
                               !.shown[p][q] = Status(Visible(state, p, q))]
            st == Status(Visible(state, p, q))
<1>1. state' = v /\ past' = past
  BY DEF RequestAddVip, Makes
<1>2. state \in AnyCompany /\ past \in AnyPast /\ Good(state, past)
  BY DEF CompanyInv, Good
<1>3. st \in {"online", "offline", "absent"}
  BY DEF Status
<1>. HIDE DEF st
<1>4. v = [state EXCEPT !.listed[p] = @ \cup {q}, !.rows = @ \cup {<<account[p], q>>}, !.shown[p][q] = st]
  BY DEF st
<1>. HIDE DEF v
<1>5. /\ v.listed = [state.listed EXCEPT ![p] = @ \cup {q}]
      /\ v.rows = state.rows \cup {<<account[p], q>>}
      /\ v.shown = [state.shown EXCEPT ![p] = [@ EXCEPT ![q] = st]]
      /\ SameTalk(state, v) /\ v.on = state.on /\ v.linked = state.linked /\ v.guild = state.guild
      /\ v.loaded = state.loaded /\ v.members = state.members /\ v.ghost = state.ghost
  BY <1>2, <1>4 DEF AnyCompany, SameTalk, SameSlots, SameParties
<1>6. v \in AnyCompany
  <2>1. /\ state.listed \in [Player -> SUBSET Player] /\ state.shown \in [Player -> [Player -> {"online", "offline", "absent"}]]
        /\ state.rows \in SUBSET ({account[r] : r \in Player} \X Player)
    BY <1>2 DEF AnyCompany
  <2>2. v.listed \in [Player -> SUBSET Player] /\ v.shown \in [Player -> [Player -> {"online", "offline", "absent"}]]
    BY <2>1, <1>3, <1>5
  <2>3. v.rows \in SUBSET ({account[r] : r \in Player} \X Player)
    BY <2>1, <1>5
  <2>4. v = [state EXCEPT !.listed = v.listed, !.rows = v.rows, !.shown = v.shown]
    BY <1>2, <1>4, <1>5 DEF AnyCompany
  <2> QED BY <2>2, <2>3, <2>4, <1>2 DEF AnyCompany
<1>7. /\ Slots(v) /\ (\A r \in Player : Reasons(v, past, r)) /\ Leaders(v)
      /\ \A r \in Player : Matches(state, past, r) => Matches(v, past, r)
      /\ v.linked = state.linked /\ v.ghost \subseteq state.on => Present(v)
  BY <1>2, <1>5, <1>6, OtherStep
<1>8. Present(v)
  BY <1>5, <1>7 DEF CompanyInv, Good, Present
<1>9. Guilds(v, past)
  BY <1>5 DEF CompanyInv, Good, Guilds
<1>10. \A r \in v.linked : Matches(v, past, r)
  BY <1>2, <1>5, <1>7 DEF CompanyInv, Good, AnyCompany
<1>11. Buddies(v)
  <2>1. ASSUME NEW s \in v.linked, NEW r \in v.listed[s], v.shown[s][r] # "absent"
        PROVE  v.shown[s][r] = Status(Visible(v, s, r))
    <3>0. s \in Player /\ r \in Player /\ s \in state.linked
      BY <1>5, <1>6 DEF AnyCompany
    <3>1. Visible(v, s, r) <=> Visible(state, s, r)
      BY <1>5 DEF Visible
    <3>2. /\ state.shown \in [Player -> [Player -> {"online", "offline", "absent"}]] /\ state.listed \in [Player -> SUBSET Player]
      BY <1>2 DEF AnyCompany
    <3>3. CASE s = p /\ r = q
      <4>1. v.shown[s][r] = st
        BY <3>2, <3>3, <1>5
      <4> QED BY <4>1, <3>1, <3>3 DEF st, Status
    <3>4. CASE s # p \/ r # q
      <4>1. v.shown[s][r] = state.shown[s][r] /\ r \in state.listed[s]
        BY <3>0, <3>2, <3>4, <1>5
      <4> QED BY <2>1, <4>1, <3>0, <3>1 DEF CompanyInv, Good, Buddies, Status
    <3> QED BY <3>3, <3>4
  <2> QED BY <2>1 DEF Buddies
<1>12. Good(v, past)
  BY <1>2, <1>6, <1>7, <1>8, <1>9, <1>10, <1>11 DEF Good
<1> QED BY <1>1, <1>12 DEF CompanyInv

LEMMA RequestRemoveVipKeeps ==
  ASSUME CompanyInv, NEW p \in Player, NEW q \in Player, RequestRemoveVip(p, q)
  PROVE  CompanyInv'
<1>. DEFINE left == IF q \in state.listed[p] THEN state.rows \ {<<account[p], q>>} ELSE state.rows
            v == [state EXCEPT !.listed[p] = @ \ {q}, !.shown[p][q] = "absent", !.rows = left]
<1>1. state' = v /\ past' = past
  BY DEF RequestRemoveVip, Makes
<1>2. state \in AnyCompany /\ past \in AnyPast /\ Good(state, past)
  BY DEF CompanyInv, Good
<1>3. left \subseteq state.rows
  OBVIOUS
<1>. HIDE DEF left
<1>5. /\ v.listed = [state.listed EXCEPT ![p] = @ \ {q}] /\ v.rows = left
      /\ v.shown = [state.shown EXCEPT ![p] = [@ EXCEPT ![q] = "absent"]]
      /\ SameTalk(state, v) /\ v.on = state.on /\ v.linked = state.linked /\ v.guild = state.guild
      /\ v.loaded = state.loaded /\ v.members = state.members /\ v.ghost = state.ghost
  BY <1>2 DEF AnyCompany, SameTalk, SameSlots, SameParties
<1>6. v \in AnyCompany
  <2>1. /\ state.listed \in [Player -> SUBSET Player] /\ state.shown \in [Player -> [Player -> {"online", "offline", "absent"}]]
        /\ state.rows \in SUBSET ({account[r] : r \in Player} \X Player)
    BY <1>2 DEF AnyCompany
  <2>2. v.listed \in [Player -> SUBSET Player] /\ v.shown \in [Player -> [Player -> {"online", "offline", "absent"}]]
    BY <2>1, <1>5
  <2>3. v.rows \in SUBSET ({account[r] : r \in Player} \X Player)
    BY <2>1, <1>3, <1>5
  <2>4. v = [state EXCEPT !.listed = v.listed, !.rows = v.rows, !.shown = v.shown]
    BY <1>2, <1>5 DEF AnyCompany
  <2>. HIDE DEF v
  <2> QED BY <2>2, <2>3, <2>4, <1>2 DEF AnyCompany
<1>. HIDE DEF v
<1>7. /\ Slots(v) /\ (\A r \in Player : Reasons(v, past, r)) /\ Leaders(v)
      /\ \A r \in Player : Matches(state, past, r) => Matches(v, past, r)
      /\ v.linked = state.linked /\ v.ghost \subseteq state.on => Present(v)
  BY <1>2, <1>5, <1>6, OtherStep
<1>8. Present(v)
  BY <1>5, <1>7 DEF CompanyInv, Good, Present
<1>9. Guilds(v, past)
  BY <1>5 DEF CompanyInv, Good, Guilds
<1>10. \A r \in v.linked : Matches(v, past, r)
  BY <1>2, <1>5, <1>7 DEF CompanyInv, Good, AnyCompany
<1>11. Buddies(v)
  <2>1. ASSUME NEW s \in v.linked, NEW r \in v.listed[s], v.shown[s][r] # "absent"
        PROVE  v.shown[s][r] = Status(Visible(v, s, r))
    <3>0. s \in Player /\ r \in Player /\ s \in state.linked
      BY <1>5, <1>6 DEF AnyCompany
    <3>1. Visible(v, s, r) <=> Visible(state, s, r)
      BY <1>5 DEF Visible
    <3>2. /\ state.shown \in [Player -> [Player -> {"online", "offline", "absent"}]] /\ state.listed \in [Player -> SUBSET Player]
      BY <1>2 DEF AnyCompany
    <3>3. s # p \/ r # q
      BY <2>1, <3>2, <1>5
    <3>4. v.shown[s][r] = state.shown[s][r] /\ r \in state.listed[s]
      BY <3>0, <3>2, <3>3, <1>5
    <3> QED BY <2>1, <3>4, <3>0, <3>1 DEF CompanyInv, Good, Buddies, Status
  <2> QED BY <2>1 DEF Buddies
<1>12. Good(v, past)
  BY <1>2, <1>6, <1>7, <1>8, <1>9, <1>10, <1>11 DEF Good
<1> QED BY <1>1, <1>12 DEF CompanyInv

LEMMA LoadCopyKeeps ==
  ASSUME CompanyInv, NEW g \in Guild, LoadCopy(g)
  PROVE  CompanyInv'
<1>. DEFINE v == [state EXCEPT !.loaded = @ \cup {g}]
            k == [past EXCEPT !.copied = @ \cup {g}]
<1>1. state' = v /\ past' = k
  BY DEF LoadCopy
<1>2. state \in AnyCompany /\ past \in AnyPast /\ Good(state, past)
  BY DEF CompanyInv, Good
<1>3. /\ v \in AnyCompany /\ SameTalk(state, v) /\ v.on = state.on /\ v.linked = state.linked /\ v.guild = state.guild
      /\ v.members = state.members /\ v.listed = state.listed /\ v.shown = state.shown /\ v.ghost = state.ghost
      /\ v.loaded = state.loaded \cup {g}
  BY <1>2 DEF AnyCompany, SameTalk, SameSlots, SameParties
<1>4. /\ k \in AnyPast /\ k.left = past.left /\ k.dropped = past.dropped /\ k.slipped = past.slipped
      /\ k.copied = past.copied \cup {g}
  BY <1>2 DEF AnyPast
<1>. HIDE DEF v, k
<1>5. /\ Slots(v) /\ (\A r \in Player : Reasons(v, k, r)) /\ Leaders(v)
      /\ \A r \in Player : Matches(state, past, r) => Matches(v, k, r)
      /\ v.linked = state.linked /\ v.ghost \subseteq state.on => Present(v)
  BY <1>2, <1>3, <1>4, OtherStep
<1>6. Present(v)
  BY <1>3, <1>5 DEF CompanyInv, Good, Present
<1>7. Guilds(v, k)
  BY <1>3, <1>4 DEF CompanyInv, Good, Guilds
<1>8. \A r \in v.linked : Matches(v, k, r)
  BY <1>2, <1>3, <1>5 DEF CompanyInv, Good, AnyCompany
<1>9. Buddies(v)
  BY <1>3 DEF CompanyInv, Good, Buddies, Visible
<1>10. Good(v, k)
  BY <1>3, <1>4, <1>5, <1>6, <1>7, <1>8, <1>9 DEF Good
<1> QED BY <1>1, <1>10 DEF CompanyInv

\* Somebody of no party is now of one.
LEMMA PartyEntered ==
  ASSUME NEW w, NEW h, Good(w, h), NEW v \in AnyCompany, NEW p \in Player, w.party[p] = Null,
         SameRest(w, v), SameSlots(w, v), v.users = w.users, v.windows = w.windows,
         \A q \in Player : q # p => v.party[q] = w.party[q], Leaders(v)
  PROVE  Good(v, h)
<1>1. Present(v) /\ Slots(v)
  BY DEF Good, Present, Slots, SameRest, SameSlots
<1>2. Guilds(v, h) /\ Buddies(v)
  BY DEF Good, Guilds, Buddies, Visible, SameRest
<1>3. \A q \in v.linked : Matches(v, h, q)
  BY DEF Good, Matches, SameRest
<1>4. ASSUME NEW q \in Player PROVE Reasons(v, h, q)
  <2>1. \A c \in Address : q \in w.users[c] => c \in w.made /\ (v.party[q] = c \/ <<q, "party">> \in h.left)
    <3>1. \A c \in Address : c # Null
      BY ChannelKinds
    <3> QED BY <3>1 DEF Good, Reasons
  <2>2. /\ \A c \in Guild : q \in w.users[c] => c \in w.made /\ (w.guild[q] = c \/ <<q, "guild">> \in h.left)
        /\ \A c \in Normal : q \in w.users[c] => q \in w.may \/ <<q, c>> \in h.left
    BY DEF Good, Reasons
  <2> QED BY <2>1, <2>2 DEF Reasons, SameRest, SameSlots
<1> QED BY <1>1, <1>2, <1>3, <1>4 DEF Good

LEMMA CreatePartyKeeps ==
  ASSUME CompanyInv, NEW p \in Player, NEW a \in Address, CreateParty(p, a)
  PROVE  CompanyInv'
<1>. DEFINE v == [state EXCEPT !.party[p] = a, !.leader[a] = p]
<1>1. state' = v /\ past' = past /\ state.party[p] = Null /\ state.leader[a] = Null
  BY DEF CreateParty, Makes
<1>2. state \in AnyCompany /\ Good(state, past)
  BY DEF CompanyInv, Good
<1>3. /\ v \in AnyCompany /\ SameRest(state, v) /\ SameSlots(state, v) /\ v.users = state.users /\ v.windows = state.windows
      /\ v.party = [state.party EXCEPT ![p] = a] /\ v.leader = [state.leader EXCEPT ![a] = p]
  BY <1>2 DEF AnyCompany, SameRest, SameSlots
<1>. HIDE DEF v
<1>4. /\ \A q \in Player : v.party[q] = IF q = p THEN a ELSE state.party[q]
      /\ \A b \in Address : v.leader[b] = IF b = a THEN p ELSE state.leader[b]
  BY <1>2, <1>3 DEF AnyCompany
<1>5. Leaders(v)
  <2>1. ASSUME NEW b \in Address, v.leader[b] # Null PROVE v.party[v.leader[b]] = b
    <3>1. CASE b = a
      BY <3>1, <1>4
    <3>2. CASE b # a
      <4>1. v.leader[b] = state.leader[b] /\ state.leader[b] \in Player /\ state.party[state.leader[b]] = b
        BY <3>2, <2>1, <1>2, <1>4 DEF Good, Leaders, AnyCompany
      <4>2. b # Null
        BY ChannelKinds
      <4> QED BY <4>1, <4>2, <1>1, <1>4
    <3> QED BY <3>1, <3>2
  <2> QED BY <2>1 DEF Leaders
<1>6. Good(v, past)
  <2>1. \A q \in Player : q # p => v.party[q] = state.party[q]
    BY <1>4
  <2> QED BY <2>1, <1>1, <1>2, <1>3, <1>5, PartyEntered
<1> QED BY <1>1, <1>6 DEF CompanyInv

LEMMA JoinPartyKeeps ==
  ASSUME CompanyInv, NEW p \in Player, NEW a \in Address, JoinParty(p, a)
  PROVE  CompanyInv'
<1>. DEFINE v == [state EXCEPT !.party[p] = a]
<1>1. state' = v /\ past' = past /\ state.party[p] = Null
  BY DEF JoinParty, Makes
<1>2. state \in AnyCompany /\ Good(state, past)
  BY DEF CompanyInv, Good
<1>3. /\ v \in AnyCompany /\ SameRest(state, v) /\ SameSlots(state, v) /\ v.users = state.users /\ v.windows = state.windows
      /\ v.party = [state.party EXCEPT ![p] = a] /\ v.leader = state.leader
  BY <1>2 DEF AnyCompany, SameRest, SameSlots
<1>. HIDE DEF v
<1>4. \A q \in Player : v.party[q] = IF q = p THEN a ELSE state.party[q]
  BY <1>2, <1>3 DEF AnyCompany
<1>5. Leaders(v)
  <2>1. ASSUME NEW b \in Address, v.leader[b] # Null PROVE v.party[v.leader[b]] = b
    <3>1. state.leader[b] \in Player /\ state.party[state.leader[b]] = b /\ b # Null
      BY <2>1, <1>2, <1>3, ChannelKinds DEF Good, Leaders, AnyCompany
    <3> QED BY <3>1, <1>1, <1>3, <1>4
  <2> QED BY <2>1 DEF Leaders
<1>6. Good(v, past)
  <2>1. \A q \in Player : q # p => v.party[q] = state.party[q]
    BY <1>4
  <2> QED BY <2>1, <1>1, <1>2, <1>3, <1>5, PartyEntered
<1> QED BY <1>1, <1>6 DEF CompanyInv

LEMMA QuitPartyKeeps ==
  ASSUME CompanyInv, NEW p \in Player, NEW invited \in BOOLEAN, QuitParty(p, invited)
  PROVE  CompanyInv'
<1>. DEFINE v == LeaveParty(state, p, invited)
            gone == {<<q, "party">> : q \in {r \in Player : v.party[r] # state.party[r]}}
            k == [past EXCEPT !.left = @ \cup gone]
<1>1. state' = v /\ past' = k /\ state.party[p] # Null
  BY DEF QuitParty, Leaves
<1>2. state \in AnyCompany /\ past \in AnyPast /\ Leaders(state)
  BY DEF CompanyInv, Good
<1>3. PICK G \in SUBSET Player : PartyLeft(state, v, p, G)
  BY <1>1, <1>2, LeavePartyLeaves
<1>. HIDE DEF v
<1>4. \A q \in G : <<q, "party">> \in gone
  BY <1>1, <1>3 DEF PartyLeft, Members
<1>5. gone \subseteq Player \X Ids
  BY DEF Ids
<1>. HIDE DEF gone
<1>6. /\ k \in AnyPast /\ k.dropped = past.dropped /\ k.slipped = past.slipped /\ k.copied = past.copied
      /\ k.left = past.left \cup gone
  BY <1>2, <1>5 DEF AnyPast
<1>. HIDE DEF k
<1>7. ASSUME NEW q \in Player
      PROVE  /\ Matches(state, past, q) => Matches(v, k, q)
             /\ Reasons(state, past, q) => Reasons(v, k, q)
  <2>1. /\ q \in G => <<q, "party">> \in k.left
        /\ \A id : <<q, id>> \in past.left => <<q, id>> \in k.left
        /\ \A id : <<q, id>> \in past.dropped => <<q, id>> \in k.dropped
    BY <1>4, <1>6
  <2> QED BY <2>1, <1>3, PartyLeftKeeps
<1>8. /\ v \in AnyCompany /\ SameRest(state, v) /\ SameSlots(state, v) /\ v.users = state.users /\ Leaders(v)
      /\ \A q \in Player : v.windows[q] \subseteq state.windows[q]
  BY <1>3 DEF PartyLeft
<1>9. Present(v)
  BY <1>8 DEF CompanyInv, Good, Present, SameRest, SameSlots
<1>10. Slots(v)
  BY <1>8 DEF CompanyInv, Good, Slots, SameSlots
<1>11. Guilds(v, k) /\ Buddies(v)
  BY <1>6, <1>8 DEF CompanyInv, Good, Guilds, Buddies, Visible, SameRest
<1>12. \A q \in Player : Reasons(v, k, q)
  BY <1>7 DEF CompanyInv, Good
<1>13. \A q \in v.linked : Matches(v, k, q)
  BY <1>2, <1>7, <1>8 DEF CompanyInv, Good, SameRest, AnyCompany
<1>14. Good(v, k)
  BY <1>6, <1>8, <1>9, <1>10, <1>11, <1>12, <1>13 DEF Good
<1> QED BY <1>1, <1>14 DEF CompanyInv

\* What leaving a guild does to guilds: g is the new one, if there is one.
Moved(w, v, p, g) ==
  /\ v \in AnyCompany /\ SameTalk(w, v) /\ v.on = w.on /\ v.linked = w.linked /\ v.ghost = w.ghost
  /\ v.listed = w.listed /\ v.rows = w.rows /\ v.shown = w.shown
  /\ v.guild = [w.guild EXCEPT ![p] = IF g \in Rankless THEN Null ELSE g]
  /\ \A h \in Guild :
       v.members[h] = IF g \in Rankless THEN w.members[h]
                      ELSE IF h = g THEN w.members[h] \cup {p}
                      ELSE IF h = w.guild[p] THEN w.members[h] \ {p} ELSE w.members[h]
  /\ v.loaded = {h \in w.loaded : h = w.guild[p] /\ g \notin Rankless => v.members[h] # {}}

LEMMA GuildMoves ==
  ASSUME NEW w \in AnyCompany, NEW p \in Player, NEW g \in Guild \cup {Null}, g # w.guild[p]
  PROVE  Moved(w, SetGuild(w, p, g), p, g)
<1>. DEFINE old == w.guild[p]
            out == [w EXCEPT !.guild[p] = Null]
            in == IF g = Null THEN out ELSE [out EXCEPT !.guild[p] = g, !.members[g] = @ \cup {p}]
            v == SetGuild(w, p, g)
<1>0. Null \notin Guild /\ old \in Guild \cup {Null} /\ Rankless \subseteq Guild
  BY ChannelKinds, CompanyAssumption DEF AnyCompany
<1>1. v = IF g \in Rankless THEN out ELSE IF old = Null THEN in ELSE RemoveMember(in, p, old)
  BY DEF SetGuild
<1>2. /\ out \in AnyCompany /\ SameTalk(w, out) /\ out.on = w.on /\ out.linked = w.linked /\ out.ghost = w.ghost
      /\ out.listed = w.listed /\ out.rows = w.rows /\ out.shown = w.shown
      /\ out.guild = [w.guild EXCEPT ![p] = Null] /\ out.members = w.members /\ out.loaded = w.loaded
  BY DEF AnyCompany, SameTalk, SameSlots, SameParties
<1>. HIDE DEF v
<1>3. CASE g \in Rankless
  <2>1. v = out
    BY <1>1, <1>3
  <2>. HIDE DEF out
  <2>2. /\ v.guild = [w.guild EXCEPT ![p] = IF g \in Rankless THEN Null ELSE g]
        /\ v.loaded = {h \in w.loaded : h = old /\ g \notin Rankless => v.members[h] # {}}
        /\ v.members = w.members
    BY <2>1, <1>2, <1>3
  <2> QED BY <2>1, <2>2, <1>2, <1>3 DEF Moved, v
<1>. HIDE DEF out
<1>4. /\ in \in AnyCompany /\ SameTalk(w, in) /\ in.on = w.on /\ in.linked = w.linked /\ in.ghost = w.ghost
      /\ in.listed = w.listed /\ in.rows = w.rows /\ in.shown = w.shown
      /\ in.guild = [w.guild EXCEPT ![p] = g] /\ in.loaded = w.loaded
      /\ \A h \in Guild : in.members[h] = IF h = g THEN w.members[h] \cup {p} ELSE w.members[h]
  <2>1. CASE g = Null
    BY <2>1, <1>0, <1>2
  <2>2. CASE g \in Guild
    <3>1. in = [out EXCEPT !.guild[p] = g, !.members[g] = @ \cup {p}]
      BY <2>2, <1>0
    <3>2. in \in AnyCompany
      <4>1. out.guild \in [Player -> Guild \cup {Null}] /\ out.members \in [Guild -> SUBSET Player]
        BY <1>2 DEF AnyCompany
      <4>2. [out.guild EXCEPT ![p] = g] \in [Player -> Guild \cup {Null}]
        BY <4>1, <2>2
      <4>3. [out.members EXCEPT ![g] = @ \cup {p}] \in [Guild -> SUBSET Player]
        BY <4>1, <2>2
      <4>4. in = [out EXCEPT !.guild = [out.guild EXCEPT ![p] = g], !.members = [out.members EXCEPT ![g] = @ \cup {p}]]
        BY <3>1, <1>2 DEF AnyCompany
      <4>. HIDE DEF in
      <4> QED BY <4>2, <4>3, <4>4, <1>2 DEF AnyCompany
    <3>3. /\ SameTalk(out, in) /\ in.on = out.on /\ in.linked = out.linked /\ in.ghost = out.ghost
          /\ in.listed = out.listed /\ in.rows = out.rows /\ in.shown = out.shown
          /\ in.guild = [out.guild EXCEPT ![p] = g] /\ in.loaded = out.loaded
          /\ in.members = [out.members EXCEPT ![g] = @ \cup {p}]
      BY <3>1, <1>2 DEF AnyCompany, SameTalk, SameSlots, SameParties
    <3>. HIDE DEF in
    <3>4. w.members \in [Guild -> SUBSET Player] /\ w.guild \in [Player -> Guild \cup {Null}]
      BY DEF AnyCompany
    <3>5. in.guild = [w.guild EXCEPT ![p] = g]
      BY <3>3, <3>4, <1>2
    <3>6. \A h \in Guild : in.members[h] = IF h = g THEN w.members[h] \cup {p} ELSE w.members[h]
      BY <3>3, <3>4, <1>2
    <3> QED BY <3>2, <3>3, <3>5, <3>6, <1>2 DEF SameTalk, SameSlots, SameParties
  <2> QED BY <2>1, <2>2
<1>. HIDE DEF in
<1>5. CASE g \notin Rankless /\ old = Null
  <2>1. v = in
    BY <1>1, <1>5
  <2>2. \A h \in Guild : v.members[h] = IF h = g THEN w.members[h] \cup {p} ELSE IF h = old THEN w.members[h] \ {p} ELSE w.members[h]
    BY <2>1, <1>0, <1>4, <1>5
  <2>3. v.loaded = {h \in w.loaded : h = old => v.members[h] # {}}
    BY <2>1, <1>0, <1>4, <1>5 DEF AnyCompany
  <2>4. v.guild = [w.guild EXCEPT ![p] = IF g \in Rankless THEN Null ELSE g]
    BY <2>1, <1>4, <1>5
  <2>5. \A h \in Guild :
          v.members[h] = IF g \in Rankless THEN w.members[h]
                         ELSE IF h = g THEN w.members[h] \cup {p}
                         ELSE IF h = old THEN w.members[h] \ {p} ELSE w.members[h]
    BY <2>2, <1>5
  <2>6. v.loaded = {h \in w.loaded : h = old /\ g \notin Rankless => v.members[h] # {}}
    BY <2>3, <1>5
  <2> QED BY <2>1, <2>4, <2>5, <2>6, <1>4 DEF Moved, v
<1>6. CASE g \notin Rankless /\ old # Null
  <2>. DEFINE rest == in.members[old] \ {p}
  <2>1. v = [in EXCEPT !.members[old] = rest, !.loaded = IF rest = {} THEN @ \ {old} ELSE @]
    BY <1>1, <1>6 DEF RemoveMember
  <2>2. old \in Guild /\ rest \subseteq Player
    BY <1>0, <1>4, <1>6 DEF AnyCompany
  <2>. HIDE DEF rest
  <2>3. v \in AnyCompany
    BY <2>1, <2>2, <1>4 DEF AnyCompany
  <2>4. /\ SameTalk(in, v) /\ v.on = in.on /\ v.linked = in.linked /\ v.ghost = in.ghost
        /\ v.listed = in.listed /\ v.rows = in.rows /\ v.shown = in.shown /\ v.guild = in.guild
        /\ v.loaded = IF rest = {} THEN in.loaded \ {old} ELSE in.loaded
        /\ v.members = [in.members EXCEPT ![old] = rest]
    BY <2>1, <1>4 DEF AnyCompany, SameTalk, SameSlots, SameParties
  <2>5. \A h \in Guild : v.members[h] = IF h = g THEN w.members[h] \cup {p} ELSE IF h = old THEN w.members[h] \ {p} ELSE w.members[h]
    <3>1. in.members \in [Guild -> SUBSET Player]
      BY <1>4 DEF AnyCompany
    <3>2. rest = w.members[old] \ {p}
      BY <2>2, <1>4 DEF rest
    <3> QED BY <3>1, <3>2, <2>2, <2>4, <1>4
  <2>6. v.loaded = {h \in w.loaded : h = old => v.members[h] # {}}
    <3>1. v.members[old] = rest
      BY <2>2, <2>4, <1>4 DEF AnyCompany
    <3> QED BY <3>1, <2>4, <1>4
  <2>7. SameTalk(w, v)
    BY <2>4, <1>4 DEF SameTalk, SameSlots, SameParties
  <2>8. v.guild = [w.guild EXCEPT ![p] = IF g \in Rankless THEN Null ELSE g]
    BY <2>4, <1>4, <1>6
  <2>9. \A h \in Guild :
          v.members[h] = IF g \in Rankless THEN w.members[h]
                         ELSE IF h = g THEN w.members[h] \cup {p}
                         ELSE IF h = old THEN w.members[h] \ {p} ELSE w.members[h]
    BY <2>5, <1>6
  <2>10. v.loaded = {h \in w.loaded : h = old /\ g \notin Rankless => v.members[h] # {}}
    BY <2>6, <1>6
  <2>11. /\ v.on = w.on /\ v.linked = w.linked /\ v.ghost = w.ghost
         /\ v.listed = w.listed /\ v.rows = w.rows /\ v.shown = w.shown
    BY <2>4, <1>4
  <2> QED BY <2>3, <2>7, <2>8, <2>9, <2>10, <2>11 DEF Moved, v
<1> QED BY <1>3, <1>5, <1>6 DEF v

LEMMA SetGuildOfKeeps ==
  ASSUME CompanyInv, NEW p \in Player, NEW g \in Guild \cup {Null}, SetGuildOf(p, g)
  PROVE  CompanyInv'
<1>. DEFINE v == SetGuild(state, p, g)
            old == state.guild[p]
            slips == {<<p, h>> : h \in {h \in {old} \ {Null} : g \in Rankless}}
            gone == {<<p, "guild">> : h \in {old} \ {Null}}
            k == [past EXCEPT !.left = @ \cup gone, !.slipped = @ \cup slips]
<1>1. state' = v /\ past' = k /\ p \in state.on /\ g \in state.loaded \cup {Null} /\ g # old
  BY DEF SetGuildOf
<1>2. state \in AnyCompany /\ past \in AnyPast
  BY DEF CompanyInv, Good
<1>3. old \in Guild \cup {Null} /\ Null \notin Guild
  BY <1>2, ChannelKinds DEF AnyCompany
<1>4. Moved(state, v, p, g)
  BY <1>1, <1>2, GuildMoves
<1>. HIDE DEF v
<1>5. /\ gone \subseteq Player \X Ids /\ (old # Null => <<p, "guild">> \in gone)
      /\ slips \subseteq Player \X Guild /\ (old # Null /\ g \in Rankless => <<p, old>> \in slips)
  BY <1>3 DEF Ids
<1>. HIDE DEF gone, slips
<1>6. /\ k \in AnyPast /\ k.dropped = past.dropped /\ k.copied = past.copied
      /\ k.left = past.left \cup gone /\ k.slipped = past.slipped \cup slips
  BY <1>2, <1>5 DEF AnyPast
<1>. HIDE DEF k
<1>7. /\ v.guild[p] = IF g \in Rankless THEN Null ELSE g
      /\ \A q \in Player : q # p => v.guild[q] = state.guild[q]
  BY <1>2, <1>4 DEF Moved, AnyCompany
<1>8. Present(v)
  BY <1>1, <1>4, <1>7 DEF CompanyInv, Good, Present, Moved, SameTalk, SameSlots
<1>9. Slots(v) /\ Leaders(v)
  BY <1>4 DEF CompanyInv, Good, Slots, Leaders, Moved, SameTalk, SameSlots, SameParties
<1>10. ASSUME NEW q \in Player PROVE Reasons(v, k, q)
  <2>1. \A c \in Guild : q \in state.users[c] => c \in state.made /\ (v.guild[q] = c \/ <<q, "guild">> \in k.left)
    BY <1>3, <1>5, <1>6, <1>7 DEF CompanyInv, Good, Reasons
  <2>2. /\ \A c \in Address : q \in state.users[c] => c \in state.made /\ (state.party[q] = c \/ <<q, "party">> \in k.left)
        /\ \A c \in Normal : q \in state.users[c] => q \in state.may \/ <<q, c>> \in k.left
    BY <1>6 DEF CompanyInv, Good, Reasons
  <2> QED BY <2>1, <2>2, <1>4 DEF Reasons, Moved, SameTalk, SameSlots, SameParties
<1>11. \A q \in v.linked : Matches(v, k, q)
  BY <1>4, <1>6 DEF CompanyInv, Good, Matches, Moved, SameTalk
<1>12. Buddies(v)
  BY <1>4 DEF CompanyInv, Good, Buddies, Visible, Moved
<1>13. Guilds(v, k)
  <2>0. Guilds(state, past)
    BY DEF CompanyInv, Good
  <2>1. ASSUME NEW h \in Guild, NEW q \in v.members[h] PROVE v.guild[q] = h \/ <<q, h>> \in k.slipped
    <3>0. q \in Player
      BY <1>4 DEF Moved, AnyCompany
    <3>1. CASE q # p
      <4>1. q \in state.members[h]
        <5>1. v.members[h] \subseteq state.members[h] \cup {p}
          BY <1>4 DEF Moved
        <5> QED BY <5>1, <3>1, <2>1
      <4> QED BY <4>1, <3>0, <3>1, <2>0, <1>6, <1>7 DEF Guilds
    <3>2. CASE q = p /\ g \in Rankless
      <4>1. q \in state.members[h]
        BY <3>2, <2>1, <1>4 DEF Moved
      <4> QED BY <4>1, <3>2, <2>0, <1>3, <1>5, <1>6 DEF Guilds
    <3>3. CASE q = p /\ g \notin Rankless
      <4>1. h = g \/ (h # old /\ q \in state.members[h])
        BY <3>3, <2>1, <1>4 DEF Moved
      <4> QED BY <4>1, <3>3, <2>0, <1>6, <1>7 DEF Guilds
    <3> QED BY <3>1, <3>2, <3>3
  <2>2. ASSUME NEW q \in Player, v.guild[q] # Null
        PROVE  v.guild[q] \in v.loaded /\ q \in v.members[v.guild[q]]
    <3>1. CASE q = p
      <4>1. g \notin Rankless /\ v.guild[q] = g /\ g \in Guild /\ g \in state.loaded
        BY <3>1, <2>2, <1>1, <1>7
      <4> QED BY <4>1, <3>1, <1>1, <1>4 DEF Moved
    <3>2. CASE q # p
      <4>1. v.guild[q] = state.guild[q] /\ state.guild[q] \in Guild
        BY <3>2, <2>2, <1>2, <1>7 DEF AnyCompany
      <4>2. state.guild[q] \in state.loaded /\ q \in state.members[state.guild[q]]
        BY <4>1, <2>2, <2>0 DEF Guilds
      <4>3. q \in v.members[state.guild[q]]
        BY <4>1, <4>2, <3>2, <1>4 DEF Moved
      <4> QED BY <4>1, <4>2, <4>3, <1>4 DEF Moved
    <3> QED BY <3>1, <3>2
  <2>3. ASSUME NEW h \in v.loaded PROVE v.members[h] # {} \/ h \in k.copied
    <3>1. h \in state.loaded /\ h \in Guild /\ (h = old /\ g \notin Rankless => v.members[h] # {})
      BY <2>3, <1>2, <1>4 DEF Moved, AnyCompany
    <3>2. state.members[h] # {} \/ h \in past.copied
      BY <3>1, <2>0 DEF Guilds
    <3>3. h # old \/ g \in Rankless => state.members[h] \subseteq v.members[h]
      BY <3>1, <1>4 DEF Moved
    <3> QED BY <3>1, <3>2, <3>3, <1>6
  <2> QED BY <2>1, <2>2, <2>3 DEF Guilds
<1>14. Good(v, k)
  <2>1. v \in AnyCompany
    BY <1>4 DEF Moved
  <2> QED BY <2>1, <1>6, <1>8, <1>9, <1>10, <1>11, <1>12, <1>13 DEF Good
<1> QED BY <1>1, <1>14 DEF CompanyInv

LEMMA LoginStep ==
  ASSUME CompanyInv, NEW p \in Player, NEW g \in Guild \cup {Null}, NEW list \in SUBSET Player, Login(p, g, list)
  PROVE  CompanyInv'
<1>. DEFINE u == NotifyStatusChange(state, p, TRUE, Player)
            guests == [h \in Guild |-> IF h = g THEN u.members[h] \cup {p} ELSE u.members[h]]
            w == [u EXCEPT !.on = @ \cup {p}, !.linked = @ \cup {p}, !.guild[p] = g, !.listed[p] = list,
                           !.loaded = @ \cup ({g} \ {Null}), !.members = guests]
            v == SendVIPEntries(w, p)
<1>1. state' = v /\ past' = past /\ p \notin state.on
  BY DEF Login, Makes
<1>2. state \in AnyCompany /\ past \in AnyPast /\ Null \notin Guild
  BY ChannelKinds DEF CompanyInv, Good
<1>3. Told(state, u, p, TRUE, Player)
  BY <1>2, NotifyTells
<1>. HIDE DEF u
<1>4. /\ u \in AnyCompany /\ SameTalk(state, u) /\ u.on = state.on /\ u.linked = state.linked /\ u.guild = state.guild
      /\ u.loaded = state.loaded /\ u.members = state.members /\ u.listed = state.listed /\ u.ghost = state.ghost
  BY <1>2, <1>3 DEF Told, AnyCompany, SameTalk, SameSlots, SameParties
<1>5. guests \in [Guild -> SUBSET Player] /\ \A h \in Guild : guests[h] = IF h = g THEN state.members[h] \cup {p} ELSE state.members[h]
  BY <1>4 DEF AnyCompany
<1>. HIDE DEF guests
<1>6. /\ w.guild = [u.guild EXCEPT ![p] = g] /\ w.listed = [u.listed EXCEPT ![p] = list]
      /\ w.on = u.on \cup {p} /\ w.linked = u.linked \cup {p} /\ w.loaded = u.loaded \cup ({g} \ {Null}) /\ w.members = guests
      /\ w.ghost = u.ghost /\ w.shown = u.shown /\ SameTalk(u, w)
  BY <1>4 DEF AnyCompany, SameTalk, SameSlots, SameParties
<1>7. w \in AnyCompany
  <2>1. u.guild \in [Player -> Guild \cup {Null}] /\ u.listed \in [Player -> SUBSET Player]
    BY <1>4 DEF AnyCompany
  <2>2. w.guild \in [Player -> Guild \cup {Null}] /\ w.listed \in [Player -> SUBSET Player]
    BY <2>1, <1>6
  <2>3. w.on \in SUBSET Player /\ w.linked \in SUBSET Player /\ w.loaded \in SUBSET Guild
    BY <1>4, <1>6 DEF AnyCompany
  <2>. DEFINE x == [u EXCEPT !.on = @ \cup {p}, !.linked = @ \cup {p}, !.loaded = @ \cup ({g} \ {Null})]
              y == [x EXCEPT !.guild = w.guild, !.listed = w.listed, !.members = guests]
  <2>4. x \in AnyCompany
    <3>1. u.on \cup {p} \in SUBSET Player /\ u.linked \cup {p} \in SUBSET Player /\ u.loaded \cup ({g} \ {Null}) \in SUBSET Guild
      BY <1>4 DEF AnyCompany
    <3> QED BY <3>1, <1>4 DEF AnyCompany
  <2>5. w = y
    BY <1>4, <1>6 DEF AnyCompany
  <2>6. y \in AnyCompany
    <3>. HIDE DEF x, w
    <3> QED BY <2>2, <2>4, <1>5 DEF AnyCompany
  <2>. HIDE DEF w, y
  <2> QED BY <2>5, <2>6
<1>. HIDE DEF w
<1>8. Sent(w, v, p)
  BY <1>7, EntriesSent
<1>. HIDE DEF v
<1>9. /\ v \in AnyCompany /\ SameTalk(state, v)
      /\ v.guild = [state.guild EXCEPT ![p] = g] /\ v.listed = [state.listed EXCEPT ![p] = list]
      /\ v.on = state.on \cup {p} /\ v.linked = state.linked \cup {p} /\ v.loaded = state.loaded \cup ({g} \ {Null})
      /\ v.members = guests /\ v.ghost = state.ghost
  BY <1>4, <1>6, <1>7, <1>8 DEF Sent, AnyCompany, SameTalk, SameSlots, SameParties
<1>10. /\ \A q \in Player : v.guild[q] = IF q = p THEN g ELSE state.guild[q]
       /\ \A q \in Player : q # p => v.listed[q] = state.listed[q]
  BY <1>2, <1>9 DEF AnyCompany
<1>11. /\ state.guild[p] = Null /\ p \notin state.linked /\ p \notin state.ghost /\ state.windows[p] = {}
       /\ \A c \in Channel : p \notin state.users[c]
  BY <1>1 DEF CompanyInv, Good, Present
<1>12. Present(v)
  BY <1>9, <1>10 DEF CompanyInv, Good, Present, SameTalk, SameSlots
<1>13. Slots(v) /\ Leaders(v)
  BY <1>9 DEF CompanyInv, Good, Slots, Leaders, SameTalk, SameSlots, SameParties
<1>14. ASSUME NEW q \in Player PROVE Reasons(v, past, q)
  <2>1. \A c \in Channel : q \in state.users[c] => v.guild[q] = state.guild[q]
    BY <1>10, <1>11
  <2> QED BY <2>1, <1>9, ChannelKinds DEF CompanyInv, Good, Reasons, SameTalk, SameSlots, SameParties
<1>15. \A q \in v.linked : Matches(v, past, q)
  BY <1>9, <1>11 DEF CompanyInv, Good, Matches, SameTalk
<1>16. Guilds(v, past)
  <2>0. Guilds(state, past)
    BY DEF CompanyInv, Good
  <2>1. ASSUME NEW h \in Guild, NEW q \in v.members[h] PROVE v.guild[q] = h \/ <<q, h>> \in past.slipped
    <3>1. q \in Player /\ q \in IF h = g THEN state.members[h] \cup {p} ELSE state.members[h]
      BY <2>1, <1>5, <1>9 DEF AnyCompany
    <3>2. CASE q = p /\ h = g
      BY <3>2, <1>10
    <3>3. CASE q # p \/ h # g
      <4>1. q \in state.members[h]
        BY <3>1, <3>3
      <4>2. state.guild[q] = h \/ <<q, h>> \in past.slipped
        BY <4>1, <2>0 DEF Guilds
      <4>3. q = p => state.guild[q] # h
        BY <1>2, <1>11
      <4> QED BY <4>2, <4>3, <3>1, <1>10
    <3> QED BY <3>2, <3>3
  <2>2. ASSUME NEW q \in Player, v.guild[q] # Null
        PROVE  v.guild[q] \in v.loaded /\ q \in v.members[v.guild[q]]
    <3>1. CASE q = p
      BY <2>2, <3>1, <1>5, <1>9, <1>10
    <3>2. CASE q # p
      <4>1. v.guild[q] = state.guild[q] /\ state.guild[q] \in Guild
        BY <2>2, <3>2, <1>2, <1>10 DEF AnyCompany
      <4>2. state.guild[q] \in state.loaded /\ q \in state.members[state.guild[q]]
        BY <4>1, <2>2, <2>0 DEF Guilds
      <4>3. state.members[state.guild[q]] \subseteq guests[state.guild[q]]
        BY <4>1, <1>5
      <4> QED BY <4>1, <4>2, <4>3, <1>9
    <3> QED BY <3>1, <3>2
  <2>3. ASSUME NEW h \in v.loaded PROVE v.members[h] # {} \/ h \in past.copied
    <3>1. h \in Guild
      BY <1>9 DEF AnyCompany
    <3>2. CASE h = g
      BY <3>1, <3>2, <1>5, <1>9
    <3>3. CASE h # g
      BY <2>3, <3>1, <3>3, <2>0, <1>5, <1>9 DEF Guilds
    <3> QED BY <3>2, <3>3
  <2> QED BY <2>1, <2>2, <2>3 DEF Guilds
<1>17. Buddies(v)
  <2>1. ASSUME NEW q \in v.linked, NEW r \in v.listed[q], v.shown[q][r] # "absent"
        PROVE  v.shown[q][r] = Status(Visible(v, q, r))
    <3>0. q \in Player /\ r \in Player
      BY <1>9 DEF AnyCompany
    <3>1. Visible(v, q, r) <=> Visible(w, q, r)
      BY <1>4, <1>6, <1>9 DEF Visible
    <3>2. CASE q = p
      BY <2>1, <3>0, <3>1, <3>2, <1>8 DEF Sent, Status
    <3>3. CASE q # p
      <4>1. q \in state.linked /\ r \in state.listed[q] /\ v.shown[q] = u.shown[q]
        BY <2>1, <3>0, <3>3, <1>6, <1>8, <1>9, <1>10 DEF Sent
      <4>2. CASE r = p
        <5>1. v.shown[q][r] = Status(TRUE)
          BY <4>1, <4>2, <3>0, <1>3 DEF Told
        <5>2. Visible(v, q, r)
          BY <4>2, <1>9, <1>11 DEF Visible
        <5> QED BY <5>1, <5>2 DEF Status
      <4>3. CASE r # p
        <5>1. v.shown[q][r] = state.shown[q][r]
          BY <4>1, <4>3, <3>0, <1>3 DEF Told
        <5>2. Visible(v, q, r) <=> Visible(state, q, r)
          BY <4>3, <1>9 DEF Visible
        <5> QED BY <2>1, <4>1, <5>1, <5>2 DEF CompanyInv, Good, Buddies, Status
      <4> QED BY <4>2, <4>3
    <3> QED BY <3>2, <3>3
  <2> QED BY <2>1 DEF Buddies
<1>18. Good(v, past)
  BY <1>2, <1>9, <1>12, <1>13, <1>14, <1>15, <1>16, <1>17 DEF Good
<1> QED BY <1>1, <1>18 DEF CompanyInv

\* Who is of no party has none to leave.
Unpartied(w, v, p, G) ==
  /\ v \in AnyCompany /\ SameRest(w, v) /\ SameSlots(w, v) /\ v.users = w.users /\ Leaders(v)
  /\ \A q \in Player : v.party[q] = IF q \in G THEN Null ELSE w.party[q]
  /\ \A q \in Player : v.windows[q] = IF q \in G THEN w.windows[q] \ {"party"} ELSE w.windows[q]
  /\ \A q \in G : q # p => /\ w.party[p] # Null /\ v.leader[w.party[p]] = Null
                           /\ q \in Members(w, w.party[p])

LEMMA NoParty ==
  ASSUME NEW w \in AnyCompany, Leaders(w), NEW p \in Player, NEW invited \in BOOLEAN
  PROVE  \E G \in SUBSET Player :
           Unpartied(w, IF w.party[p] = Null THEN w ELSE LeaveParty(w, p, invited), p, G)
<1>1. CASE w.party[p] = Null
  <2>1. Unpartied(w, w, p, {})
    BY DEF SameRest, SameSlots, Unpartied
  <2> QED BY <1>1, <2>1
<1>2. CASE w.party[p] # Null
  <2>1. PICK G \in SUBSET Player : PartyLeft(w, LeaveParty(w, p, invited), p, G)
    BY <1>2, LeavePartyLeaves
  <2>2. Unpartied(w, LeaveParty(w, p, invited), p, G)
    BY <1>2, <2>1 DEF PartyLeft, Unpartied
  <2> QED BY <1>2, <2>2
<1> QED BY <1>1, <1>2

LEMMA LogoutKeeps ==
  ASSUME CompanyInv, NEW p \in Player, NEW invited \in BOOLEAN, Logout(p, invited)
  PROVE  CompanyInv'
<1>. DEFINE a == state.party[p]
            y == IF a = Null THEN state ELSE LeaveParty(state, p, invited)
            x == RemoveUserFromAllChannels(y, p)
            old == state.guild[p]
            w == IF old = Null THEN x ELSE RemoveMember(x, p, old)
            u == NotifyStatusChange(w, p, FALSE, Player \ {p})
            v == [u EXCEPT !.on = @ \ {p}, !.linked = @ \ {p}, !.guild[p] = Null, !.ghost = @ \ {p},
                           !.windows[p] = {}, !.listed[p] = {}, !.shown[p] = Nothing]
            gone == IF a = Null \/ w.leader[a] # Null THEN {} ELSE Members(state, a) \ {p}
            news == {<<q, "party">> : q \in gone}
            k == [past EXCEPT !.left = {z \in @ : z[1] # p} \cup news, !.dropped = {z \in @ : z[1] # p}]
<1>1. state' = v /\ past' = k /\ p \in state.on
  BY DEF Logout
<1>2. state \in AnyCompany /\ past \in AnyPast /\ Leaders(state) /\ Slots(state)
  BY DEF CompanyInv, Good
<1>3. PICK G \in SUBSET Player : Unpartied(state, y, p, G)
  BY <1>2, NoParty
<1>. HIDE DEF y
<1>4. TalkLeft(y, x, p)
  BY <1>3, AllLeft DEF Unpartied
<1>. HIDE DEF x
<1>5. Slots(y)
  BY <1>2, <1>3 DEF Unpartied, Slots, SameSlots
<1>6. /\ Slots(x)
      /\ \A c \in Channel : x.users[c] \subseteq y.users[c] /\ p \notin x.users[c]
      /\ \A i \in Private : x.invites[i] \subseteq y.invites[i] /\ p \notin x.invites[i]
      /\ \A q \in Player : x.windows[q] \subseteq y.windows[q]
      /\ \A q \in Player \ {p} : Matches(y, k, q) => Matches(x, k, q)
      /\ \A q \in Player \ {p} : Reasons(y, k, q) => Reasons(x, k, q)
  <2>. HIDE DEF k
  <2>1. y \in AnyCompany
    BY <1>3 DEF Unpartied
  <2> QED BY <2>1, <1>4, <1>5, LeftKeeps
<1>7. /\ x \in AnyCompany /\ SameRest(state, x) /\ x.party = y.party /\ x.leader = y.leader
  BY <1>3, <1>4 DEF Unpartied, TalkLeft, SameRest, SameParties
<1>8. old \in Guild \cup {Null} /\ Null \notin Guild
  BY <1>2, ChannelKinds DEF AnyCompany
<1>9. /\ w \in AnyCompany /\ SameTalk(x, w) /\ w.on = state.on /\ w.linked = state.linked /\ w.ghost = state.ghost
      /\ w.guild = state.guild /\ w.listed = state.listed /\ w.shown = state.shown
      /\ \A h \in Guild : w.members[h] = IF h = old THEN state.members[h] \ {p} ELSE state.members[h]
      /\ w.loaded = {h \in state.loaded : h = old => w.members[h] # {}}
  <2>1. CASE old = Null
    <3>1. w = x
      BY <2>1
    <3>2. w.loaded = {h \in state.loaded : h = old => w.members[h] # {}}
      BY <2>1, <3>1, <1>2, <1>7, <1>8 DEF AnyCompany, SameRest
    <3>3. \A h \in Guild : w.members[h] = IF h = old THEN state.members[h] \ {p} ELSE state.members[h]
      BY <2>1, <3>1, <1>7, <1>8 DEF SameRest
    <3> QED BY <3>1, <3>2, <3>3, <1>7 DEF SameRest, SameTalk, SameSlots, SameParties
  <2>2. CASE old # Null
    <3>. DEFINE rest == x.members[old] \ {p}
    <3>1. w = [x EXCEPT !.members[old] = rest, !.loaded = IF rest = {} THEN @ \ {old} ELSE @]
      BY <2>2 DEF RemoveMember
    <3>2. old \in Guild /\ rest \subseteq Player /\ rest = state.members[old] \ {p}
      BY <2>2, <1>2, <1>7, <1>8 DEF AnyCompany, SameRest
    <3>. HIDE DEF rest, w
    <3>3. w \in AnyCompany
      BY <3>1, <3>2, <1>7 DEF AnyCompany
    <3>4. /\ SameTalk(x, w) /\ w.on = x.on /\ w.linked = x.linked /\ w.ghost = x.ghost
          /\ w.guild = x.guild /\ w.listed = x.listed /\ w.shown = x.shown
          /\ w.members = [x.members EXCEPT ![old] = rest]
          /\ w.loaded = IF rest = {} THEN x.loaded \ {old} ELSE x.loaded
      BY <3>1, <1>7 DEF AnyCompany, SameTalk, SameSlots, SameParties
    <3>5. \A h \in Guild : w.members[h] = IF h = old THEN state.members[h] \ {p} ELSE state.members[h]
      BY <3>2, <3>4, <1>7 DEF AnyCompany, SameRest
    <3>6. w.loaded = {h \in state.loaded : h = old => w.members[h] # {}}
      BY <3>2, <3>4, <3>5, <1>7 DEF SameRest
    <3> QED BY <3>3, <3>4, <3>5, <3>6, <1>7 DEF SameRest
  <2> QED BY <2>1, <2>2
<1>10. /\ k \in AnyPast /\ k.slipped = past.slipped /\ k.copied = past.copied
       /\ \A q, id : q # p => (<<q, id>> \in past.left => <<q, id>> \in k.left)
                           /\ (<<q, id>> \in past.dropped => <<q, id>> \in k.dropped)
       /\ \A q \in G : q # p => <<q, "party">> \in k.left
  <2>1. w.leader = y.leader
    BY <1>7, <1>9 DEF SameTalk, SameParties
  <2>2. \A q \in G : q # p => q \in gone
    BY <2>1, <1>3 DEF Unpartied
  <2>. HIDE DEF w
  <2>3. gone \subseteq Player
    BY DEF Members
  <2>. HIDE DEF gone
  <2>4. news \subseteq Player \X Ids /\ \A q \in gone : <<q, "party">> \in news
    BY <2>3 DEF Ids
  <2>. HIDE DEF news
  <2> QED BY <2>2, <2>4, <1>2 DEF AnyPast
<1>. HIDE DEF w, gone, news, k
<1>11. Told(w, u, p, FALSE, Player \ {p})
  BY <1>9, NotifyTells
<1>. HIDE DEF u
<1>12. /\ u \in AnyCompany /\ SameTalk(x, u) /\ u.on = state.on /\ u.linked = state.linked /\ u.ghost = state.ghost
       /\ u.guild = state.guild /\ u.listed = state.listed /\ u.members = w.members /\ u.loaded = w.loaded
  BY <1>9, <1>11 DEF Told, AnyCompany, SameTalk, SameSlots, SameParties
<1>13. /\ v.users = x.users /\ SameSlots(x, v) /\ SameParties(x, v) /\ v.may = x.may
       /\ v.on = state.on \ {p} /\ v.linked = state.linked \ {p} /\ v.ghost = state.ghost \ {p}
       /\ v.guild = [state.guild EXCEPT ![p] = Null] /\ v.listed = [state.listed EXCEPT ![p] = {}]
       /\ v.windows = [x.windows EXCEPT ![p] = {}] /\ v.shown = [u.shown EXCEPT ![p] = Nothing]
       /\ v.members = w.members /\ v.loaded = w.loaded
  BY <1>12 DEF AnyCompany, SameTalk, SameSlots, SameParties
<1>14. v \in AnyCompany
  <2>. DEFINE s == [u EXCEPT !.on = @ \ {p}, !.linked = @ \ {p}, !.ghost = @ \ {p}]
              t == [s EXCEPT !.guild = [u.guild EXCEPT ![p] = Null], !.listed = [u.listed EXCEPT ![p] = {}],
                             !.windows = [u.windows EXCEPT ![p] = {}], !.shown = [u.shown EXCEPT ![p] = Nothing]]
  <2>1. s \in AnyCompany
    BY <1>12 DEF AnyCompany
  <2>2. v = t
    BY <1>12 DEF AnyCompany
  <2>3. t \in AnyCompany
    <3>1. /\ u.guild \in [Player -> Guild \cup {Null}] /\ u.listed \in [Player -> SUBSET Player]
          /\ u.windows \in [Player -> SUBSET Ids] /\ u.shown \in [Player -> [Player -> {"online", "offline", "absent"}]]
      BY <1>12 DEF AnyCompany
    <3>2. Nothing \in [Player -> {"online", "offline", "absent"}]
      BY DEF Nothing
    <3>3. /\ [u.guild EXCEPT ![p] = Null] \in [Player -> Guild \cup {Null}]
          /\ [u.listed EXCEPT ![p] = {}] \in [Player -> SUBSET Player]
          /\ [u.windows EXCEPT ![p] = {}] \in [Player -> SUBSET Ids]
          /\ [u.shown EXCEPT ![p] = Nothing] \in [Player -> [Player -> {"online", "offline", "absent"}]]
      BY <3>1, <3>2
    <3>. HIDE DEF s
    <3> QED BY <2>1, <3>3 DEF AnyCompany
  <2>. HIDE DEF v, t
  <2> QED BY <2>2, <2>3
<1>. HIDE DEF v
<1>15. /\ \A q \in Player : v.guild[q] = IF q = p THEN Null ELSE state.guild[q]
       /\ \A q \in Player : v.windows[q] = IF q = p THEN {} ELSE x.windows[q]
       /\ \A q \in Player : q # p => v.listed[q] = state.listed[q] /\ v.shown[q] = u.shown[q]
  <2>1. /\ state.guild \in [Player -> Guild \cup {Null}] /\ state.listed \in [Player -> SUBSET Player]
        /\ x.windows \in [Player -> SUBSET Ids] /\ u.shown \in [Player -> [Player -> {"online", "offline", "absent"}]]
    BY <1>2, <1>7, <1>12 DEF AnyCompany
  <2> QED BY <2>1, <1>13
<1>16. /\ \A c \in Channel : x.users[c] \subseteq state.users[c] \ {p}
       /\ \A i \in Private : x.invites[i] \subseteq state.invites[i] \ {p}
       /\ \A q \in Player : x.windows[q] \subseteq state.windows[q]
  <2>1. y.users = state.users /\ y.invites = state.invites /\ \A q \in Player : y.windows[q] \subseteq state.windows[q]
    BY <1>3 DEF Unpartied, SameSlots
  <2> QED BY <2>1, <1>6
<1>17. Present(v)
  BY <1>13, <1>15, <1>16 DEF CompanyInv, Good, Present, SameSlots
<1>18. Slots(v)
  BY <1>6, <1>13 DEF Slots, SameSlots
<1>19. Leaders(v)
  BY <1>3, <1>7, <1>13 DEF Unpartied, Leaders, SameParties
<1>20. ASSUME NEW q \in Player, q # p
       PROVE  /\ Reasons(x, k, q)
              /\ q \in state.linked => Matches(x, k, q)
  <2>1. /\ y.users = state.users /\ y.made = state.made /\ y.guild = state.guild /\ y.may = state.may
        /\ y.party[q] = IF q \in G THEN Null ELSE state.party[q]
        /\ y.windows[q] = IF q \in G THEN state.windows[q] \ {"party"} ELSE state.windows[q]
    BY <1>3 DEF Unpartied, SameRest, SameSlots
  <2>2. q \in G => <<q, "party">> \in k.left
    BY <1>10, <1>20
  <2>3. /\ \A id : <<q, id>> \in past.left => <<q, id>> \in k.left
        /\ \A id : <<q, id>> \in past.dropped => <<q, id>> \in k.dropped
    BY <1>10, <1>20
  <2>4. Reasons(y, k, q)
    <3>1. Reasons(state, past, q)
      BY DEF CompanyInv, Good
    <3> QED BY <3>1, <2>1, <2>2, <2>3 DEF Reasons
  <2>5. q \in state.linked => Matches(y, k, q)
    <3>1. q \in state.linked => Matches(state, past, q)
      BY DEF CompanyInv, Good
    <3> QED BY <3>1, <2>1, <2>2, <2>3 DEF Matches
  <2> QED BY <2>4, <2>5, <1>6, <1>20
<1>21. ASSUME NEW q \in Player PROVE Reasons(v, k, q)
  <2>1. CASE q = p
    BY <2>1, <1>6, <1>13, ChannelKinds DEF Reasons
  <2>2. CASE q # p
    <3>1. Reasons(x, k, q) /\ v.guild[q] = x.guild[q] /\ v.party[q] = x.party[q] /\ v.made = x.made
      BY <2>2, <1>7, <1>13, <1>15, <1>20 DEF SameRest, SameSlots, SameParties
    <3> QED BY <3>1, <1>13 DEF Reasons
  <2> QED BY <2>1, <2>2
<1>22. ASSUME NEW q \in v.linked PROVE Matches(v, k, q)
  <2>1. q \in Player /\ q \in state.linked /\ q # p
    BY <1>13, <1>14 DEF AnyCompany
  <2>2. Matches(x, k, q) /\ v.windows[q] = x.windows[q]
    BY <2>1, <1>15, <1>20
  <2> QED BY <2>2, <1>13 DEF Matches
<1>23. Guilds(v, k)
  <2>0. Guilds(state, past)
    BY DEF CompanyInv, Good
  <2>1. ASSUME NEW h \in Guild, NEW q \in v.members[h] PROVE v.guild[q] = h \/ <<q, h>> \in k.slipped
    <3>1. q \in Player /\ q \in state.members[h] /\ (h = old => q # p)
      <4>1. v.members[h] = IF h = old THEN state.members[h] \ {p} ELSE state.members[h]
        BY <1>9, <1>13
      <4>2. v.members[h] \subseteq Player
        BY <1>14 DEF AnyCompany
      <4> QED BY <4>1, <4>2, <2>1
    <3>2. state.guild[q] = h \/ <<q, h>> \in k.slipped
      BY <3>1, <2>0, <1>10 DEF Guilds
    <3> QED BY <3>1, <3>2, <1>15
  <2>2. ASSUME NEW q \in Player, v.guild[q] # Null
        PROVE  v.guild[q] \in v.loaded /\ q \in v.members[v.guild[q]]
    <3>1. q # p /\ v.guild[q] = state.guild[q] /\ state.guild[q] \in Guild
      BY <2>2, <1>2, <1>15 DEF AnyCompany
    <3>2. state.guild[q] \in state.loaded /\ q \in state.members[state.guild[q]]
      BY <3>1, <2>2, <2>0 DEF Guilds
    <3>3. q \in w.members[state.guild[q]]
      BY <3>1, <3>2, <1>9
    <3> QED BY <3>1, <3>2, <3>3, <1>9, <1>13
  <2>3. ASSUME NEW h \in v.loaded PROVE v.members[h] # {} \/ h \in k.copied
    <3>1. h \in state.loaded /\ h \in Guild /\ (h = old => v.members[h] # {})
      BY <2>3, <1>9, <1>13, <1>14 DEF AnyCompany
    <3>2. state.members[h] # {} \/ h \in k.copied
      BY <3>1, <2>0, <1>10 DEF Guilds
    <3>3. h # old => v.members[h] = state.members[h]
      BY <3>1, <1>9, <1>13
    <3> QED BY <3>1, <3>2, <3>3
  <2> QED BY <2>1, <2>2, <2>3 DEF Guilds
<1>24. Buddies(v)
  <2>1. ASSUME NEW q \in v.linked, NEW r \in v.listed[q], v.shown[q][r] # "absent"
        PROVE  v.shown[q][r] = Status(Visible(v, q, r))
    <3>1. q \in Player /\ r \in Player /\ q \in state.linked /\ q # p
      BY <1>13, <1>14 DEF AnyCompany
    <3>2. r \in state.listed[q] /\ v.shown[q] = u.shown[q]
      BY <2>1, <3>1, <1>15
    <3>3. CASE r = p
      <4>1. v.shown[q][r] = Status(FALSE)
        BY <3>1, <3>2, <3>3, <1>9, <1>11 DEF Told
      <4>2. ~Visible(v, q, r)
        BY <3>3, <1>13 DEF Visible
      <4> QED BY <4>1, <4>2 DEF Status
    <3>4. CASE r # p
      <4>1. v.shown[q][r] = state.shown[q][r]
        <5>1. \A z \in Player : z # p => u.shown[q][z] = w.shown[q][z]
          BY <3>1, <1>11 DEF Told
        <5> QED BY <5>1, <3>1, <3>2, <3>4, <1>9
      <4>2. Visible(v, q, r) <=> Visible(state, q, r)
        BY <3>4, <1>13 DEF Visible
      <4> QED BY <2>1, <3>1, <3>2, <4>1, <4>2 DEF CompanyInv, Good, Buddies, Status
    <3> QED BY <3>3, <3>4
  <2> QED BY <2>1 DEF Buddies
<1>25. Good(v, k)
  BY <1>10, <1>14, <1>17, <1>18, <1>19, <1>21, <1>22, <1>23, <1>24 DEF Good
<1> QED BY <1>1, <1>25 DEF CompanyInv

LEMMA CompanyStep == CompanyInv /\ [CompanyNext]_companyVars => CompanyInv'
<1>. SUFFICES ASSUME CompanyInv, [CompanyNext]_companyVars PROVE CompanyInv'
  OBVIOUS
<1>1. CASE UNCHANGED companyVars
  BY <1>1 DEF companyVars, CompanyInv
<1>2. ASSUME NEW p \in Player,
             \/ LoseClient(p) \/ Reconnect(p) \/ RequestChannels(p) \/ ChangeRights(p) \/ SetGhostMode(p)
             \/ \E g \in Guild \cup {Null}, list \in SUBSET Player : Login(p, g, list)
             \/ \E invited \in BOOLEAN : Logout(p, invited) \/ QuitParty(p, invited)
      PROVE  CompanyInv'
  BY <1>2, LoseClientKeeps, ReconnectKeeps, RequestChannelsKeeps, ChangeRightsKeeps, SetGhostModeKeeps,
     LoginStep, LogoutKeeps, QuitPartyKeeps
<1>3. ASSUME NEW p \in Player,
             \/ \E c \in Channel : OpenChannel(p, c) /\ (c \in Normal => About("normal"))
             \/ \E id \in Ids : CloseChannel(p, id)
             \/ \E i \in Private : CreatePrivateChannel(p, i) \/ \E q \in Player : ChannelInvite(p, i, q) \/ ChannelExclude(p, i, q)
      PROVE  CompanyInv'
  BY <1>3, OpenChannelKeeps, CloseChannelKeeps, CreatePrivateChannelKeeps, ChannelInviteKeeps, ChannelExcludeKeeps
<1>4. ASSUME NEW p \in Player,
             \/ \E a \in Address : CreateParty(p, a) \/ JoinParty(p, a)
             \/ \E g \in Guild \cup {Null} : SetGuildOf(p, g)
             \/ \E q \in Player : RequestAddVip(p, q) \/ RequestRemoveVip(p, q)
      PROVE  CompanyInv'
  BY <1>4, CreatePartyKeeps, JoinPartyKeeps, SetGuildOfKeeps, RequestAddVipKeeps, RequestRemoveVipKeeps
<1>5. ASSUME NEW c \in Normal, NEW kept \in SUBSET Player, Load(c, kept) PROVE CompanyInv'
  BY <1>5, LoadKeeps
<1>6. ASSUME NEW g \in Guild, LoadCopy(g) PROVE CompanyInv'
  BY <1>6, LoadCopyKeeps
<1> QED BY <1>1, <1>2, <1>3, <1>4, <1>5, <1>6 DEF CompanyNext

\* However players come, go, lose their clients and come back: nothing points
\* at who is gone, a private channel is heard by its owner and who is invited,
\* and what clients show of channels and buddies is so (chat.cpp, guild.cpp).
THEOREM CompanyIsSound == CompanySpec => []CompanySound
<1>1. CompanySpec => []CompanyInv
  BY CompanyInitInv, CompanyStep, PTL DEF CompanySpec
<1> QED BY <1>1, CompanyInvIsSound, PTL
==============================================================================
