---------------------------- MODULE SessionProofs ----------------------------
(***************************************************************************)
(* A client and its tables.  First Session: what a client shows, and whom  *)
(* the table serves, for any players, number of sockets and buffer size.   *)
(*                                                                         *)
(* A client shows the game after exactly the broadcasts up to its cursor   *)
(* because every event on any connection tells the truth about the numbers *)
(* given out: a broadcast's number is one, a private event's is none, and  *)
(* a snapshot's version counts the broadcasts up to its number.  Numbers   *)
(* given out later do not change that.                                     *)
(*                                                                         *)
(* Then the client's store while its game is one of the server's tables    *)
(* (StorePlay with Online), for any number of opponents, sockets and       *)
(* steps.  One client at most is live; what is on its wire begins with a   *)
(* join and a resync unless the server knows it; and the bets ascend from  *)
(* what the server read over the wire to the client's queue.  What a page  *)
(* makes of a list of events is a fold, which keeps whatever each of its   *)
(* steps keeps.                                                            *)
(***************************************************************************)
EXTENDS Session, StorePlay, HandProofs, SequenceTheorems

UpTo(C, n) == {s \in C : s <= n}

\* The events that may be on their way when the numbers up to n are given out, those of
\* C to broadcasts.
Good(C, n) ==
  {e \in Event :
    /\ e.seq \in 1 .. n
    /\ e.kind = "snapshot" => e.version = Cardinality(UpTo(C, e.seq))
    /\ e.kind = "cast" => e.seq \in C
    /\ e.kind = "own" => e.seq \notin C}

Queues(S) ==
  {q \in [Players -> [Conns -> Seq(S)]] :
    \A p \in Players, c \in Conns : Len(q[p][c]) <= Buffer}

Shapes ==
  /\ privates \in 0 .. MaxPrivates
  /\ subs \in [Players -> Conns \cup {NoConn}]
  /\ disconnected \in [Players -> BOOLEAN] /\ dropped \in [Players -> BOOLEAN]

NumbersOK ==
  /\ seq \in Nat /\ casts \in SUBSET (1 .. seq) /\ version = Cardinality(casts)
  /\ out \in Queues(Good(casts, seq))

ViewsOK ==
  /\ lastSeq \in [Players -> 0 .. seq] /\ shown \in [Players -> Nat \cup {Blank}]
  /\ \A p \in Players :
       shown[p] # Blank => lastSeq[p] > 0 /\ shown[p] = Cardinality(UpTo(casts, lastSeq[p]))

\* The commands of one connection.
Ours(p, c) == {m \in Command : m.kind \in {"join", "resync"} /\ m.player = p /\ m.conn = c}

SocketsOK ==
  /\ inbox \in Seq(Command)
  /\ sock \in [Players -> [Conns -> SockState]]
  /\ cur \in [Players -> Conns \cup {NoConn}]
  /\ wire \in [Players -> [Conns -> Seq(Command)]]
  /\ \A p \in Players, c \in Conns :
       wire[p][c] \in Seq(Ours(p, c)) /\ (c > cur[p] => sock[p][c] = "unused")

\* A connection that addressed the table, and whose close the table will be told of.
WillTell(socks, p, c) == socks[p][c] \in {"joined", "closed"}

ToldAfter(box, p, i) ==
  \E j \in DOMAIN box : j > i /\ box[j].kind = "disconnected" /\ box[j].player = p

\* A join that is handled late may subscribe a connection that is gone: then the
\* disconnect is behind it in the inbox.
JoinsOK ==
  \A i \in DOMAIN inbox :
    inbox[i].kind = "join" =>
      WillTell(sock, inbox[i].player, inbox[i].conn) \/ ToldAfter(inbox, inbox[i].player, i)

SubsOK ==
  \A p \in Players, c \in Conns : subs[p] = c => WillTell(sock, p, c) \/ ToldAfter(inbox, p, 0)

SessionInv ==
  Shapes /\ NumbersOK /\ ViewsOK /\ SocketsOK /\ JoinsOK /\ SubsOK

-----------------------------------------------------------------------------
(* Numbers *)

LEMMA CastsFinite ==
  ASSUME NEW n \in Nat, NEW C \in SUBSET (1 .. n)
  PROVE  /\ IsFiniteSet(C) /\ Cardinality(C) \in Nat
         /\ \A k : IsFiniteSet(UpTo(C, k)) /\ Cardinality(UpTo(C, k)) \in Nat
         /\ UpTo(C, n) = C
<1>1. IsFiniteSet(1 .. n)  BY FS_Interval
<1>2. IsFiniteSet(C)  BY <1>1, FS_Subset
<1>3. \A k : UpTo(C, k) \in SUBSET C  BY DEF UpTo
<1>4. \A k : IsFiniteSet(UpTo(C, k))  BY <1>2, <1>3, FS_Subset
<1>5. UpTo(C, n) = C
  <2>1. \A s \in C : s <= n  OBVIOUS
  <2> QED  BY <2>1, Zenon DEF UpTo
<1> QED  BY <1>2, <1>4, <1>5, FS_CardinalityType

\* One more broadcast.
LEMMA CastsGrow ==
  ASSUME NEW n \in Nat, NEW C \in SUBSET (1 .. n)
  PROVE  /\ C \cup {n + 1} \in SUBSET (1 .. (n + 1))
         /\ Cardinality(C \cup {n + 1}) = Cardinality(C) + 1
         /\ \A k \in 0 .. n : UpTo(C \cup {n + 1}, k) = UpTo(C, k)
<1>1. IsFiniteSet(C) /\ n + 1 \notin C  BY CastsFinite
<1>2. Cardinality(C \cup {n + 1}) = Cardinality(C) + 1  BY <1>1, FS_AddElement
<1>3. \A k \in 0 .. n : UpTo(C \cup {n + 1}, k) = UpTo(C, k)  BY DEF UpTo
<1> QED  BY <1>2, <1>3

LEMMA NextNumber ==
  ASSUME NEW n \in Nat, NEW C \in SUBSET Nat
  PROVE  /\ n + 1 \in C => UpTo(C, n + 1) = UpTo(C, n) \cup {n + 1}
         /\ n + 1 \notin C => UpTo(C, n + 1) = UpTo(C, n)
         /\ n + 1 \notin UpTo(C, n)
<1>1. \A k \in C : k <= n + 1 <=> k <= n \/ k = n + 1
  OBVIOUS
<1>2. ~(n + 1 <= n)  OBVIOUS
<1>3. n + 1 \notin C => UpTo(C, n + 1) = UpTo(C, n)
  BY <1>1 DEF UpTo
<1>4. n + 1 \in C => UpTo(C, n + 1) = UpTo(C, n) \cup {n + 1}
  BY <1>1 DEF UpTo
<1> QED  BY <1>2, <1>3, <1>4 DEF UpTo

\* Events stay true when more numbers are given out.
LEMMA GoodGrows ==
  ASSUME NEW n \in Nat, NEW C \in SUBSET (1 .. n), NEW k \in Nat, k >= n
  PROVE  Good(C, n) \subseteq Good(C, k) /\ Good(C, n) \subseteq Good(C \cup {n + 1}, k)
<1>1. Good(C, n) \subseteq Good(C, k)  BY DEF Good
<1>2. ASSUME NEW e \in Good(C, n)
      PROVE  e \in Good(C \cup {n + 1}, k)
  <2>1. e \in Event /\ e.seq \in 1 .. n  BY DEF Good
  <2>2. UpTo(C \cup {n + 1}, e.seq) = UpTo(C, e.seq)  BY <2>1, CastsGrow
  <2>3. e.seq \in C \cup {n + 1} <=> e.seq \in C  BY <2>1
  <2> QED  BY <1>2, <2>1, <2>2, <2>3 DEF Good
<1> QED  BY <1>1, <1>2

LEMMA QueuesGrow ==
  ASSUME NEW S, NEW T, S \subseteq T, NEW q \in Queues(S)
  PROVE  q \in Queues(T)
<1>1. Seq(S) \subseteq Seq(T)  OBVIOUS
<1> QED  BY <1>1 DEF Queues

\* trySend adds an event where there is room.
LEMMA SentQueues ==
  ASSUME NEW S, NEW e \in S, NEW q \in Queues(S), NEW p \in Players, NEW c \in Conns
  PROVE  Sent(q, p, c, e) \in Queues(S)
<1> Buffer \in Nat  BY SessionAssumption
<1>1. CASE Live(p, c) /\ Len(q[p][c]) < Buffer
  <2> DEFINE longer == Append(q[p][c], e)
  <2>1. longer \in Seq(S) /\ Len(longer) <= Buffer
    BY <1>1 DEF Queues
  <2>2. Sent(q, p, c, e) = [q EXCEPT ![p][c] = longer]
    BY <1>1 DEF Sent
  <2> HIDE DEF longer
  <2>3. [q EXCEPT ![p][c] = longer] \in [Players -> [Conns -> Seq(S)]]
    BY <2>1 DEF Queues
  <2>4. \A r \in Players, d \in Conns : Len([q EXCEPT ![p][c] = longer][r][d]) <= Buffer
    BY <2>1 DEF Queues
  <2> QED  BY <2>2, <2>3, <2>4 DEF Queues
<1>2. CASE ~(Live(p, c) /\ Len(q[p][c]) < Buffer)
  BY <1>2 DEF Sent
<1> QED  BY <1>1, <1>2

\* A broadcast is sent to each subscriber.
LEMMA CastQueues ==
  ASSUME NEW S, NEW e \in S, NEW q \in Queues(S), NEW to \in [Players -> Conns \cup {NoConn}]
  PROVE  [p \in Players |-> IF to[p] = NoConn THEN q[p] ELSE Sent(q, p, to[p], e)[p]]
           \in Queues(S)
<1> DEFINE told == [p \in Players |-> IF to[p] = NoConn THEN q[p] ELSE Sent(q, p, to[p], e)[p]]
<1>1. ASSUME NEW p \in Players
      PROVE  told[p] \in [Conns -> Seq(S)] /\ \A c \in Conns : Len(told[p][c]) <= Buffer
  <2>1. CASE to[p] = NoConn
    BY <2>1 DEF Queues
  <2>2. CASE to[p] # NoConn
    <3>1. Sent(q, p, to[p], e) \in Queues(S)  BY <2>2, SentQueues
    <3> QED  BY <2>2, <3>1 DEF Queues
  <2> QED  BY <2>1, <2>2
<1> HIDE DEF told
<1>2. told = [p \in Players |-> told[p]]  BY DEF told
<1>3. told \in [Players -> [Conns -> Seq(S)]]  BY <1>1, <1>2
<1>4. told \in Queues(S)  BY <1>1, <1>3 DEF Queues
<1> QED  BY <1>4 DEF told

-----------------------------------------------------------------------------
(* Steps of the table *)

\* What is under way stays true when the table gives out more numbers, the first of
\* them perhaps to a broadcast.
LEMMA OutStaysGood ==
  ASSUME NumbersOK, NEW k \in Nat, k >= seq
  PROVE  out \in Queues(Good(casts, k)) /\ out \in Queues(Good(casts \cup {seq + 1}, k))
<1>1. /\ Good(casts, seq) \subseteq Good(casts, k)
      /\ Good(casts, seq) \subseteq Good(casts \cup {seq + 1}, k)
  BY GoodGrows DEF NumbersOK
<1> QED  BY <1>1, QueuesGrow DEF NumbersOK

LEMMA Renumber ==
  ASSUME NumbersOK, ViewsOK, seq' \in Nat, seq' >= seq,
         \/ casts' = casts /\ version' = version
         \/ seq' > seq /\ casts' = casts \cup {seq + 1} /\ version' = version + 1,
         out' \in Queues(Good(casts', seq')), UNCHANGED <<lastSeq, shown>>
  PROVE  NumbersOK' /\ ViewsOK'
<1>1. seq \in Nat /\ casts \in SUBSET (1 .. seq) /\ version = Cardinality(casts)
  BY DEF NumbersOK
<1>2. /\ casts' \in SUBSET (1 .. seq') /\ version' = Cardinality(casts')
      /\ \A n \in 0 .. seq : UpTo(casts', n) = UpTo(casts, n)
  <2>1. CASE casts' = casts /\ version' = version
    BY <1>1, <2>1
  <2>2. CASE seq' > seq /\ casts' = casts \cup {seq + 1} /\ version' = version + 1
    <3>1. casts' \in SUBSET (1 .. seq')  BY <1>1, <2>2
    <3> QED  BY <1>1, <2>2, <3>1, CastsGrow
  <2> QED  BY <2>1, <2>2
<1>3. lastSeq' \in [Players -> 0 .. seq'] /\ shown' \in [Players -> Nat \cup {Blank}]
  BY <1>1 DEF ViewsOK
<1>4. ASSUME NEW p \in Players, shown'[p] # Blank
      PROVE  lastSeq'[p] > 0 /\ shown'[p] = Cardinality(UpTo(casts', lastSeq'[p]))
  <2>1. lastSeq[p] \in 0 .. seq /\ lastSeq[p] > 0 /\ shown[p] = Cardinality(UpTo(casts, lastSeq[p]))
    BY <1>4 DEF ViewsOK
  <2>2. UpTo(casts', lastSeq[p]) = UpTo(casts, lastSeq[p])  BY <1>2, <2>1
  <2> QED  BY <2>1, <2>2
<1>5. NumbersOK'  BY <1>2 DEF NumbersOK
<1>6. ViewsOK'  BY <1>3, <1>4 DEF ViewsOK
<1> QED  BY <1>5, <1>6

\* The number of the next broadcast, and its event.
LEMMA CastIsGood ==
  ASSUME NumbersOK, NEW k \in Nat, k > seq
  PROVE  [kind |-> "cast", seq |-> seq + 1, version |-> version + 1]
           \in Good(casts \cup {seq + 1}, k)
<1>1. seq \in Nat /\ version \in Nat  BY CastsFinite DEF NumbersOK
<1> QED  BY <1>1 DEF Good, Event

LEMMA SnapshotIsGood ==
  ASSUME NEW k \in Nat \ {0}, NEW C \in SUBSET (1 .. k)
  PROVE  [kind |-> "snapshot", seq |-> k, version |-> Cardinality(C)] \in Good(C, k)
<1>1. Cardinality(C) \in Nat /\ UpTo(C, k) = C  BY CastsFinite
<1> QED  BY <1>1 DEF Good, Event

LEMMA BroadcastStep ==
  ASSUME NumbersOK, ViewsOK, NEW to \in [Players -> Conns \cup {NoConn}],
         Broadcast(to, out), UNCHANGED <<lastSeq, shown>>, dropped \in [Players -> BOOLEAN]
  PROVE  NumbersOK' /\ ViewsOK' /\ dropped' \in [Players -> BOOLEAN]
<1> DEFINE e == [kind |-> "cast", seq |-> seq + 1, version |-> version + 1]
           S == Good(casts \cup {seq + 1}, seq + 1)
<1>1. seq \in Nat  BY DEF NumbersOK
<1>2. e \in S /\ out \in Queues(S)
  <2>1. seq + 1 \in Nat /\ seq + 1 > seq /\ seq + 1 >= seq  BY <1>1
  <2>2. e \in S  BY <2>1, CastIsGood
  <2>3. out \in Queues(S)  BY <2>1, OutStaysGood
  <2> QED  BY <2>2, <2>3
<1>3. /\ seq' = seq + 1 /\ casts' = casts \cup {seq + 1} /\ version' = version + 1
      /\ out' = [p \in Players |-> IF to[p] = NoConn THEN out[p] ELSE Sent(out, p, to[p], e)[p]]
      /\ dropped' \in [Players -> BOOLEAN]
  BY DEF Broadcast, Full
<1> HIDE DEF e
<1>4. out' \in Queues(S)
  BY <1>2, <1>3, CastQueues
<1> QED  BY <1>1, <1>3, <1>4, Renumber

LEMMA PrivateStep ==
  ASSUME NumbersOK, ViewsOK, Shapes, NEW p \in Players, NEW kind \in {"own", "error"},
         Private(p, kind)
  PROVE  NumbersOK' /\ ViewsOK' /\ Shapes'
<1> DEFINE e == [kind |-> kind, seq |-> seq + 1, version |-> version]
<1>1. seq \in Nat /\ version \in Nat /\ casts \in SUBSET (1 .. seq)
  BY CastsFinite DEF NumbersOK
<1>2. e \in Good(casts, seq + 1) /\ out \in Queues(Good(casts, seq + 1))
  <2>1. seq + 1 \in Nat /\ seq + 1 >= seq /\ seq + 1 \notin casts  BY <1>1
  <2>2. e \in Good(casts, seq + 1)  BY <1>1, <2>1 DEF Good, Event
  <2>3. out \in Queues(Good(casts, seq + 1))  BY <2>1, OutStaysGood
  <2> QED  BY <2>2, <2>3
<1>3. /\ seq' = seq + 1 /\ out' = Sent(out, p, subs[p], e) /\ subs[p] \in Conns
      /\ UNCHANGED <<version, casts, lastSeq, shown>>
  BY DEF Private, clientVars, Shapes
<1> HIDE DEF e
<1>4. NumbersOK' /\ ViewsOK'
  BY <1>1, <1>2, <1>3, SentQueues, Renumber
<1>5. Shapes'
  BY SessionAssumption DEF Shapes, Private, Full
<1> QED  BY <1>4, <1>5

LEMMA PrivateElsewhereStep ==
  ASSUME NumbersOK, ViewsOK, Shapes, PrivateElsewhere
  PROVE  NumbersOK' /\ ViewsOK' /\ Shapes'
<1>1. seq \in Nat  BY DEF NumbersOK
<1>2. /\ seq' = seq + 1 /\ UNCHANGED <<version, casts, lastSeq, shown, out>>
  BY DEF PrivateElsewhere, clientVars
<1>3. NumbersOK' /\ ViewsOK'
  BY <1>1, <1>2, OutStaysGood, Renumber
<1>4. Shapes'
  BY SessionAssumption DEF Shapes, PrivateElsewhere
<1> QED  BY <1>3, <1>4

LEMMA Truths ==
  /\ \A q, p, c : Full(q, p, c) \in BOOLEAN
  /\ \A A, B, C : B \in BOOLEAN /\ C \in BOOLEAN => (IF A THEN B ELSE C) \in BOOLEAN
<1>1. \A q, p, c : Full(q, p, c) \in BOOLEAN  BY DEF Full
<1>2. ASSUME NEW A, NEW B, NEW C, B \in BOOLEAN, C \in BOOLEAN
      PROVE  (IF A THEN B ELSE C) \in BOOLEAN
  <2>1. CASE A  BY <1>2, <2>1, Zenon
  <2>2. CASE ~A  BY <1>2, <2>2, Zenon
  <2> QED  BY <2>1, <2>2, Zenon
<1> QED  BY <1>1, <1>2, Zenon

\* The player and the connection of the command that is handled.
LEMMA HeadOfInbox ==
  ASSUME SocketsOK, inbox # <<>>
  PROVE  Head(inbox) = inbox[1] /\ Head(inbox) \in Command /\ 1 \in DOMAIN inbox
         /\ Head(inbox).player \in Players /\ Head(inbox).conn \in Conns
<1>1. inbox \in Seq(Command)  BY DEF SocketsOK
<1>2. Head(inbox) = inbox[1] /\ 1 \in DOMAIN inbox /\ inbox[1] \in Command
  BY <1>1
<1> QED  BY <1>2 DEF Command

LEMMA HandleJoinNumbers ==
  ASSUME NumbersOK, ViewsOK, Shapes, SocketsOK, HandleJoin
  PROVE  NumbersOK' /\ ViewsOK' /\ Shapes'
<1> DEFINE p == Head(inbox).player
           c == Head(inbox).conn
           n == IF disconnected[p] THEN 1 ELSE 0
           k == seq + n + 1
           C == IF n = 1 THEN casts \cup {seq + 1} ELSE casts
           to == [subs EXCEPT ![p] = c]
           cast == [kind |-> "cast", seq |-> seq + 1, version |-> version + 1]
           told == IF n = 0 THEN out
                   ELSE [q \in Players |-> IF to[q] = NoConn THEN out[q]
                                           ELSE Sent(out, q, to[q], cast)[q]]
           snap == [kind |-> "snapshot", seq |-> k, version |-> version + n]
<1>1. p \in Players /\ c \in Conns
  BY HeadOfInbox DEF HandleJoin, Next1
<1>2. seq \in Nat /\ version = Cardinality(casts) /\ version \in Nat /\ casts \in SUBSET (1 .. seq)
  BY CastsFinite DEF NumbersOK
<1>3. n \in {0, 1} /\ k \in Nat \ {0} /\ k > seq /\ (n = 1 => k = seq + 2)
  BY <1>2
<1>4. to \in [Players -> Conns \cup {NoConn}]
  BY <1>1 DEF Shapes
<1>5. C \in SUBSET (1 .. k) /\ version + n = Cardinality(C)
  <2>1. CASE n = 0
    <3>1. C = casts /\ k = seq + 1  BY <1>2, <2>1
    <3> QED  BY <1>2, <2>1, <3>1
  <2>2. CASE n = 1
    <3>1. C = casts \cup {seq + 1} /\ k = seq + 2  BY <1>2, <2>2
    <3> HIDE DEF C, k
    <3>2. /\ casts \cup {seq + 1} \in SUBSET (1 .. (seq + 1))
          /\ Cardinality(casts \cup {seq + 1}) = Cardinality(casts) + 1
      BY <1>2, CastsGrow
    <3>3. casts \cup {seq + 1} \in SUBSET (1 .. (seq + 2))
      BY <1>2, <3>2
    <3> QED  BY <1>2, <2>2, <3>1, <3>2, <3>3
  <2> QED  BY <1>3, <2>1, <2>2
<1>6. /\ subs' = to /\ version' = version + n /\ seq' = k /\ casts' = C
      /\ out' = Sent(told, p, c, snap) /\ UNCHANGED <<lastSeq, shown>>
  BY DEF HandleJoin, clientVars
<1>7. told \in Queues(Good(C, k))
  <2>1. CASE n = 0
    BY <1>2, <1>3, <2>1, OutStaysGood
  <2>2. CASE n = 1
    <3>1. C = casts \cup {seq + 1} /\ k \in Nat /\ k > seq /\ k >= seq
      BY <1>2, <1>3, <2>2
    <3>2. cast \in Good(C, k)  BY <3>1, CastIsGood
    <3>3. out \in Queues(Good(C, k))  BY <3>1, OutStaysGood
    <3> HIDE DEF to, cast, C, k
    <3> QED  BY <1>4, <2>2, <3>2, <3>3, CastQueues
  <2> QED  BY <1>3, <2>1, <2>2
<1>8. snap \in Good(C, k)
  BY <1>3, <1>5, SnapshotIsGood
<1>9. Shapes'
  <2>1. dropped' \in [Players -> BOOLEAN]
    <3>1. \A q \in Players :
            (IF q = p THEN Full(told, p, c)
             ELSE dropped[q] \/ (n = 1 /\ to[q] # NoConn /\ Full(out, q, to[q]))) \in BOOLEAN
      <4> HIDE DEF p, c, told, n, to
      <4> QED  BY Truths, Zenon
    <3> HIDE DEF p, c, told, n, to
    <3> QED  BY <3>1 DEF HandleJoin, p, c, told, n, to
  <2> HIDE DEF to
  <2> QED  BY <1>4, <1>6, <2>1 DEF Shapes, HandleJoin
<1> HIDE DEF told, snap, to
<1>10. out' \in Queues(Good(C, k))
  BY <1>1, <1>6, <1>7, <1>8, SentQueues
<1>11. \/ casts' = casts /\ version' = version
       \/ seq' > seq /\ casts' = casts \cup {seq + 1} /\ version' = version + 1
  BY <1>2, <1>3, <1>6
<1> HIDE DEF C, k, n
<1>12. NumbersOK' /\ ViewsOK'
  BY <1>2, <1>3, <1>6, <1>10, <1>11, Renumber
<1> QED  BY <1>9, <1>12

LEMMA HandleResyncNumbers ==
  ASSUME NumbersOK, ViewsOK, Shapes, SocketsOK, HandleResync
  PROVE  NumbersOK' /\ ViewsOK' /\ Shapes'
<1> DEFINE p == Head(inbox).player
           c == Head(inbox).conn
           snap == [kind |-> "snapshot", seq |-> seq + 1, version |-> version]
<1>1. p \in Players /\ c \in Conns
  BY HeadOfInbox DEF HandleResync, Next1
<1>2. seq \in Nat /\ version = Cardinality(casts) /\ casts \in SUBSET (1 .. (seq + 1))
  BY DEF NumbersOK
<1>3. snap \in Good(casts, seq + 1) /\ out \in Queues(Good(casts, seq + 1))
  BY <1>2, SnapshotIsGood, OutStaysGood
<1>4. /\ seq' = seq + 1 /\ out' = Sent(out, p, c, snap)
      /\ UNCHANGED <<version, casts, lastSeq, shown>>
  BY DEF HandleResync, clientVars
<1>5. Shapes'
  <2>1. (IF subs[p] = c THEN Full(out, p, c) ELSE dropped[p]) \in BOOLEAN
    <3>1. dropped[p] \in BOOLEAN  BY <1>1 DEF Shapes
    <3> HIDE DEF p, c
    <3> QED  BY <3>1, Truths, Zenon
  <2>2. dropped' = [dropped EXCEPT ![p] = IF subs[p] = c THEN Full(out, p, c) ELSE dropped[p]]
    BY DEF HandleResync
  <2> HIDE DEF p, c
  <2>3. dropped' \in [Players -> BOOLEAN]
    BY <2>1, <2>2 DEF Shapes
  <2> QED  BY <2>3 DEF Shapes, HandleResync
<1> HIDE DEF p, c, snap
<1>6. NumbersOK' /\ ViewsOK'
  BY <1>1, <1>2, <1>3, <1>4, SentQueues, Renumber
<1> QED  BY <1>5, <1>6

LEMMA HandleDisconnectNumbers ==
  ASSUME NumbersOK, ViewsOK, Shapes, SocketsOK, HandleDisconnect
  PROVE  NumbersOK' /\ ViewsOK' /\ Shapes'
<1> DEFINE p == Head(inbox).player
           to == [subs EXCEPT ![p] = NoConn]
<1>1. to \in [Players -> Conns \cup {NoConn}]
  BY DEF Shapes
<1>2. /\ UNCHANGED <<lastSeq, shown, privates>> /\ subs' = to
      /\ disconnected' \in [Players -> BOOLEAN]
  BY DEF HandleDisconnect, clientVars, Shapes
<1>3. NumbersOK' /\ ViewsOK' /\ dropped' \in [Players -> BOOLEAN]
  <2>1. CASE disconnected[p]
    <3>1. UNCHANGED <<version, seq, casts, out, dropped>>
      BY <2>1 DEF HandleDisconnect
    <3> QED  BY <1>2, <3>1, Renumber DEF NumbersOK, Shapes
  <2>2. CASE ~disconnected[p]
    <3>1. Broadcast(to, out)
      BY <2>2 DEF HandleDisconnect
    <3> HIDE DEF to
    <3> QED  BY <1>1, <1>2, <3>1, BroadcastStep DEF Shapes
  <2> QED  BY <2>1, <2>2
<1> HIDE DEF to
<1> QED  BY <1>1, <1>2, <1>3 DEF Shapes

\* The table takes the first command of its inbox; the others move up.
LEMMA InboxTail ==
  ASSUME SocketsOK, inbox # <<>>, Handled
  PROVE  /\ inbox' \in Seq(Command)
         /\ \A i \in DOMAIN inbox' : i + 1 \in DOMAIN inbox /\ inbox'[i] = inbox[i + 1]
         /\ \A p \in Players, i \in Nat \ {0} : ToldAfter(inbox, p, i) => ToldAfter(inbox', p, i - 1)
         /\ \A p \in Players : ToldAfter(inbox, p, 0) /\ ~(Head(inbox).kind = "disconnected"
                                 /\ Head(inbox).player = p) => ToldAfter(inbox', p, 0)
<1>1. inbox \in Seq(Command) /\ inbox' = Tail(inbox)  BY DEF SocketsOK, Handled
<1>2. /\ inbox' \in Seq(Command) /\ DOMAIN inbox = 1 .. Len(inbox) /\ Len(inbox) \in Nat \ {0}
      /\ DOMAIN inbox' = 1 .. (Len(inbox) - 1)
      /\ \A i \in DOMAIN inbox' : inbox'[i] = inbox[i + 1]
  BY <1>1
<1>3. \A i \in DOMAIN inbox' : i + 1 \in DOMAIN inbox  BY <1>2
<1>4. \A j \in DOMAIN inbox : j > 1 => j - 1 \in DOMAIN inbox' /\ inbox'[j - 1] = inbox[j]
  BY <1>2
<1>5. ASSUME NEW p \in Players, NEW i \in Nat \ {0}, ToldAfter(inbox, p, i)
      PROVE  ToldAfter(inbox', p, i - 1)
  <2>1. PICK j \in DOMAIN inbox :
          j > i /\ inbox[j].kind = "disconnected" /\ inbox[j].player = p
    BY <1>5 DEF ToldAfter
  <2>2. j - 1 \in DOMAIN inbox' /\ j - 1 > i - 1 /\ inbox'[j - 1] = inbox[j]
    BY <1>2, <1>4, <2>1
  <2> QED  BY <2>1, <2>2 DEF ToldAfter
<1>6. ASSUME NEW p \in Players, ToldAfter(inbox, p, 0),
             ~(Head(inbox).kind = "disconnected" /\ Head(inbox).player = p)
      PROVE  ToldAfter(inbox', p, 0)
  <2>1. PICK j \in DOMAIN inbox : inbox[j].kind = "disconnected" /\ inbox[j].player = p
    BY <1>6 DEF ToldAfter
  <2>2. j # 1  BY <1>1, <1>2, <1>6, <2>1
  <2>3. j - 1 \in DOMAIN inbox' /\ j - 1 > 0 /\ inbox'[j - 1] = inbox[j]
    BY <1>2, <1>4, <2>2
  <2> QED  BY <2>1, <2>3 DEF ToldAfter
<1> QED  BY <1>2, <1>3, <1>5, <1>6

\* The joins behind the one that is handled.
LEMMA JoinsMoveUp ==
  ASSUME SocketsOK, JoinsOK, inbox # <<>>, Handled, UNCHANGED <<sock, wire, cur>>
  PROVE  SocketsOK' /\ JoinsOK'
<1>1. SocketsOK'  BY InboxTail DEF SocketsOK
<1>2. ASSUME NEW i \in DOMAIN inbox', inbox'[i].kind = "join"
      PROVE  WillTell(sock', inbox'[i].player, inbox'[i].conn) \/ ToldAfter(inbox', inbox'[i].player, i)
  <2>1. i + 1 \in DOMAIN inbox /\ inbox'[i] = inbox[i + 1] /\ i \in Nat
    BY InboxTail
  <2>2. inbox[i + 1].player \in Players
    <3>1. inbox[i + 1] \in Command  BY <2>1 DEF SocketsOK
    <3> QED  BY <3>1 DEF Command
  <2>3. WillTell(sock, inbox[i + 1].player, inbox[i + 1].conn) \/ ToldAfter(inbox, inbox[i + 1].player, i + 1)
    BY <1>2, <2>1 DEF JoinsOK
  <2>4. ToldAfter(inbox, inbox[i + 1].player, i + 1) => ToldAfter(inbox', inbox[i + 1].player, i)
    <3>1. i + 1 \in Nat \ {0} /\ (i + 1) - 1 = i  BY <2>1
    <3> QED  BY <2>2, <3>1, InboxTail
  <2> QED  BY <2>1, <2>3, <2>4 DEF WillTell
<1>3. JoinsOK'  BY <1>2 DEF JoinsOK
<1> QED  BY <1>1, <1>3

LEMMA HandleJoinSockets ==
  ASSUME SocketsOK, JoinsOK, SubsOK, Shapes, HandleJoin
  PROVE  SocketsOK' /\ JoinsOK' /\ SubsOK'
<1> DEFINE p == Head(inbox).player
           c == Head(inbox).conn
<1>1. /\ inbox # <<>> /\ Head(inbox).kind = "join" /\ Handled /\ UNCHANGED <<sock, wire, cur>>
      /\ subs' = [subs EXCEPT ![p] = c]
  BY DEF HandleJoin, Next1, clientVars
<1>2. SocketsOK' /\ JoinsOK'  BY <1>1, JoinsMoveUp
<1>3. WillTell(sock, p, c) \/ ToldAfter(inbox', p, 0)
  <2>1. WillTell(sock, p, c) \/ ToldAfter(inbox, p, 1)
    BY <1>1, HeadOfInbox DEF JoinsOK
  <2>2. ToldAfter(inbox, p, 1) => ToldAfter(inbox', p, 0)
    <3>1. p \in Players /\ 1 \in Nat \ {0} /\ 1 - 1 = 0  BY <1>1, HeadOfInbox
    <3> QED  BY <1>1, <3>1, InboxTail
  <2> QED  BY <2>1, <2>2
<1>4. ASSUME NEW q \in Players, NEW d \in Conns, subs'[q] = d
      PROVE  WillTell(sock', q, d) \/ ToldAfter(inbox', q, 0)
  <2>1. CASE q = p
    BY <1>1, <1>3, <1>4, <2>1 DEF Shapes, WillTell
  <2>2. CASE q # p
    <3>1. WillTell(sock, q, d) \/ ToldAfter(inbox, q, 0)
      BY <1>1, <1>4, <2>2 DEF Shapes, SubsOK
    <3> QED  BY <1>1, <3>1, InboxTail DEF WillTell
  <2> QED  BY <2>1, <2>2
<1> QED  BY <1>2, <1>4 DEF SubsOK

LEMMA HandleResyncSockets ==
  ASSUME SocketsOK, JoinsOK, SubsOK, HandleResync
  PROVE  SocketsOK' /\ JoinsOK' /\ SubsOK'
<1>1. /\ inbox # <<>> /\ Head(inbox).kind = "resync" /\ Handled
      /\ UNCHANGED <<sock, wire, cur, subs>>
  BY DEF HandleResync, Next1, clientVars
<1>2. SocketsOK' /\ JoinsOK'  BY <1>1, JoinsMoveUp
<1>3. SubsOK'  BY <1>1, InboxTail DEF SubsOK, WillTell
<1> QED  BY <1>2, <1>3

LEMMA HandleDisconnectSockets ==
  ASSUME SocketsOK, JoinsOK, SubsOK, Shapes, HandleDisconnect
  PROVE  SocketsOK' /\ JoinsOK' /\ SubsOK'
<1> DEFINE p == Head(inbox).player
<1>1. /\ inbox # <<>> /\ Handled /\ UNCHANGED <<sock, wire, cur>>
      /\ subs' = [subs EXCEPT ![p] = NoConn]
  BY DEF HandleDisconnect, Next1, clientVars
<1>2. SocketsOK' /\ JoinsOK'  BY <1>1, JoinsMoveUp
<1>3. ASSUME NEW q \in Players, NEW d \in Conns, subs'[q] = d
      PROVE  WillTell(sock', q, d) \/ ToldAfter(inbox', q, 0)
  <2>1. q # p
    BY <1>1, <1>3 DEF Shapes, NoConn, Conns
  <2>2. WillTell(sock, q, d) \/ ToldAfter(inbox, q, 0)
    BY <1>1, <1>3, <2>1 DEF Shapes, SubsOK
  <2> QED  BY <1>1, <2>1, <2>2, InboxTail DEF WillTell
<1> QED  BY <1>2, <1>3 DEF SubsOK

\* Steps that leave the sockets and the inbox alone.
LEMMA SocketsSame ==
  ASSUME SocketsOK, JoinsOK, SubsOK, UNCHANGED <<subs, inbox, sock, wire, cur>>
  PROVE  SocketsOK' /\ JoinsOK' /\ SubsOK'
  BY DEF SocketsOK, JoinsOK, SubsOK, WillTell, ToldAfter

-----------------------------------------------------------------------------
(* Steps of the gateway and of the client *)

\* A command is added to the inbox; what was told is told.
LEMMA InboxAppend ==
  ASSUME SocketsOK, NEW m \in Command, inbox' = Append(inbox, m)
  PROVE  /\ inbox' \in Seq(Command) /\ DOMAIN inbox \subseteq DOMAIN inbox'
         /\ \A i \in DOMAIN inbox : inbox'[i] = inbox[i]
         /\ \A i \in DOMAIN inbox' : i \in DOMAIN inbox \/ inbox'[i] = m
         /\ Len(inbox) + 1 \in DOMAIN inbox' /\ inbox'[Len(inbox) + 1] = m
         /\ \A i \in DOMAIN inbox : Len(inbox) + 1 > i
         /\ Len(inbox) + 1 > 0
         /\ \A p \in Players, i \in Nat : ToldAfter(inbox, p, i) => ToldAfter(inbox', p, i)
<1>1. inbox \in Seq(Command)  BY DEF SocketsOK
<1>2. inbox' \in Seq(Command) /\ DOMAIN inbox = 1 .. Len(inbox) /\ Len(inbox) \in Nat
      /\ DOMAIN inbox' = 1 .. (Len(inbox) + 1) /\ inbox'[Len(inbox) + 1] = m
      /\ \A i \in DOMAIN inbox : inbox'[i] = inbox[i]
  BY <1>1
<1>3. DOMAIN inbox \subseteq DOMAIN inbox'
      /\ \A i \in DOMAIN inbox' : i \in DOMAIN inbox \/ i = Len(inbox) + 1
  BY <1>2
<1>4. \A p \in Players, i \in Nat : ToldAfter(inbox, p, i) => ToldAfter(inbox', p, i)
  BY <1>2, <1>3 DEF ToldAfter
<1>5. Len(inbox) + 1 \in DOMAIN inbox' /\ Len(inbox) + 1 > 0
      /\ \A i \in DOMAIN inbox : Len(inbox) + 1 > i
  BY <1>2
<1> QED  BY <1>2, <1>3, <1>4, <1>5

LEMMA ReadSockets ==
  ASSUME SocketsOK, JoinsOK, SubsOK, NEW p \in Players, NEW c \in Conns, Read(p, c)
  PROVE  SocketsOK' /\ JoinsOK' /\ SubsOK'
<1> DEFINE m == Head(wire[p][c])
<1>1. wire[p][c] \in Seq(Ours(p, c)) /\ wire[p][c] \in Seq(Command) /\ wire[p][c] # <<>>
  BY DEF SocketsOK, Read
<1>2. /\ m \in Command /\ m.player = p /\ m.conn = c
      /\ Tail(wire[p][c]) \in Seq(Ours(p, c)) /\ Tail(wire[p][c]) \in Seq(Command)
  <2>1. m \in Ours(p, c)  BY <1>1
  <2> QED  BY <1>1, <2>1 DEF Ours
<1>3. /\ inbox' = Append(inbox, m) /\ wire' = [wire EXCEPT ![p][c] = Tail(wire[p][c])]
      /\ sock' = [sock EXCEPT ![p][c] = "joined"] /\ UNCHANGED <<cur, subs>>
      /\ sock[p][c] \in {"open", "joined"}
  BY DEF Read, Live, clientVars, tableVars
<1> HIDE DEF m
<1>4. inbox' \in Seq(Command)  BY <1>2, <1>3, InboxAppend
<1>5. SocketsOK'
  <2>1. sock' \in [Players -> [Conns -> SockState]] /\ wire' \in [Players -> [Conns -> Seq(Command)]]
    BY <1>2, <1>3 DEF SocketsOK, SockState
  <2>2. ASSUME NEW q \in Players, NEW d \in Conns
        PROVE  wire'[q][d] \in Seq(Ours(q, d)) /\ (d > cur[q] => sock'[q][d] = "unused")
    BY <1>2, <1>3 DEF SocketsOK
  <2> QED  BY <1>3, <1>4, <2>1, <2>2 DEF SocketsOK
<1>6. \A q \in Players, d \in Conns : WillTell(sock, q, d) => WillTell(sock', q, d)
  BY <1>3 DEF WillTell, SocketsOK
<1>7. WillTell(sock', p, c)
  BY <1>3 DEF WillTell, SocketsOK
<1>8. SubsOK'
  <2>1. \A q \in Players : ToldAfter(inbox, q, 0) => ToldAfter(inbox', q, 0)
    BY <1>2, <1>3, InboxAppend
  <2> QED  BY <1>3, <1>6, <2>1 DEF SubsOK
<1>9. ASSUME NEW i \in DOMAIN inbox', inbox'[i].kind = "join"
      PROVE  WillTell(sock', inbox'[i].player, inbox'[i].conn) \/ ToldAfter(inbox', inbox'[i].player, i)
  <2>1. CASE inbox'[i] = m
    BY <1>2, <1>7, <2>1
  <2>2. CASE i \in DOMAIN inbox
    <3>1. inbox'[i] = inbox[i] /\ inbox[i] \in Command /\ i \in Nat
      BY <1>2, <1>3, <2>2, InboxAppend DEF SocketsOK
    <3>2. inbox[i].player \in Players /\ inbox[i].conn \in Conns
      BY <3>1 DEF Command
    <3>3. WillTell(sock, inbox[i].player, inbox[i].conn) \/ ToldAfter(inbox, inbox[i].player, i)
      BY <1>9, <2>2, <3>1 DEF JoinsOK
    <3>4. ToldAfter(inbox, inbox[i].player, i) => ToldAfter(inbox', inbox[i].player, i)
      BY <1>2, <1>3, <3>1, <3>2, InboxAppend
    <3> QED  BY <1>6, <3>1, <3>2, <3>3, <3>4
  <2> QED  BY <1>2, <1>3, <2>1, <2>2, InboxAppend
<1>10. JoinsOK'  BY <1>9 DEF JoinsOK
<1> QED  BY <1>5, <1>8, <1>10

\* The steps that neither subscribe anybody nor take from the inbox.
LEMMA JoinsKept ==
  ASSUME SocketsOK, SocketsOK', JoinsOK, SubsOK, UNCHANGED subs,
         \A i \in DOMAIN inbox : i \in DOMAIN inbox' /\ inbox'[i] = inbox[i],
         \A i \in DOMAIN inbox' : i \in DOMAIN inbox \/ inbox'[i].kind # "join",
         \A q \in Players, d \in Conns :
           WillTell(sock, q, d) =>
             WillTell(sock', q, d) \/ \A i \in DOMAIN inbox \cup {0} : ToldAfter(inbox', q, i)
  PROVE  JoinsOK' /\ SubsOK'
<1>1. \A q \in Players, i \in Nat : ToldAfter(inbox, q, i) => ToldAfter(inbox', q, i)
  BY DEF ToldAfter
<1>2. SubsOK'
  BY <1>1 DEF SubsOK
<1>3. ASSUME NEW i \in DOMAIN inbox', inbox'[i].kind = "join"
      PROVE  WillTell(sock', inbox'[i].player, inbox'[i].conn) \/ ToldAfter(inbox', inbox'[i].player, i)
  <2>1. i \in DOMAIN inbox /\ inbox'[i] = inbox[i] /\ i \in Nat /\ inbox[i] \in Command
    BY <1>3 DEF SocketsOK
  <2>2. inbox[i].player \in Players /\ inbox[i].conn \in Conns
    BY <2>1 DEF Command
  <2>3. WillTell(sock, inbox[i].player, inbox[i].conn) \/ ToldAfter(inbox, inbox[i].player, i)
    BY <1>3, <2>1 DEF JoinsOK
  <2> QED  BY <1>1, <2>1, <2>2, <2>3
<1>4. JoinsOK'  BY <1>3 DEF JoinsOK
<1> QED  BY <1>2, <1>4

LEMMA LoseSocketSockets ==
  ASSUME SocketsOK, JoinsOK, SubsOK, NEW p \in Players, NEW c \in Conns, LoseSocket(p, c)
  PROVE  SocketsOK' /\ JoinsOK' /\ SubsOK'
<1>1. /\ sock' = [sock EXCEPT ![p][c] = IF sock[p][c] = "joined" THEN "closed" ELSE "notified"]
      /\ wire' = [wire EXCEPT ![p][c] = <<>>] /\ UNCHANGED <<cur, subs, inbox>>
      /\ sock[p][c] \in {"open", "joined"}
  BY DEF LoseSocket, Live, clientVars, tableVars
<1>2. SocketsOK'
  <2>1. <<>> \in Seq(Command) /\ <<>> \in Seq(Ours(p, c))  OBVIOUS
  <2>2. sock' \in [Players -> [Conns -> SockState]] /\ wire' \in [Players -> [Conns -> Seq(Command)]]
    BY <1>1, <2>1 DEF SocketsOK, SockState
  <2>3. ASSUME NEW q \in Players, NEW d \in Conns
        PROVE  wire'[q][d] \in Seq(Ours(q, d)) /\ (d > cur[q] => sock'[q][d] = "unused")
    BY <1>1, <2>1 DEF SocketsOK
  <2> QED  BY <1>1, <2>2, <2>3 DEF SocketsOK
<1>3. \A q \in Players, d \in Conns : WillTell(sock, q, d) => WillTell(sock', q, d)
  BY <1>1 DEF WillTell, SocketsOK
<1> QED  BY <1>1, <1>2, <1>3, JoinsKept

LEMMA NotifySockets ==
  ASSUME SocketsOK, JoinsOK, SubsOK, NEW p \in Players, NEW c \in Conns, NotifyDisconnect(p, c)
  PROVE  SocketsOK' /\ JoinsOK' /\ SubsOK'
<1> DEFINE m == [kind |-> "disconnected", player |-> p, conn |-> c]
<1>1. /\ sock' = [sock EXCEPT ![p][c] = "notified"] /\ inbox' = Append(inbox, m)
      /\ UNCHANGED <<cur, subs, wire>> /\ sock[p][c] = "closed"
  BY DEF NotifyDisconnect, clientVars, tableVars
<1>2. m \in Command /\ m.kind = "disconnected" /\ m.player = p
  BY DEF Command
<1> HIDE DEF m
<1>3. SocketsOK'
  <2>1. inbox' \in Seq(Command)  BY <1>1, <1>2, InboxAppend
  <2>2. sock' \in [Players -> [Conns -> SockState]]
    BY <1>1 DEF SocketsOK, SockState
  <2>3. ASSUME NEW q \in Players, NEW d \in Conns
        PROVE  d > cur[q] => sock'[q][d] = "unused"
    BY <1>1 DEF SocketsOK
  <2> QED  BY <1>1, <2>1, <2>2, <2>3 DEF SocketsOK
<1>4. \A i \in DOMAIN inbox \cup {0} : ToldAfter(inbox', p, i)
  BY <1>1, <1>2, InboxAppend DEF ToldAfter
<1>5. \A q \in Players, d \in Conns :
        WillTell(sock, q, d) => WillTell(sock', q, d) \/ q = p
  BY <1>1 DEF WillTell, SocketsOK
<1>6. /\ \A i \in DOMAIN inbox : i \in DOMAIN inbox' /\ inbox'[i] = inbox[i]
      /\ \A i \in DOMAIN inbox' : i \in DOMAIN inbox \/ inbox'[i].kind # "join"
  BY <1>1, <1>2, InboxAppend
<1> QED  BY <1>1, <1>3, <1>4, <1>5, <1>6, JoinsKept

LEMMA OpenSockets ==
  ASSUME SocketsOK, JoinsOK, SubsOK, NEW p \in Players, NEW reload \in BOOLEAN, Open(p, reload)
  PROVE  SocketsOK' /\ JoinsOK' /\ SubsOK'
<1> DEFINE c == cur[p] + 1
           ms == <<[kind |-> "join", player |-> p, conn |-> c],
                   [kind |-> "resync", player |-> p, conn |-> c]>>
<1>1. /\ cur' = [cur EXCEPT ![p] = c] /\ sock' = [sock EXCEPT ![p][c] = "open"]
      /\ wire' = [wire EXCEPT ![p][c] = ms] /\ UNCHANGED <<inbox, subs>> /\ cur[p] < MaxConns
  BY DEF Open, tableVars
<1>2. c \in Conns /\ c > cur[p] /\ cur[p] \in Nat /\ sock[p][c] = "unused"
  BY <1>1, SessionAssumption DEF SocketsOK, Conns, NoConn
<1> HIDE DEF c
<1>3. ms \in Seq(Command) /\ ms \in Seq(Ours(p, c))
  BY <1>2 DEF Command, Ours
<1> HIDE DEF ms
<1>4. SocketsOK'
  <2>1. /\ sock' \in [Players -> [Conns -> SockState]] /\ cur' \in [Players -> Conns \cup {NoConn}]
        /\ wire' \in [Players -> [Conns -> Seq(Command)]]
    BY <1>1, <1>2, <1>3 DEF SocketsOK, SockState
  <2>2. ASSUME NEW q \in Players, NEW d \in Conns
        PROVE  wire'[q][d] \in Seq(Ours(q, d))
    BY <1>1, <1>2, <1>3 DEF SocketsOK
  <2>3. ASSUME NEW q \in Players, NEW d \in Conns, d > cur'[q]
        PROVE  sock'[q][d] = "unused"
    <3>1. CASE q = p
      BY <1>1, <1>2, <2>3, <3>1, SessionAssumption DEF SocketsOK, Conns
    <3>2. CASE q # p
      BY <1>1, <1>2, <2>3, <3>2 DEF SocketsOK
    <3> QED  BY <3>1, <3>2
  <2> QED  BY <1>1, <2>1, <2>2, <2>3 DEF SocketsOK
<1>5. \A q \in Players, d \in Conns : WillTell(sock, q, d) => WillTell(sock', q, d)
  BY <1>1, <1>2 DEF WillTell, SocketsOK
<1> QED  BY <1>1, <1>4, <1>5, JoinsKept

LEMMA ReceiveSockets ==
  ASSUME SocketsOK, JoinsOK, SubsOK, NEW p \in Players, Receive(p)
  PROVE  SocketsOK' /\ JoinsOK' /\ SubsOK'
<1> DEFINE c == cur[p]
           m == [kind |-> "resync", player |-> p, conn |-> c]
<1>1. c \in Conns /\ UNCHANGED <<cur, inbox, sock, subs>>
  BY DEF Receive, SocketsOK, tableVars
<1>2. wire' = wire \/ wire' = [wire EXCEPT ![p][c] = Append(wire[p][c], m)]
  BY DEF Receive
<1>3. m \in Command /\ m \in Ours(p, c)
  BY <1>1 DEF Command, Ours
<1> HIDE DEF m, c
<1>4. SocketsOK'
  <2>1. CASE wire' = wire
    BY <1>1, <2>1 DEF SocketsOK
  <2>2. CASE wire' = [wire EXCEPT ![p][c] = Append(wire[p][c], m)]
    <3> DEFINE longer == Append(wire[p][c], m)
    <3>1. longer \in Seq(Command) /\ longer \in Seq(Ours(p, c))
      BY <1>1, <1>3 DEF SocketsOK
    <3> HIDE DEF longer
    <3>2. wire' = [wire EXCEPT ![p][c] = longer]  BY <2>2 DEF longer
    <3> QED  BY <1>1, <3>1, <3>2 DEF SocketsOK
  <2> QED  BY <1>2, <2>1, <2>2
<1> QED  BY <1>1, <1>4, JoinsKept

\* One queue gets shorter.
LEMMA QueueShrinks ==
  ASSUME NEW S, NEW q \in Queues(S), NEW p \in Players, NEW c \in Conns, NEW t \in Seq(S),
         Len(t) <= Len(q[p][c])
  PROVE  [q EXCEPT ![p][c] = t] \in Queues(S)
<1> Buffer \in Nat  BY SessionAssumption
<1>1. Len(t) <= Buffer
  BY DEF Queues
<1>2. [q EXCEPT ![p][c] = t] \in [Players -> [Conns -> Seq(S)]]
  BY DEF Queues
<1>3. \A r \in Players, d \in Conns : Len([q EXCEPT ![p][c] = t][r][d]) <= Buffer
  BY <1>1 DEF Queues
<1> QED  BY <1>2, <1>3 DEF Queues

LEMMA LoseSocketNumbers ==
  ASSUME NumbersOK, ViewsOK, Shapes, NEW p \in Players, NEW c \in Conns, LoseSocket(p, c)
  PROVE  NumbersOK' /\ ViewsOK' /\ Shapes'
<1> DEFINE S == Good(casts, seq)
<1>1. out \in Queues(S) /\ Len(out[p][c]) \in Nat
  BY DEF NumbersOK, Queues
<1>2. <<>> \in Seq(S) /\ Len(<<>>) <= Len(out[p][c])
  BY <1>1
<1>3. [out EXCEPT ![p][c] = <<>>] \in Queues(S)
  <2> HIDE DEF S
  <2> QED  BY <1>1, <1>2, QueueShrinks
<1> HIDE DEF S
<1>4. /\ out' \in Queues(S) /\ UNCHANGED <<version, seq, casts, lastSeq, shown>>
      /\ UNCHANGED <<privates, subs, disconnected, dropped>>
  BY <1>3 DEF LoseSocket, tableVars, clientVars
<1>5. Shapes'  BY <1>4 DEF Shapes
<1> QED  BY <1>4, <1>5 DEF NumbersOK, ViewsOK, S

LEMMA OpenNumbers ==
  ASSUME NumbersOK, ViewsOK, Shapes, NEW p \in Players, NEW reload \in BOOLEAN, Open(p, reload)
  PROVE  NumbersOK' /\ ViewsOK' /\ Shapes'
<1>1. UNCHANGED <<version, seq, casts, out, privates, subs, disconnected, dropped>>
  BY DEF Open, tableVars
<1>2. NumbersOK' /\ Shapes'  BY <1>1 DEF NumbersOK, Shapes
<1>3. CASE reload
  <2>1. lastSeq' = [lastSeq EXCEPT ![p] = 0] /\ shown' = [shown EXCEPT ![p] = Blank]
    BY <1>3 DEF Open
  <2> QED  BY <1>1, <1>2, <2>1 DEF NumbersOK, ViewsOK
<1>4. CASE ~reload
  BY <1>1, <1>2, <1>4 DEF Open, ViewsOK
<1> QED  BY <1>3, <1>4

LEMMA ReceiveNumbers ==
  ASSUME NumbersOK, ViewsOK, Shapes, SocketsOK, NEW p \in Players, Receive(p)
  PROVE  NumbersOK' /\ ViewsOK' /\ Shapes'
<1> DEFINE c == cur[p]
           e == Head(out[p][c])
           S == Good(casts, seq)
<1>1. c \in Conns /\ out[p][c] # <<>>
  BY DEF Receive, SocketsOK
<1>2. out[p][c] \in Seq(S) /\ out \in Queues(S)
  BY <1>1 DEF NumbersOK, Queues
<1>3. /\ e \in S /\ Tail(out[p][c]) \in Seq(S) /\ Len(Tail(out[p][c])) <= Len(out[p][c])
  BY <1>1, <1>2
<1>4. /\ out' = [out EXCEPT ![p][c] = Tail(out[p][c])]
      /\ UNCHANGED <<version, seq, casts, privates, subs, disconnected, dropped>>
  BY DEF Receive, tableVars
<1>5. NumbersOK' /\ Shapes'
  <2>1. out' \in Queues(S)
    BY <1>1, <1>2, <1>3, <1>4, QueueShrinks
  <2> QED  BY <1>4, <2>1 DEF NumbersOK, Shapes
<1>6. /\ e \in Event /\ e.seq \in 1 .. seq /\ seq \in Nat /\ casts \in SUBSET (1 .. seq)
      /\ e.kind = "snapshot" => e.version = Cardinality(UpTo(casts, e.seq))
      /\ e.kind = "cast" => e.seq \in casts
      /\ e.kind = "own" => e.seq \notin casts
      /\ e.kind \in {"cast", "own", "error", "snapshot"} /\ e.version \in Nat
  BY <1>3 DEF Good, NumbersOK, Event
<1>7. /\ lastSeq[p] \in 0 .. seq /\ shown[p] \in Nat \cup {Blank}
      /\ shown[p] # Blank => lastSeq[p] > 0 /\ shown[p] = Cardinality(UpTo(casts, lastSeq[p]))
  BY DEF ViewsOK
<1>8. CASE e.kind = "snapshot"
  <2>1. lastSeq' = [lastSeq EXCEPT ![p] = e.seq] /\ shown' = [shown EXCEPT ![p] = e.version]
    BY <1>8 DEF Receive
  <2> HIDE DEF e
  <2> QED  BY <1>4, <1>5, <1>6, <1>8, <2>1 DEF ViewsOK
<1>9. CASE UNCHANGED <<lastSeq, shown>>
  BY <1>4, <1>5, <1>9 DEF ViewsOK
<1>10. CASE /\ e.kind \in {"cast", "own"} /\ e.seq > lastSeq[p] /\ ~Gap(p, e)
            /\ lastSeq' = [lastSeq EXCEPT ![p] = e.seq]
            /\ shown' = [shown EXCEPT ![p] = IF @ # Blank /\ e.kind = "cast" THEN @ + 1 ELSE @]
  <2> HIDE DEF e
  <2>1. e.seq = lastSeq[p] + 1 \/ lastSeq[p] = 0
    BY <1>10 DEF Gap
  <2>2. ASSUME shown[p] # Blank
        PROVE  (IF e.kind = "cast" THEN shown[p] + 1 ELSE shown[p]) = Cardinality(UpTo(casts, e.seq))
    <3>1. e.seq = lastSeq[p] + 1 /\ shown[p] = Cardinality(UpTo(casts, lastSeq[p]))
      BY <1>7, <2>1, <2>2
    <3>2. CASE e.kind = "cast"
      <4>1. /\ UpTo(casts, e.seq) = UpTo(casts, lastSeq[p]) \cup {e.seq}
            /\ e.seq \notin UpTo(casts, lastSeq[p])
        <5> DEFINE n == lastSeq[p]
                   k == e.seq
        <5>1. n \in Nat /\ casts \in SUBSET Nat /\ k = n + 1 /\ k \in casts
          BY <1>6, <1>7, <3>1, <3>2
        <5> HIDE DEF n, k
        <5>2. UpTo(casts, k) = UpTo(casts, n) \cup {k} /\ k \notin UpTo(casts, n)
          BY ONLY <5>1, NextNumber
        <5>. QED BY <5>2 DEF n, k
      <4>2. IsFiniteSet(UpTo(casts, lastSeq[p]))
        BY <1>6, CastsFinite
      <4>3. Cardinality(UpTo(casts, e.seq)) = Cardinality(UpTo(casts, lastSeq[p])) + 1
        BY <4>1, <4>2, FS_AddElement
      <4> QED  BY <3>1, <3>2, <4>3
    <3>3. CASE e.kind = "own"
      <4>1. UpTo(casts, e.seq) = UpTo(casts, lastSeq[p])
        <5> DEFINE n == lastSeq[p]
                   k == e.seq
        <5>1. n \in Nat /\ casts \in SUBSET Nat /\ k = n + 1 /\ k \notin casts
          BY <1>6, <1>7, <3>1, <3>3
        <5> HIDE DEF n, k
        <5>2. UpTo(casts, k) = UpTo(casts, n)
          BY ONLY <5>1, NextNumber
        <5>. QED BY <5>2 DEF n, k
      <4> QED  BY <3>1, <3>3, <4>1
    <3> QED  BY <1>10, <3>2, <3>3
  <2>3. lastSeq' \in [Players -> 0 .. seq'] /\ shown' \in [Players -> Nat \cup {Blank}]
    BY <1>4, <1>6, <1>7, <1>10 DEF ViewsOK
  <2>4. ASSUME NEW q \in Players, shown'[q] # Blank
        PROVE  lastSeq'[q] > 0 /\ shown'[q] = Cardinality(UpTo(casts', lastSeq'[q]))
    <3>1. CASE q = p
      BY <1>4, <1>6, <1>7, <1>10, <2>2, <2>4, <3>1 DEF ViewsOK
    <3>2. CASE q # p
      BY <1>4, <1>10, <2>4, <3>2 DEF ViewsOK
    <3> QED  BY <3>1, <3>2
  <2> QED  BY <1>5, <2>3, <2>4 DEF ViewsOK
<1>11. \/ e.kind = "snapshot" \/ UNCHANGED <<lastSeq, shown>>
       \/ /\ e.kind \in {"cast", "own"} /\ e.seq > lastSeq[p] /\ ~Gap(p, e)
          /\ lastSeq' = [lastSeq EXCEPT ![p] = e.seq]
          /\ shown' = [shown EXCEPT ![p] = IF @ # Blank /\ e.kind = "cast" THEN @ + 1 ELSE @]
  BY <1>6, <1>7 DEF Receive
<1> QED  BY <1>8, <1>9, <1>10, <1>11

-----------------------------------------------------------------------------
(* The inductive invariant *)

LEMMA SessionInvInit ==
  ASSUME SessionInit
  PROVE  SessionInv
<1> MaxConns \in Nat \ {0} /\ Buffer \in Nat /\ MaxPrivates \in Nat  BY SessionAssumption
<1>1. Shapes
  BY DEF SessionInit, Shapes
<1>2. NumbersOK
  <2>1. Cardinality({}) = 0  BY FS_EmptySet
  <2>2. out \in Queues(Good(casts, seq))
    BY DEF SessionInit, Queues
  <2> QED  BY <2>1, <2>2 DEF SessionInit, NumbersOK
<1>3. ViewsOK
  BY DEF SessionInit, ViewsOK
<1>4. SocketsOK /\ JoinsOK
  <2>1. \A p \in Players, c \in Conns : <<>> \in Seq(Ours(p, c)) /\ <<>> \in Seq(Command)
    OBVIOUS
  <2> QED  BY <2>1 DEF SessionInit, SocketsOK, JoinsOK, SockState, NoConn, Conns
<1>5. SubsOK
  BY DEF SessionInit, SubsOK, NoConn, Conns
<1> QED  BY <1>1, <1>2, <1>3, <1>4, <1>5 DEF SessionInv

LEMMA SessionInvStep ==
  ASSUME SessionInv, [SessionNext]_sessionVars
  PROVE  SessionInv'
<1> USE DEF SessionInv
<1>1. CASE Change
  <2>1. NumbersOK' /\ ViewsOK' /\ dropped' \in [Players -> BOOLEAN]
    BY <1>1, BroadcastStep DEF Change, Shapes, clientVars
  <2> QED  BY <1>1, <2>1, SocketsSame DEF Change, Shapes, clientVars
<1>2. CASE PrivateElsewhere
  BY <1>2, PrivateElsewhereStep, SocketsSame DEF PrivateElsewhere, clientVars
<1>3. CASE TakeCommand
  BY <1>3, HandleJoinNumbers, HandleResyncNumbers, HandleDisconnectNumbers, HandleJoinSockets,
     HandleResyncSockets, HandleDisconnectSockets DEF TakeCommand
<1>4. ASSUME NEW p \in Players, NEW kind \in {"own", "error"}, Private(p, kind)
      PROVE  SessionInv'
  BY <1>4, PrivateStep, SocketsSame DEF Private, clientVars
<1>5. ASSUME NEW p \in Players, GraceExpires(p)
      PROVE  SessionInv'
  <2>1. NumbersOK' /\ ViewsOK' /\ dropped' \in [Players -> BOOLEAN]
    BY <1>5, BroadcastStep DEF GraceExpires, Shapes, clientVars
  <2> QED  BY <1>5, <2>1, SocketsSame DEF GraceExpires, Shapes, clientVars
<1>6. ASSUME NEW p \in Players, Receive(p)
      PROVE  SessionInv'
  BY <1>6, ReceiveNumbers, ReceiveSockets
<1>7. ASSUME NEW p \in Players, NEW reload \in BOOLEAN, Open(p, reload)
      PROVE  SessionInv'
  BY <1>7, OpenNumbers, OpenSockets
<1>8. ASSUME NEW p \in Players, NEW c \in Conns, Read(p, c) \/ NotifyDisconnect(p, c)
      PROVE  SessionInv'
  <2>1. UNCHANGED <<tableVars, clientVars, out>>
    BY <1>8 DEF Read, NotifyDisconnect
  <2>2. Shapes' /\ NumbersOK' /\ ViewsOK'
    BY <2>1 DEF tableVars, clientVars, Shapes, NumbersOK, ViewsOK
  <2> QED  BY <1>8, <2>2, ReadSockets, NotifySockets
<1>9. ASSUME NEW p \in Players, NEW c \in Conns, LoseSocket(p, c)
      PROVE  SessionInv'
  BY <1>9, LoseSocketNumbers, LoseSocketSockets
<1>10. CASE UNCHANGED sessionVars
  BY <1>10, SocketsSame
     DEF sessionVars, tableVars, clientVars, Shapes, NumbersOK, ViewsOK
<1> QED  BY <1>1, <1>2, <1>3, <1>4, <1>5, <1>6, <1>7, <1>8, <1>9, <1>10 DEF SessionNext

-----------------------------------------------------------------------------
(* Theorems *)

THEOREM SessionInvAlways == SessionSpec => []SessionInv
<1>1. SessionInit => SessionInv  BY SessionInvInit
<1>2. SessionInv /\ [SessionNext]_sessionVars => SessionInv'  BY SessionInvStep
<1> QED  BY <1>1, <1>2, PTL DEF SessionSpec

\* What a client shows is the game after exactly the broadcasts up to its cursor
\* (handleFrame, client.ts:258), and what waits for it fits its buffer (gateway.go:32).
THEOREM BoundedAndInStepAlways == SessionSpec => []BoundedAndInStep
<1>1. SessionInv => BoundedAndInStep
  <2> SUFFICES ASSUME SessionInv PROVE BoundedAndInStep
    OBVIOUS
  <2>1. version \in Nat
    BY CastsFinite DEF SessionInv, NumbersOK
  <2>2. \A p \in Players, c \in Conns : out[p][c] \in Seq(Event) /\ Len(out[p][c]) <= Buffer
    <3>1. Good(casts, seq) \subseteq Event  BY DEF Good
    <3>2. out \in Queues(Event)  BY <3>1, QueuesGrow DEF SessionInv, NumbersOK
    <3> QED  BY <3>2 DEF Queues
  <2>3. lastSeq \in [Players -> Nat]
    BY DEF SessionInv, NumbersOK, ViewsOK
  <2>4. SessionTypes
    BY <2>1, <2>2, <2>3 DEF SessionInv, Shapes, NumbersOK, ViewsOK, SocketsOK, SessionTypes
  <2>5. ClientInStep
    BY DEF SessionInv, ViewsOK, UpTo, ClientInStep
  <2> QED  BY <2>4, <2>5 DEF BoundedAndInStep
<1> QED  BY <1>1, SessionInvAlways, PTL

\* A connection the server has given up does not stay subscribed: the table is, or will
\* be, told (serve, gateway.go:186).
THEOREM NoDeadSubscriptionEver == SessionSpec => []NoDeadSubscription
<1>1. SessionInv => NoDeadSubscription
  BY DEF SessionInv, SubsOK, WillTell, ToldAfter, NoDeadSubscription, Live
<1> QED  BY <1>1, SessionInvAlways, PTL

-----------------------------------------------------------------------------
(* Folds *)

\* What a fold of A from base has to be at s, when g is the fold at smaller sets.
ChainBody(A, base, g, s) == IF s = {} THEN base ELSE A[<<g[s \ {Max(s)}], Max(s)>>]

\* Such folds, with values in T.
ChainFolds(A, base, n, T) ==
  {g \in [SUBSET (1 .. n) -> T] : g = [s \in SUBSET (1 .. n) |-> ChainBody(A, base, g, s)]}

\* g is one of them, as far as its values are in T.
IsFold(A, base, n, T, g) ==
  \A s \in SUBSET (1 .. n) : g[s] = IF s = {} THEN base
    ELSE IF g[s \ {Max(s)}] \in T THEN ChainBody(A, base, g, s) ELSE g[s]

\* The values after each of n elements.
Chains(A, base, n, T) ==
  {c \in [0 .. n -> T] : c[0] = base /\ \A k \in 1 .. n : c[k] = A[<<c[k - 1], k>>]}

\* The values after all of them.
Ends(A, base, n, T) == {c[n] : c \in Chains(A, base, n, T)}

LEMMA MaxOfNumbers ==
  ASSUME NEW n \in Nat, NEW s \in SUBSET (1 .. n), s # {}
  PROVE  /\ Max(s) \in s /\ Max(s) \in 1 .. n /\ \A y \in s : y <= Max(s)
         /\ s \ {Max(s)} \in SUBSET (1 .. n)
         /\ IsFiniteSet(s) /\ Cardinality(s \ {Max(s)}) = Cardinality(s) - 1
<1>0. IsFiniteSet(1 .. n) /\ 1 .. n \in SUBSET Nat
  BY FS_Interval
<1>1. IsFiniteSet(s) /\ s \in SUBSET Nat
  BY <1>0, FS_Subset
<1>2. Max(s) \in s /\ \A y \in s : y <= Max(s)
  BY <1>1, MaxOfNat
<1>. QED BY <1>1, <1>2, FS_RemoveElement

LEMMA ChainExists ==
  ASSUME NEW n \in Nat, NEW T, NEW base \in T, NEW A \in [T \X (1 .. n) -> T]
  PROVE  ChainFolds(A, base, n, T) # {}
<1> DEFINE P == SUBSET (1 .. n)
           Upto(g, m) == \A s \in P : Cardinality(s) <= m => g[s] = ChainBody(A, base, g, s)
           N == {m \in Nat : \E g \in [P -> T] : Upto(g, m)}
<1>0. IsFiniteSet(1 .. n) /\ Cardinality(1 .. n) = n
  BY FS_Interval
<1>1. \A s \in P : IsFiniteSet(s) /\ Cardinality(s) \in Nat /\ Cardinality(s) <= n
  <2> SUFFICES ASSUME NEW s \in SUBSET (1 .. n)
               PROVE  IsFiniteSet(s) /\ Cardinality(s) \in Nat /\ Cardinality(s) <= n
    OBVIOUS
  <2> DEFINE w == 1 .. n
  <2>0. IsFiniteSet(w) /\ Cardinality(w) = n /\ s \in SUBSET w
    BY <1>0
  <2> HIDE DEF w
  <2>1. IsFiniteSet(s) /\ Cardinality(s) <= n
    BY <2>0, FS_Subset
  <2>. QED BY <2>1, FS_CardinalityType
<1>2. \A g \in [P -> T], s \in P : ChainBody(A, base, g, s) \in T
  BY MaxOfNumbers DEF ChainBody
<1>3. 0 \in N
  <2> DEFINE g == [s \in P |-> base]
  <2>1. g \in [P -> T] /\ \A s \in P : Cardinality(s) <= 0 => s = {}
    BY <1>1, FS_EmptySet
  <2>2. Upto(g, 0)
    BY <2>1 DEF ChainBody
  <2> HIDE DEF g, Upto
  <2>. QED BY <2>1, <2>2
<1>4. ASSUME NEW m \in N PROVE m + 1 \in N
  <2>1. PICK g \in [P -> T] : Upto(g, m)
    OBVIOUS
  <2> DEFINE h == [s \in P |-> IF Cardinality(s) <= m THEN g[s] ELSE ChainBody(A, base, g, s)]
  <2>2. h \in [P -> T]
    BY <1>2
  <2>3. ASSUME NEW s \in P, Cardinality(s) <= m + 1 PROVE h[s] = ChainBody(A, base, h, s)
    <3>1. h[s] = ChainBody(A, base, g, s)
      BY <2>1
    <3>2. ASSUME s # {} PROVE h[s \ {Max(s)}] = g[s \ {Max(s)}]
      <4>1. s \ {Max(s)} \in P /\ Cardinality(s \ {Max(s)}) <= m
        BY <1>1, <2>3, <3>2, MaxOfNumbers
      <4> HIDE DEF Upto
      <4>. QED BY <4>1
    <3> HIDE DEF h
    <3>. QED BY <3>1, <3>2 DEF ChainBody
  <2>4. Upto(h, m + 1)
    BY <2>3
  <2> HIDE DEF h, Upto, P
  <2>. QED BY <2>2, <2>4
<1>5. N = Nat
  <2> HIDE DEF N
  <2>1. N \in SUBSET Nat /\ \A m \in N : m + 1 \in N
    BY <1>4 DEF N
  <2>. QED BY <1>3, <2>1, NatInduct
<1>6. PICK g \in [P -> T] : Upto(g, n)
  BY <1>5
<1>7. \A s \in P : g[s] = ChainBody(A, base, g, s)
  BY <1>1, <1>6
<1>8. g = [s \in P |-> ChainBody(A, base, g, s)]
  BY <1>6, <1>7
<1>. QED BY <1>6, <1>8 DEF ChainFolds

\* What is folded goes by the values after each element.
LEMMA ChainValues ==
  ASSUME NEW n \in Nat, NEW T, NEW base \in T, NEW A \in [T \X (1 .. n) -> T],
         NEW g, IsFold(A, base, n, T, g)
  PROVE  g[1 .. n] \in Ends(A, base, n, T)
<1> DEFINE N == {m \in Nat : m <= n => g[1 .. m] \in T}
           c == [k \in 0 .. n |-> g[1 .. k]]
<1>1. ASSUME NEW k \in 1 .. n
      PROVE  /\ 1 .. k \in SUBSET (1 .. n) /\ 1 .. k # {} /\ Max(1 .. k) = k
             /\ (1 .. k) \ {k} = 1 .. k - 1
  <2>1. 1 .. k \in SUBSET (1 .. n) /\ k \in 1 .. k
    OBVIOUS
  <2>2. Max(1 .. k) \in 1 .. k /\ \A y \in 1 .. k : y <= Max(1 .. k)
    BY <2>1, MaxOfNumbers
  <2>. QED BY <2>1, <2>2
<1>2. g[1 .. 0] = base /\ 1 .. 0 = {}
  <2>1. 1 .. 0 = {} /\ {} \in SUBSET (1 .. n)
    OBVIOUS
  <2>. QED BY <2>1 DEF IsFold
<1>3. ASSUME NEW k \in 1 .. n, g[1 .. k - 1] \in T
      PROVE  g[1 .. k] = A[<<g[1 .. k - 1], k>>] /\ g[1 .. k] \in T
  <2> DEFINE s == 1 .. k
  <2>1. s \in SUBSET (1 .. n) /\ s # {} /\ Max(s) = k /\ s \ {Max(s)} = 1 .. k - 1
    BY <1>1
  <2> HIDE DEF s
  <2>2. g[s] = A[<<g[s \ {Max(s)}], Max(s)>>]
    BY <1>3, <2>1 DEF ChainBody, IsFold
  <2>3. g[1 .. k] = A[<<g[1 .. k - 1], k>>]
    BY <2>1, <2>2 DEF s
  <2>. QED BY <1>3, <2>3
<1>4. ASSUME NEW m \in N PROVE m + 1 \in N
  <2> SUFFICES ASSUME m + 1 <= n PROVE g[1 .. m + 1] \in T
    OBVIOUS
  <2>1. m + 1 \in 1 .. n /\ (m + 1) - 1 = m /\ m <= n
    OBVIOUS
  <2>2. g[1 .. (m + 1) - 1] \in T
    BY <2>1
  <2>. QED BY <1>3, <2>1, <2>2
<1>5. N = Nat
  <2>1. 0 \in N
    BY <1>2
  <2> HIDE DEF N
  <2>2. N \in SUBSET Nat /\ \A m \in N : m + 1 \in N
    BY <1>4 DEF N
  <2>. QED BY <2>1, <2>2, NatInduct
<1>6. \A k \in 0 .. n : g[1 .. k] \in T
  BY <1>5
<1>7. c \in [0 .. n -> T]
  BY <1>6
<1>8. c[0] = base /\ c[n] = g[1 .. n]
  BY <1>2
<1>9. ASSUME NEW k \in 1 .. n PROVE c[k] = A[<<c[k - 1], k>>]
  <2>1. k - 1 \in 0 .. n /\ k \in 0 .. n
    OBVIOUS
  <2>2. c[k - 1] = g[1 .. k - 1] /\ c[k] = g[1 .. k]
    BY <2>1
  <2>. QED BY <1>3, <1>6, <2>1, <2>2
<1> HIDE DEF c
<1>10. c \in Chains(A, base, n, T)
  BY <1>7, <1>8, <1>9 DEF Chains
<1>. QED BY <1>8, <1>10 DEF Ends

-----------------------------------------------------------------------------
(* The server's tables: what the page makes of events *)

\* No event leads out of T.
KeepsPages(T, evs, n) == \A q \in T, i \in 1 .. n : O!OnEvent(q, evs[i]) \in T

LEMMA PageFolds ==
  ASSUME NEW n \in Nat, NEW T, NEW p \in T, NEW evs, DOMAIN evs = 1 .. n, KeepsPages(T, evs, n)
  PROVE  O!FoldLeft(O!OnEvent, p, evs) \in T
<1> DEFINE A == [x \in T \X (1 .. n) |-> O!OnEvent(x[1], evs[x[2]])]
           Body(g, s) == IF s = {} THEN p ELSE O!OnEvent(g[s \ {Max(s)}], evs[Max(s)])
           it == CHOOSE g : g = [s \in SUBSET (1 .. n) |-> Body(g, s)]
<1>0. n \in Nat /\ p \in T
  OBVIOUS
<1>1. A \in [T \X (1 .. n) -> T] /\ \A q \in T, i \in 1 .. n : A[<<q, i>>] = O!OnEvent(q, evs[i])
  BY DEF KeepsPages
<1>2. O!FoldLeft(O!OnEvent, p, evs) = it[1 .. n]
  BY DEF O!FoldLeft, O!MapThenFoldSet, O!Max, Max
<1> HIDE DEF A
<1>3. PICK g \in ChainFolds(A, p, n, T) : TRUE
  <2>1. A \in [T \X (1 .. n) -> T]
    BY <1>1
  <2>. QED BY ONLY <1>0, <2>1, ChainExists
<1>4. \A s \in SUBSET (1 .. n) : s # {} => Max(s) \in 1 .. n /\ s \ {Max(s)} \in SUBSET (1 .. n)
  BY MaxOfNumbers
<1>5. \A s \in SUBSET (1 .. n) : ChainBody(A, p, g, s) = Body(g, s)
  BY <1>1, <1>4 DEF ChainBody, ChainFolds
<1>6. g = [s \in SUBSET (1 .. n) |-> Body(g, s)]
  BY <1>3, <1>5 DEF ChainFolds
<1>7. it = [s \in SUBSET (1 .. n) |-> Body(it, s)]
  <2> HIDE DEF Body
  <2>. QED BY <1>6
<1> HIDE DEF it
<1>8. \A s \in SUBSET (1 .. n) : it[s] = Body(it, s)
  <2> HIDE DEF Body
  <2>. QED BY <1>7
<1>9. IsFold(A, p, n, T, it)
  BY <1>1, <1>4, <1>8 DEF ChainBody, IsFold
<1>10. it[1 .. n] \in Ends(A, p, n, T)
  <2>1. A \in [T \X (1 .. n) -> T]
    BY <1>1
  <2>. QED BY ONLY <1>0, <1>9, <2>1, ChainValues
<1>11. PICK c \in Chains(A, p, n, T) : c[n] = it[1 .. n]
  BY <1>10 DEF Ends
<1>12. c[n] \in T
  BY DEF Chains
<1>. QED BY <1>2, <1>11, <1>12

-----------------------------------------------------------------------------
(* The server's tables: events *)

OnlineEvents ==
  O!G!TableSnapshot \cup O!G!SeatUpdate \cup O!G!BetPlaced \cup O!G!BlindsUp
  \cup O!G!Elimination \cup O!G!TourneyResult \cup O!G!ErrorEvent

\* What the page shows is so of a server n.
Truthful(q, n) ==
  /\ q.s.mine \in {O!MySeat, O!G!None} /\ (q.s.timer => q.s.open)
  /\ q.t.place # 0 => q.t.place = n.place
  /\ q.t.result => n.over
  /\ q.t.level <= n.level

\* So is what n tells.
Fits(ev, n) ==
  /\ ev.type = "table_snapshot" => ev.mine \in {O!MySeat, O!G!None}
  /\ ev.type = "blinds_up" => ev.level <= n.level
  /\ ev.type = "elimination" /\ ev.seat = O!MySeat => ev.place = n.place
  /\ ev.type = "tourney_result" => n.over

\* The pages that events of n can make of p.
PagesFrom(p, n) ==
  {q \in O!Page : /\ Truthful(q, n) /\ q.inst = p.inst /\ q.bets = p.bets
                  /\ q.status = p.status /\ q.s.open = p.s.open}

EventsOf(n) == {ev \in OnlineEvents : Fits(ev, n)}

LEMMA OnlineConstants ==
  /\ O!MySeat = 0 /\ O!G!None = -1 /\ O!Nobody = -1
  /\ O!MySeat \in O!Seat /\ 1 \in O!Seat /\ O!Seat = 0 .. Opponents
  /\ MaxSteps \in Nat /\ MaxClients \in Nat /\ Opponents \in Nat \ {0}
  /\ O!Clients = 1 .. MaxClients
BY StorePlayAssumption DEF O!MySeat, O!G!None, O!Nobody, O!Seat, O!Clients

LEMMA EventTypes ==
  ASSUME NEW ev
  PROVE  /\ ev \in O!G!TableSnapshot => ev.type = "table_snapshot"
         /\ ev \in O!G!SeatUpdate => ev.type = "seat_update"
         /\ ev \in O!G!BetPlaced => ev.type = "bet_placed"
         /\ ev \in O!G!BlindsUp => ev.type = "blinds_up"
         /\ ev \in O!G!Elimination => ev.type = "elimination"
         /\ ev \in O!G!TourneyResult => ev.type = "tourney_result"
         /\ ev \in O!G!ErrorEvent => ev.type = "error"
         /\ ev \in O!G!HandDealt => ev.type = "hand_dealt"
         /\ ev \in O!G!StreetAdvanced => ev.type = "street_advanced"
         /\ ev \in O!G!Showdown => ev.type = "showdown"
         /\ ev \in O!G!FairReveal \cup O!G!TableStatus =>
              ev.type \in {"fair_reveal", "table_status"}
BY DEF O!G!TableSnapshot, O!G!SeatUpdate, O!G!BetPlaced, O!G!BlindsUp, O!G!Elimination,
       O!G!TourneyResult, O!G!ErrorEvent, O!G!HandDealt, O!G!StreetAdvanced, O!G!Showdown,
       O!G!FairReveal, O!G!TableStatus

\* What is shown of the table is a table's, and the page stays open or closed.
LEMMA StoreFields ==
  ASSUME NEW s \in O!G!Store
  PROVE  /\ s.stack \in [O!Seat -> Int] /\ s.last \in [O!Seat -> Int] /\ s.out \in SUBSET O!Seat
         /\ s.pot \in Int /\ s.street \in O!G!Street /\ s.turn \in O!G!SeatOrNone
         /\ s.mine \in O!G!SeatOrNone /\ s.running \in BOOLEAN /\ s.pending \in BOOLEAN
         /\ s.timer \in BOOLEAN /\ s.rebuying \in BOOLEAN /\ s.refused \in BOOLEAN
         /\ s.open \in BOOLEAN /\ s.replay \in SUBSET Nat
BY DEF O!G!Store

LEMMA SnapshotShown ==
  ASSUME NEW s \in O!G!Store, NEW ev \in O!G!TableSnapshot
  PROVE  /\ O!G!OnSnapshot(s, ev) \in O!G!Store
         /\ O!G!OnSnapshot(s, ev).open = s.open /\ O!G!OnSnapshot(s, ev).mine = ev.mine
         /\ ~O!G!OnSnapshot(s, ev).timer
<1>1. /\ ev.stack \in [O!Seat -> Int] /\ ev.last \in [O!Seat -> Int]
      /\ ev.out \in SUBSET O!Seat /\ ev.pot \in Int /\ ev.street \in O!G!Street
      /\ ev.turn \in O!G!SeatOrNone /\ ev.mine \in O!G!SeatOrNone /\ ev.running \in BOOLEAN
  BY DEF O!G!TableSnapshot
<1> DEFINE r == [s EXCEPT !.stack = ev.stack, !.last = ev.last, !.out = ev.out, !.pot = ev.pot,
                          !.street = ev.street]
           u == [r EXCEPT !.turn = ev.turn, !.mine = ev.mine,
                          !.running = ev.running, !.pending = FALSE, !.timer = FALSE]
<1>2. r \in O!G!Store /\ r.open = s.open
  BY <1>1 DEF O!G!Store
<1>3. O!G!OnSnapshot(s, ev) = u
  BY DEF O!G!OnSnapshot
<1> HIDE DEF r
<1>4. u \in O!G!Store /\ u.open = r.open /\ u.mine = ev.mine /\ ~u.timer
  BY <1>1, <1>2 DEF O!G!Store
<1>. QED BY <1>2, <1>3, <1>4

LEMMA SeatsShown ==
  ASSUME NEW s \in O!G!Store, NEW ev \in O!G!SeatUpdate
  PROVE  /\ O!G!OnSeatUpdate(s, ev) \in O!G!Store
         /\ O!G!OnSeatUpdate(s, ev).open = s.open /\ O!G!OnSeatUpdate(s, ev).mine = s.mine
         /\ O!G!OnSeatUpdate(s, ev).timer = s.timer
<1>1. /\ ev.stack \in [O!Seat -> Int] /\ ev.last \in [O!Seat -> Int]
      /\ ev.out \in SUBSET O!Seat
  BY DEF O!G!SeatUpdate
<1> DEFINE refused == s.refused /\ ~s.rebuying
           r == [s EXCEPT !.stack = ev.stack, !.last = ev.last, !.out = ev.out,
                          !.rebuying = FALSE, !.refused = refused]
<1>2. refused \in BOOLEAN
  BY StoreFields
<1>3. O!G!OnSeatUpdate(s, ev) = r
  BY DEF O!G!OnSeatUpdate, O!G!Store
<1> HIDE DEF refused
<1>4. r \in O!G!Store /\ r.open = s.open /\ r.mine = s.mine /\ r.timer = s.timer
  BY <1>1, <1>2 DEF O!G!Store
<1>. QED BY <1>3, <1>4

LEMMA BetShown ==
  ASSUME NEW s \in O!G!Store, NEW ev \in O!G!BetPlaced
  PROVE  /\ O!G!OnBetPlaced(s, ev) \in O!G!Store
         /\ O!G!OnBetPlaced(s, ev).open = s.open /\ O!G!OnBetPlaced(s, ev).mine = s.mine
         /\ O!G!OnBetPlaced(s, ev).timer => s.timer
<1> DEFINE stack == [s.stack EXCEPT ![ev.seat] = ev.stack]
           last == [s.last EXCEPT ![ev.seat] = ev.amount]
           pending == s.pending /\ ev.seat # s.mine
           timer == s.timer /\ ev.seat # s.mine
           replay == s.replay \cup {ev.hand}
           r == [s EXCEPT !.stack = stack, !.last = last, !.pot = ev.pot, !.turn = ev.turn,
                          !.pending = pending, !.timer = timer, !.replay = replay]
<1>1. /\ ev.seat \in O!Seat /\ ev.stack \in Int /\ ev.amount \in Int /\ ev.pot \in Int
      /\ ev.turn \in O!G!SeatOrNone /\ ev.hand \in Nat
  BY DEF O!G!BetPlaced
<1>2. O!G!OnBetPlaced(s, ev) = r
  BY DEF O!G!OnBetPlaced, O!G!Store
<1>3. /\ stack \in [O!Seat -> Int] /\ last \in [O!Seat -> Int] /\ pending \in BOOLEAN
      /\ timer \in BOOLEAN /\ (timer => s.timer) /\ replay \in SUBSET Nat
  BY <1>1, StoreFields
<1> HIDE DEF stack, last, pending, timer, replay
<1>4. r \in O!G!Store /\ r.open = s.open /\ r.mine = s.mine /\ r.timer = timer
  BY <1>1, <1>3 DEF O!G!Store
<1>. QED BY <1>2, <1>3, <1>4

LEMMA ErrorShown ==
  ASSUME NEW s \in O!G!Store
  PROVE  /\ O!G!OnError(s) \in O!G!Store
         /\ O!G!OnError(s).open = s.open /\ O!G!OnError(s).mine = s.mine
         /\ ~O!G!OnError(s).timer
BY DEF O!G!OnError, O!G!Store

\* What the store has no other rule for.
LEMMA OnOtherEvent ==
  ASSUME NEW q, NEW ev
  PROVE  /\ ev \in O!G!TableSnapshot =>
              O!OnEvent(q, ev) = [q EXCEPT !.s = O!G!OnSnapshot(q.s, ev)]
         /\ ev \in O!G!SeatUpdate =>
              O!OnEvent(q, ev) = [q EXCEPT !.s = O!G!OnSeatUpdate(q.s, ev)]
         /\ ev \in O!G!BetPlaced =>
              O!OnEvent(q, ev) = [q EXCEPT !.s = O!G!OnBetPlaced(q.s, ev)]
<1>1. ev.type \in {"table_snapshot", "seat_update", "bet_placed"} =>
        /\ ev \notin O!G!BlindsUp /\ ev \notin O!G!Elimination
        /\ ev \notin O!G!TourneyResult /\ ev \notin O!G!ErrorEvent
  BY EventTypes
<1>2. ev.type \in {"table_snapshot", "seat_update", "bet_placed"} =>
        O!OnEvent(q, ev) = [q EXCEPT !.s = O!G!ApplyEvent(q.s, ev)]
  BY <1>1 DEF O!OnEvent
<1>3. ev.type = "table_snapshot" =>
        /\ ev \notin O!G!SeatUpdate /\ ev \notin O!G!BetPlaced /\ ev \notin O!G!HandDealt
        /\ ev \notin O!G!StreetAdvanced /\ ev \notin O!G!Showdown /\ ev \notin O!G!ErrorEvent
        /\ ev \notin O!G!FairReveal \cup O!G!TableStatus
  BY EventTypes
<1>4. ev.type = "seat_update" =>
        /\ ev \notin O!G!TableSnapshot /\ ev \notin O!G!BetPlaced /\ ev \notin O!G!HandDealt
        /\ ev \notin O!G!StreetAdvanced /\ ev \notin O!G!Showdown /\ ev \notin O!G!ErrorEvent
        /\ ev \notin O!G!FairReveal \cup O!G!TableStatus
  BY EventTypes
<1>5. ev.type = "bet_placed" =>
        /\ ev \notin O!G!TableSnapshot /\ ev \notin O!G!SeatUpdate /\ ev \notin O!G!HandDealt
        /\ ev \notin O!G!StreetAdvanced /\ ev \notin O!G!Showdown /\ ev \notin O!G!ErrorEvent
        /\ ev \notin O!G!FairReveal \cup O!G!TableStatus
  BY EventTypes
<1>6. ASSUME ev \in O!G!TableSnapshot PROVE O!G!ApplyEvent(q.s, ev) = O!G!OnSnapshot(q.s, ev)
  BY <1>3, <1>6, EventTypes DEF O!G!ApplyEvent
<1>7. ASSUME ev \in O!G!SeatUpdate PROVE O!G!ApplyEvent(q.s, ev) = O!G!OnSeatUpdate(q.s, ev)
  BY <1>4, <1>7, EventTypes DEF O!G!ApplyEvent
<1>8. ASSUME ev \in O!G!BetPlaced PROVE O!G!ApplyEvent(q.s, ev) = O!G!OnBetPlaced(q.s, ev)
  BY <1>5, <1>8, EventTypes DEF O!G!ApplyEvent
<1>. QED BY <1>2, <1>6, <1>7, <1>8, EventTypes

LEMMA OnEventPage ==
  ASSUME NEW p, NEW n, n.level \in Nat, NEW q \in PagesFrom(p, n), NEW ev \in EventsOf(n)
  PROVE  O!OnEvent(q, ev) \in PagesFrom(p, n)
<1>1. /\ q \in O!Page /\ Truthful(q, n) /\ q.inst = p.inst /\ q.bets = p.bets
      /\ q.status = p.status /\ q.s.open = p.s.open
      /\ ev \in OnlineEvents /\ Fits(ev, n)
  BY DEF PagesFrom, EventsOf
<1>2. q.s \in O!G!Store /\ q.t \in O!Tourney
  BY <1>1 DEF O!Page
<1>3. /\ q.t.level \in Nat /\ q.t.place \in Nat /\ q.t.result \in BOOLEAN
      /\ q.t.last \in Nat \cup {O!Nobody} /\ q.t.banner \in BOOLEAN
  BY <1>2 DEF O!Tourney
<1>4. ASSUME NEW s \in O!G!Store, s.open = q.s.open, s.mine \in {O!MySeat, O!G!None},
             s.timer => s.open
      PROVE  [q EXCEPT !.s = s] \in PagesFrom(p, n)
  <2> DEFINE r == [q EXCEPT !.s = s]
  <2>1. /\ r \in O!Page /\ r.s = s /\ r.t = q.t /\ r.inst = q.inst /\ r.bets = q.bets
        /\ r.status = q.status
    BY <1>1 DEF O!Page
  <2> HIDE DEF r
  <2>2. r \in PagesFrom(p, n)
    BY <1>1, <1>4, <2>1 DEF PagesFrom, Truthful
  <2>. QED BY <2>2 DEF r
<1>5. ASSUME NEW t \in O!Tourney, t.place # 0 => t.place = n.place, t.result => n.over,
             t.level <= n.level
      PROVE  [q EXCEPT !.t = t] \in PagesFrom(p, n)
  <2> DEFINE r == [q EXCEPT !.t = t]
  <2>1. /\ r \in O!Page /\ r.s = q.s /\ r.t = t /\ r.inst = q.inst /\ r.bets = q.bets
        /\ r.status = q.status
    BY <1>1 DEF O!Page
  <2> HIDE DEF r
  <2>2. r \in PagesFrom(p, n)
    BY <1>1, <1>5, <2>1 DEF PagesFrom, Truthful
  <2>. QED BY <2>2 DEF r
<1>6. CASE ev \in O!G!BlindsUp
  <2>1. O!OnEvent(q, ev) = [q EXCEPT !.t = O!OnBlindsUp(q.t, ev.level)]
    BY <1>6, EventTypes DEF O!OnEvent
  <2>2. ev.level \in Nat /\ ev.level <= n.level
    BY <1>1, <1>6 DEF O!G!BlindsUp, Fits
  <2>3. /\ O!OnBlindsUp(q.t, ev.level) \in O!Tourney
        /\ O!OnBlindsUp(q.t, ev.level).level = ev.level
        /\ O!OnBlindsUp(q.t, ev.level).place = q.t.place
        /\ O!OnBlindsUp(q.t, ev.level).result = q.t.result
    BY <1>2, <2>2 DEF O!OnBlindsUp, O!Tourney
  <2>. QED BY <1>1, <1>5, <2>1, <2>2, <2>3 DEF Truthful
<1>7. CASE ev \in O!G!Elimination
  <2>1. O!OnEvent(q, ev) = [q EXCEPT !.t = O!OnElimination(q.t, ev.seat, ev.place, q.s.mine)]
    BY <1>7, EventTypes DEF O!OnEvent
  <2>2. ev.seat \in O!Seat /\ ev.seat \in Nat /\ ev.place \in Nat
    BY <1>7, OnlineConstants DEF O!G!Elimination
  <2> DEFINE t == O!OnElimination(q.t, ev.seat, ev.place, q.s.mine)
  <2>3. /\ t \in O!Tourney /\ t.level = q.t.level /\ t.result = q.t.result
        /\ t.place = IF ev.seat = q.s.mine THEN ev.place ELSE q.t.place
    BY <1>2, <1>3, <2>2 DEF O!OnElimination, O!Tourney
  <2>4. ev.seat = q.s.mine => ev.place = n.place
    BY <1>1, <1>7, <2>2, EventTypes, OnlineConstants DEF Truthful, Fits
  <2> HIDE DEF t
  <2>5. [q EXCEPT !.t = t] \in PagesFrom(p, n)
    BY <1>1, <1>5, <2>3, <2>4 DEF Truthful
  <2>. QED BY <2>1, <2>5 DEF t
<1>8. CASE ev \in O!G!TourneyResult
  <2>1. O!OnEvent(q, ev) = [q EXCEPT !.t = O!OnTourneyResult(q.t)]
    BY <1>8, EventTypes DEF O!OnEvent
  <2>2. /\ O!OnTourneyResult(q.t) \in O!Tourney /\ O!OnTourneyResult(q.t).level = q.t.level
        /\ O!OnTourneyResult(q.t).place = q.t.place
    BY <1>2 DEF O!OnTourneyResult, O!Tourney
  <2>3. n.over
    BY <1>1, <1>8, EventTypes DEF Fits
  <2>. QED BY <1>1, <1>5, <2>1, <2>2, <2>3 DEF Truthful
<1>9. CASE ev \in O!G!ErrorEvent
  <2>1. O!OnEvent(q, ev) = [q EXCEPT !.s = O!G!OnError(q.s), !.error = ev.code]
    BY <1>9, EventTypes DEF O!OnEvent
  <2> DEFINE r == [q EXCEPT !.s = O!G!OnError(q.s)]
  <2>2. r \in PagesFrom(p, n)
    BY <1>1, <1>2, <1>4, ErrorShown DEF Truthful
  <2>3. ev.code \in {"brief", "fatal"}
    BY <1>9 DEF O!G!ErrorEvent
  <2>4. O!OnEvent(q, ev) = [r EXCEPT !.error = ev.code]
    BY <1>1, <2>1 DEF O!Page
  <2> HIDE DEF r
  <2>. QED BY <2>2, <2>3, <2>4 DEF PagesFrom, Truthful, O!Page
<1>10. CASE ev \in O!G!TableSnapshot
  <2>1. O!OnEvent(q, ev) = [q EXCEPT !.s = O!G!OnSnapshot(q.s, ev)]
    BY <1>10, OnOtherEvent
  <2>. QED BY <1>1, <1>2, <1>4, <1>10, <2>1, SnapshotShown, EventTypes DEF Fits
<1>11. CASE ev \in O!G!SeatUpdate
  <2>1. O!OnEvent(q, ev) = [q EXCEPT !.s = O!G!OnSeatUpdate(q.s, ev)]
    BY <1>11, OnOtherEvent
  <2>. QED BY <1>1, <1>2, <1>4, <1>11, <2>1, SeatsShown DEF Truthful
<1>12. CASE ev \in O!G!BetPlaced
  <2>1. O!OnEvent(q, ev) = [q EXCEPT !.s = O!G!OnBetPlaced(q.s, ev)]
    BY <1>12, OnOtherEvent
  <2>. QED BY <1>1, <1>2, <1>4, <1>12, <2>1, BetShown DEF Truthful
<1>. QED BY <1>1, <1>6, <1>7, <1>8, <1>9, <1>10, <1>11, <1>12 DEF OnlineEvents

\* Any number of them.
LEMMA EventsPage ==
  ASSUME NEW p, NEW n, n.level \in Nat, NEW q \in PagesFrom(p, n),
         NEW k \in Nat, NEW evs, DOMAIN evs = 1 .. k, \A i \in 1 .. k : evs[i] \in EventsOf(n)
  PROVE  O!FoldLeft(O!OnEvent, q, evs) \in PagesFrom(p, n)
<1> DEFINE T == PagesFrom(p, n)
<1>1. KeepsPages(T, evs, k)
  BY OnEventPage DEF KeepsPages
<1> HIDE DEF T
<1>2. q \in T
  BY DEF T
<1>3. O!FoldLeft(O!OnEvent, q, evs) \in T
  BY <1>1, <1>2, PageFolds
<1>. QED BY <1>3 DEF T

-----------------------------------------------------------------------------
(* The server's tables: one client and its wire *)

\* Client i with state c, the commands w on its wire, and whether the server tells it what
\* happens; the newest client is inst, and the page is open or not.
ClientOK(i, c, w, joined, inst, open) ==
  /\ c \in O!Client(O!Command) /\ w \in Seq(O!Command) /\ joined \in BOOLEAN
  /\ i > inst => c = O!NewClient /\ w = <<>> /\ ~joined
  /\ ~c.done /\ i <= inst => i = inst /\ open
  /\ c.ws # "none" => ~c.done /\ ~c.retry
  /\ c.ws = "open" => c.queue = <<>>
  /\ c.ws # "open" /\ ~c.done => w = <<>> /\ ~joined
  /\ ~joined /\ w # <<>> => w[1].kind = "hello"
  /\ c.ws = "open" /\ ~joined => w # <<>>
  /\ \A k \in 1 .. Len(w) : w[k].kind = "leave" => k = Len(w) /\ c.ws # "open"
  /\ \A k \in 1 .. Len(c.queue) : c.queue[k].kind # "leave"

\* Bets among commands go up, from below the first to the last one tapped.
Ascends(w, bets) ==
  /\ \A k \in 1 .. Len(w) : w[k].kind = "bet" => 1 <= w[k].n /\ w[k].n <= bets
  /\ \A j, k \in 1 .. Len(w) :
       j < k /\ w[j].kind = "bet" /\ w[k].kind = "bet" => w[j].n < w[k].n

Above(w, b) == \A k \in 1 .. Len(w) : w[k].kind = "bet" => b < w[k].n

\* The bets of a client, read, on the wire and kept.
BetsOK(i, c, w, got, bets) ==
  /\ Ascends(w, bets) /\ Ascends(c.queue, bets)
  /\ \A m \in 1 .. Len(got) : got[m][1] = i =>
       got[m][2] <= bets /\ Above(w, got[m][2]) /\ (~c.done => Above(c.queue, got[m][2]))

LEMMA EmptyQueue ==
  <<>> \in Seq(O!Command) /\ Len(<<>>) = 0
OBVIOUS

LEMMA ClientFields ==
  ASSUME NEW c \in O!Client(O!Command)
  PROVE  /\ c.ws \in {"none", "connecting", "open"} /\ c.queue \in Seq(O!Command)
         /\ c.late \in BOOLEAN /\ c.tried \in BOOLEAN /\ c.done \in BOOLEAN /\ c.retry \in BOOLEAN
BY DEF O!Client

LEMMA NewClientFields ==
  /\ O!NewClient \in O!Client(O!Command) /\ O!NewClient.ws = "none" /\ ~O!NewClient.done
  /\ O!NewClient.queue = <<>> /\ ~O!NewClient.retry
BY EmptyQueue DEF O!NewClient, O!Client

LEMMA OpenSocketOK ==
  ASSUME NEW c \in O!Client(O!Command)
  PROVE  LET o == O!OpenSocket(c)
         IN  /\ o.c \in O!Client(O!Command) /\ o.c.ws = "connecting"
             /\ o.c.done = c.done /\ o.c.retry = c.retry /\ o.c.queue = c.queue
             /\ o.frames = <<>> /\ o.status \in {"reconnecting", "connecting"}
BY DEF O!OpenSocket, O!Out, O!Client

LEMMA OnOpenOK ==
  ASSUME NEW c \in O!Client(O!Command), NEW hello
  PROVE  LET o == O!OnOpen(c, hello)
         IN  /\ o.c \in O!Client(O!Command) /\ o.c.ws = "open"
             /\ o.c.done = c.done /\ o.c.retry = c.retry /\ o.c.queue = <<>>
             /\ o.frames = hello \o c.queue /\ o.status = "open"
BY EmptyQueue DEF O!OnOpen, O!Out, O!Client

LEMMA OnCloseOK ==
  ASSUME NEW c \in O!Client(O!Command)
  PROVE  LET o == O!OnClose(c)
         IN  /\ o.c \in O!Client(O!Command) /\ o.c.ws = "none"
             /\ o.c.done = c.done /\ o.c.queue = c.queue /\ o.status = "reconnecting"
BY DEF O!OnClose, O!Out, O!Client

LEMMA OnLateCloseOK ==
  ASSUME NEW c \in O!Client(O!Command)
  PROVE  LET o == O!OnLateClose(c)
         IN  /\ o.c \in O!Client(O!Command) /\ o.c.ws = c.ws /\ o.c.done = c.done
             /\ o.c.queue = c.queue /\ o.c.retry = c.retry /\ o.frames = <<>>
             /\ o.status = "closed"
BY DEF O!OnLateClose, O!Out, O!Client

LEMMA OverOK ==
  ASSUME NEW c \in O!Client(O!Command)
  PROVE  LET o == O!Over(c)
         IN  /\ o \in O!Client(O!Command) /\ o.ws = "none" /\ o.done /\ o.queue = <<>>
             /\ o.late = c.late
BY EmptyQueue DEF O!Over, O!Client

LEMMA LateOK ==
  ASSUME NEW c \in O!Client(O!Command), NEW late \in BOOLEAN
  PROVE  LET o == [c EXCEPT !.late = late]
         IN  /\ o \in O!Client(O!Command) /\ o.ws = c.ws /\ o.done = c.done
             /\ o.queue = c.queue /\ o.retry = c.retry
BY DEF O!Client

LEMMA TerminalOK ==
  ASSUME NEW c \in O!Client(O!Command), NEW stillOpen \in BOOLEAN
  PROVE  LET o == O!SurfaceTerminal(c, stillOpen)
         IN  /\ o.c \in O!Client(O!Command) /\ o.c.ws = "none" /\ o.c.done /\ o.c.queue = <<>>
             /\ o.frames = <<>> /\ o.status = "closed"
<1> DEFINE d == O!Over(c)
           e == [d EXCEPT !.late = stillOpen]
<1>1. d \in O!Client(O!Command) /\ d.ws = "none" /\ d.done /\ d.queue = <<>>
  BY OverOK
<1> HIDE DEF d
<1>2. e \in O!Client(O!Command) /\ e.ws = "none" /\ e.done /\ e.queue = <<>>
  BY <1>1, LateOK
<1>3. O!SurfaceTerminal(c, stillOpen) = O!Out(e, <<>>, "closed")
  BY DEF O!SurfaceTerminal, d
<1> HIDE DEF e
<1>. QED BY <1>2, <1>3 DEF O!Out

LEMMA CloseOK ==
  ASSUME NEW c \in O!Client(O!Command)
  PROVE  LET o == O!Close(c)
         IN  /\ o.c \in O!Client(O!Command) /\ o.c.ws = "none" /\ o.c.done /\ o.c.queue = <<>>
             /\ o.frames = <<>> /\ o.status = O!NoStatus
<1> DEFINE d == O!Over(c)
           e == [d EXCEPT !.late = @ \/ c.ws # "none"]
<1>1. d \in O!Client(O!Command) /\ d.ws = "none" /\ d.done /\ d.queue = <<>>
  BY OverOK
<1> HIDE DEF d
<1>2. e \in O!Client(O!Command) /\ e.ws = "none" /\ e.done /\ e.queue = <<>>
  BY <1>1 DEF O!Client
<1>3. O!Close(c) = O!Out(e, <<>>, O!NoStatus)
  BY DEF O!Close, d
<1> HIDE DEF e
<1>. QED BY <1>2, <1>3 DEF O!Out

LEMMA RetryOK ==
  ASSUME NEW c \in O!Client(O!Command)
  PROVE  LET o == O!Retry(c)
         IN  /\ o.c \in O!Client(O!Command) /\ o.c.done = c.done /\ ~o.c.retry
             /\ o.c.queue = c.queue /\ o.frames = <<>>
             /\ c.done => o.c.ws = c.ws /\ o.status = O!NoStatus
             /\ ~c.done => o.c.ws = "connecting" /\ o.status \in {"reconnecting", "connecting"}
<1> DEFINE r == [c EXCEPT !.retry = FALSE]
<1>1. /\ r \in O!Client(O!Command) /\ r.done = c.done /\ ~r.retry /\ r.queue = c.queue
      /\ r.ws = c.ws
  BY DEF O!Client
<1> HIDE DEF r
<1>2. O!Retry(c) = IF c.done THEN O!Out(r, <<>>, O!NoStatus) ELSE O!OpenSocket(r)
  BY DEF O!Retry, r
<1>3. CASE c.done
  <2>1. O!Retry(c) = O!Out(r, <<>>, O!NoStatus)
    BY <1>2, <1>3
  <2> DEFINE o == O!Out(r, <<>>, O!NoStatus)
  <2>2. o.c = r /\ o.frames = <<>> /\ o.status = O!NoStatus
    BY DEF O!Out
  <2> HIDE DEF o
  <2>. QED BY <1>1, <1>3, <2>1, <2>2 DEF o
<1>4. CASE ~c.done
  BY <1>1, <1>2, <1>4, OpenSocketOK
<1>. QED BY <1>3, <1>4

LEMMA SendCommandOK ==
  ASSUME NEW c \in O!Client(O!Command), NEW cmd \in O!Command
  PROVE  LET o == O!SendCommand(c, cmd)
         IN  /\ o.c \in O!Client(O!Command) /\ o.c.ws = c.ws /\ o.c.done = c.done
             /\ o.c.retry = c.retry /\ o.status = O!NoStatus
             /\ c.ws = "open" => o.c.queue = c.queue /\ o.frames = <<cmd>>
             /\ c.ws # "open" => o.c.queue = Append(c.queue, cmd) /\ o.frames = <<>>
<1>1. CASE c.ws = "open"
  BY <1>1 DEF O!SendCommand, O!Out
<1>2. CASE c.ws # "open"
  <2> DEFINE queue == Append(c.queue, cmd)
             d == [c EXCEPT !.queue = queue]
  <2>1. queue \in Seq(O!Command)
    BY ClientFields
  <2>2. O!SendCommand(c, cmd) = O!Out(d, <<>>, O!NoStatus)
    BY <1>2 DEF O!SendCommand
  <2> HIDE DEF queue
  <2>3. /\ d \in O!Client(O!Command) /\ d.ws = c.ws /\ d.done = c.done
        /\ d.retry = c.retry /\ d.queue = queue
    BY <2>1 DEF O!Client
  <2> HIDE DEF d
  <2>. QED BY <1>2, <2>2, <2>3 DEF O!Out, queue
<1>. QED BY <1>1, <1>2

-----------------------------------------------------------------------------
(* The server's tables: what a step does to a client *)

\* One more on the wire, or none.
LEMMA OneMore ==
  ASSUME NEW S, NEW w \in Seq(S), NEW x \in S
  PROVE  /\ w \o <<x>> = Append(w, x) /\ w \o <<>> = w
         /\ Append(w, x) \in Seq(S) /\ Append(w, x) # <<>>
         /\ Len(Append(w, x)) = Len(w) + 1 /\ Len(w) \in Nat
         /\ w # <<>> => Append(w, x)[1] = w[1]
         /\ \A k \in 1 .. Len(w) + 1 :
              \/ k \in 1 .. Len(w) /\ Append(w, x)[k] = w[k]
              \/ k = Len(w) + 1 /\ Append(w, x)[k] = x
<1>1. w \o <<x>> = Append(w, x) /\ w \o <<>> = w
  BY AppendIsConcat, ConcatEmptySeq
<1>2. /\ Append(w, x) \in Seq(S) /\ Append(w, x) # <<>>
      /\ Len(Append(w, x)) = Len(w) + 1 /\ Len(w) \in Nat
      /\ \A k \in 1 .. Len(w) : Append(w, x)[k] = w[k]
      /\ Append(w, x)[Len(w) + 1] = x
  BY AppendProperties, LenProperties
<1>3. w # <<>> => 1 \in 1 .. Len(w)
  BY EmptySeq, LenProperties
<1>4. \A k \in 1 .. Len(w) + 1 : k \in 1 .. Len(w) \/ k = Len(w) + 1
  BY <1>2
<1>. QED BY <1>1, <1>2, <1>3, <1>4

LEMMA AscendsAppend ==
  ASSUME NEW w \in Seq(O!Command), NEW cmd \in O!Command, NEW bets \in Nat, NEW more \in Nat,
         Ascends(w, bets), bets <= more,
         cmd.kind = "bet" => bets < cmd.n /\ cmd.n <= more
  PROVE  /\ Ascends(Append(w, cmd), more)
         /\ \A b \in Nat : Above(w, b) /\ b <= bets => Above(Append(w, cmd), b)
<1>1. /\ Len(Append(w, cmd)) = Len(w) + 1 /\ Append(w, cmd)[Len(w) + 1] = cmd
      /\ \A k \in 1 .. Len(w) : Append(w, cmd)[k] = w[k] /\ w[k] \in O!Command
  OBVIOUS
<1>2. \A x \in O!Command : x.n \in Nat
  BY OnlineConstants DEF O!Command
<1>3. Len(w) \in Nat
  OBVIOUS
<1> HIDE DEF O!Command
<1> DEFINE v == Append(w, cmd)
<1>4. \A k \in 1 .. Len(v) : k \in 1 .. Len(w) \/ k = Len(w) + 1
  BY <1>1, <1>3
<1>. QED BY <1>1, <1>2, <1>3, <1>4 DEF Ascends, Above

LEMMA AscendsMore ==
  ASSUME NEW w \in Seq(O!Command), NEW bets \in Nat, NEW more \in Nat,
         Ascends(w, bets), bets <= more
  PROVE  Ascends(w, more)
<1>1. \A k \in 1 .. Len(w) : w[k] \in O!Command
  OBVIOUS
<1>2. \A x \in O!Command : x.n \in Nat
  BY OnlineConstants DEF O!Command
<1>. QED BY <1>1, <1>2 DEF Ascends

LEMMA AscendsEmpty ==
  \A bets, b : Ascends(<<>>, bets) /\ Above(<<>>, b)
BY DEF Ascends, Above

LEMMA AscendsTail ==
  ASSUME NEW w \in Seq(O!Command), w # <<>>, NEW bets, Ascends(w, bets)
  PROVE  /\ Ascends(Tail(w), bets) /\ \A b : Above(w, b) => Above(Tail(w), b)
         /\ w[1].kind = "bet" => Above(Tail(w), w[1].n) /\ w[1].n <= bets /\ 1 <= w[1].n
<1>1. /\ Tail(w) \in Seq(O!Command) /\ Len(Tail(w)) = Len(w) - 1 /\ Len(w) \in Nat \ {0}
      /\ \A k \in 1 .. Len(Tail(w)) : Tail(w)[k] = w[k + 1]
  OBVIOUS
<1>2. \A k \in 1 .. Len(Tail(w)) : k + 1 \in 1 .. Len(w) /\ 1 < k + 1
  BY <1>1
<1>3. \A j, k \in 1 .. Len(Tail(w)) : j < k => j + 1 < k + 1
  BY <1>1
<1>4. 1 \in 1 .. Len(w)
  BY <1>1
<1> DEFINE v == Tail(w)
<1> HIDE DEF v
<1>5. /\ \A k \in 1 .. Len(v) : v[k] = w[k + 1] /\ k + 1 \in 1 .. Len(w) /\ 1 < k + 1
      /\ \A j, k \in 1 .. Len(v) : j < k => j + 1 < k + 1
  BY <1>1, <1>2, <1>3 DEF v
<1>6. Ascends(v, bets) /\ \A b : Above(w, b) => Above(v, b)
  BY <1>5 DEF Ascends, Above
<1>7. w[1].kind = "bet" => Above(v, w[1].n) /\ w[1].n <= bets /\ 1 <= w[1].n
  BY <1>4, <1>5 DEF Ascends, Above
<1>. QED BY <1>6, <1>7 DEF v

\* The server reads a command.
LEMMA ClientRead ==
  ASSUME NEW i \in Nat, NEW c, NEW w, NEW joined, NEW inst \in Nat, NEW open,
         ClientOK(i, c, w, joined, inst, open), w # <<>>
  PROVE  /\ Head(w) \in O!Command /\ Head(w) = w[1] /\ Tail(w) \in Seq(O!Command)
         /\ w[1].kind = "hello" => ClientOK(i, c, Tail(w), TRUE, inst, open)
         /\ w[1].kind \in {"resync", "bet"} => joined /\ ClientOK(i, c, Tail(w), joined, inst, open)
         /\ w[1].kind = "leave" =>
              Tail(w) = <<>> /\ c.ws # "open" /\ ClientOK(i, c, Tail(w), FALSE, inst, open)
<1>1. /\ w \in Seq(O!Command) /\ joined \in BOOLEAN
      /\ ~joined => w[1].kind = "hello"
  BY DEF ClientOK
<1> DEFINE v == Tail(w)
<1>2. /\ Head(w) = w[1] /\ Head(w) \in O!Command
      /\ v \in Seq(O!Command) /\ Len(v) = Len(w) - 1 /\ Len(w) \in Nat \ {0}
      /\ \A k \in 1 .. Len(v) : v[k] = w[k + 1]
  BY <1>1
<1> HIDE DEF v
<1>3. \A k \in 1 .. Len(v) : k + 1 \in 1 .. Len(w) /\ (k + 1 = Len(w) => k = Len(v))
  <2> DEFINE x == Len(v)
             y == Len(w)
  <2>1. x = y - 1 /\ y \in Nat \ {0}
    BY <1>2
  <2> HIDE DEF x, y
  <2>2. \A k \in 1 .. x : k + 1 \in 1 .. y /\ (k + 1 = y => k = x)
    BY <2>1
  <2>. QED BY <2>2 DEF x, y
<1>4. 1 \in 1 .. Len(w) /\ (1 = Len(w) => Len(v) = 0)
  BY <1>2
<1>5. Len(v) = 0 => v = <<>>
  BY <1>2
<1>6. \A k \in 1 .. Len(v) : v[k].kind = "leave" => k = Len(v) /\ c.ws # "open"
  BY <1>2, <1>3 DEF ClientOK
<1>7. w[1].kind = "hello" => ClientOK(i, c, v, TRUE, inst, open)
  BY <1>2, <1>6 DEF ClientOK
<1>8. w[1].kind \in {"resync", "bet"} => joined /\ ClientOK(i, c, v, joined, inst, open)
  BY <1>1, <1>2, <1>6 DEF ClientOK
<1>9. ASSUME w[1].kind = "leave"
      PROVE  v = <<>> /\ c.ws # "open" /\ ClientOK(i, c, v, FALSE, inst, open)
  <2>1. v = <<>> /\ c.ws # "open"
    BY <1>4, <1>5, <1>9 DEF ClientOK
  <2>. QED BY <1>2, <1>6, <2>1 DEF ClientOK
<1>. QED BY <1>2, <1>7, <1>8, <1>9 DEF v

\* A snapshot is asked for where one is missed.
LEMMA ClientResync ==
  ASSUME NEW i \in Nat, NEW c, NEW w, NEW joined, NEW inst \in Nat, NEW open,
         ClientOK(i, c, w, joined, inst, open), c.ws = "open", joined,
         NEW got, NEW bets \in Nat, BetsOK(i, c, w, got, bets)
  PROVE  /\ ClientOK(i, c, O!Resync(w), joined, inst, open)
         /\ BetsOK(i, c, O!Resync(w), got, bets)
<1>1. w \in Seq(O!Command) /\ O!Frame("resync") \in O!Command /\ O!Frame("resync").kind = "resync"
  BY OnlineConstants DEF ClientOK, O!Frame, O!Command
<1>2. CASE O!Resync(w) = w
  BY <1>2
<1>3. CASE O!Resync(w) = Append(w, O!Frame("resync"))
  <2> DEFINE v == Append(w, O!Frame("resync"))
  <2>1. /\ v \in Seq(O!Command) /\ Len(v) = Len(w) + 1 /\ Len(w) \in Nat /\ v # <<>>
        /\ \A k \in 1 .. Len(v) : (k \in 1 .. Len(w) /\ v[k] = w[k]) \/ v[k].kind = "resync"
    BY <1>1
  <2>2. \A k \in 1 .. Len(v) : v[k].kind # "leave"
    BY <2>1 DEF ClientOK
  <2>3. ClientOK(i, c, v, joined, inst, open)
    <3> HIDE DEF v
    <3>. QED BY <2>1, <2>2 DEF ClientOK
  <2>4. Ascends(v, bets) /\ \A b \in Nat : Above(w, b) => Above(v, b)
    <3>1. \A j, k \in 1 .. Len(v) : j < k /\ v[k].kind = "bet" => j \in 1 .. Len(w)
      BY <2>1
    <3> HIDE DEF v
    <3>. QED BY <2>1, <3>1 DEF Ascends, Above, BetsOK
  <2>5. \A b : Above(w, b) => Above(v, b)
    <3> HIDE DEF v
    <3>. QED BY <2>1 DEF Above
  <2> HIDE DEF v
  <2>6. BetsOK(i, c, v, got, bets)
    BY <2>4, <2>5 DEF BetsOK
  <2>. QED BY <1>3, <2>3, <2>6 DEF v
<1>. QED BY <1>2, <1>3 DEF O!Resync

\* The socket opens: the table is joined before what waited goes out.
LEMMA ClientAccept ==
  ASSUME NEW i, NEW c, NEW w, NEW joined, NEW inst, NEW open, NEW got, NEW bets,
         ClientOK(i, c, w, joined, inst, open), BetsOK(i, c, w, got, bets),
         i \in Nat, inst \in Nat, bets \in Nat, c.ws = "connecting"
  PROVE  LET o == O!OnOpen(c, <<O!Frame("hello")>>)
         IN  /\ ClientOK(i, o.c, w \o o.frames, joined, inst, open)
             /\ BetsOK(i, o.c, w \o o.frames, got, bets)
             /\ i = inst /\ open
<1> DEFINE o == O!OnOpen(c, <<O!Frame("hello")>>)
           v == <<O!Frame("hello")>> \o c.queue
<1>1. c \in O!Client(O!Command) /\ c.queue \in Seq(O!Command) /\ w = <<>> /\ ~joined
      /\ ~c.done /\ ~c.retry /\ i = inst /\ open
  BY ClientFields, NewClientFields DEF ClientOK
<1>2. O!Frame("hello") \in O!Command /\ O!Frame("hello").kind = "hello"
  BY OnlineConstants DEF O!Frame, O!Command
<1>3. /\ o.c \in O!Client(O!Command) /\ o.c.ws = "open" /\ ~o.c.done /\ ~o.c.retry
      /\ o.c.queue = <<>> /\ o.frames = v
  <2> DEFINE hello == <<O!Frame("hello")>>
  <2>1. o = O!OnOpen(c, hello) /\ v = hello \o c.queue
    OBVIOUS
  <2> HIDE DEF hello, o, v
  <2>. QED BY <1>1, <2>1, OnOpenOK
<1>4. w \o o.frames = v /\ v \in Seq(O!Command)
  <2> DEFINE f == O!Frame("hello")
             q == c.queue
  <2>1. v = <<f>> \o q /\ f \in O!Command /\ q \in Seq(O!Command)
    BY <1>1, <1>2
  <2>2. w = <<>> /\ o.frames = v
    BY <1>1, <1>3
  <2> HIDE DEF f, q, v, o
  <2>3. v \in Seq(O!Command)
    BY ONLY <2>1
  <2>. QED BY ONLY <2>2, <2>3
<1>5. /\ Len(v) = Len(c.queue) + 1 /\ Len(c.queue) \in Nat /\ v[1] = O!Frame("hello")
      /\ \A k \in 1 .. Len(v) : k = 1 \/ (k - 1 \in 1 .. Len(c.queue) /\ v[k] = c.queue[k - 1])
  BY <1>1, <1>2
<1>6. v # <<>>
  BY <1>5
<1>7. \A k \in 1 .. Len(v) : v[k].kind # "leave"
  BY <1>2, <1>5 DEF ClientOK
<1> HIDE DEF o, v
<1>8. ClientOK(i, o.c, v, joined, inst, open)
  <2>1. ~(i > inst)
    BY <1>1
  <2>. QED BY <1>1, <1>2, <1>3, <1>4, <1>5, <1>6, <1>7, <2>1 DEF ClientOK
<1>9. Ascends(c.queue, bets) /\ Ascends(o.c.queue, bets)
  BY <1>3, AscendsEmpty DEF BetsOK
<1>10. Ascends(v, bets) /\ \A b : Above(c.queue, b) => Above(v, b)
  <2>1. \A j, k \in 1 .. Len(v) : j < k => j - 1 < k - 1
    BY <1>5
  <2>. QED BY <1>2, <1>5, <1>9, <2>1 DEF Ascends, Above
<1>11. BetsOK(i, o.c, v, got, bets)
  BY <1>1, <1>3, <1>9, <1>10, AscendsEmpty DEF BetsOK
<1>. QED BY <1>1, <1>4, <1>8, <1>11 DEF o

\* The connection is lost, and what is on the wire with it.
LEMMA ClientDrop ==
  ASSUME NEW i, NEW c, NEW w, NEW joined, NEW inst, NEW open, NEW got, NEW bets,
         ClientOK(i, c, w, joined, inst, open), BetsOK(i, c, w, got, bets),
         i \in Nat, inst \in Nat, bets \in Nat, c.ws # "none", NEW no \in BOOLEAN, ~no
  PROVE  LET o == O!OnClose(c)
         IN  /\ ClientOK(i, o.c, <<>>, no, inst, open) /\ BetsOK(i, o.c, <<>>, got, bets)
             /\ i = inst /\ open
<1> DEFINE o == O!OnClose(c)
<1>1. c \in O!Client(O!Command) /\ ~c.done /\ i = inst /\ open
  BY NewClientFields DEF ClientOK
<1>2. /\ o.c \in O!Client(O!Command) /\ o.c.ws = "none" /\ o.c.done = c.done
      /\ o.c.queue = c.queue
  BY <1>1, OnCloseOK
<1>3. <<>> \in Seq(O!Command) /\ Len(<<>>) = 0 /\ ~(i > inst)
  BY <1>1
<1> HIDE DEF o
<1>4. ClientOK(i, o.c, <<>>, no, inst, open)
  BY <1>1, <1>2, <1>3 DEF ClientOK
<1>5. BetsOK(i, o.c, <<>>, got, bets)
  BY <1>1, <1>2, AscendsEmpty DEF BetsOK
<1>. QED BY <1>1, <1>4, <1>5 DEF o

\* A client that is done with its socket.
LEMMA ClientDone ==
  ASSUME NEW i, NEW c, NEW w, NEW joined, NEW inst, NEW open, NEW shut, NEW got, NEW bets,
         NEW d, NEW no, ClientOK(i, c, w, joined, inst, open), BetsOK(i, c, w, got, bets),
         i \in Nat, inst \in Nat, i <= inst, bets \in Nat,
         d \in O!Client(O!Command), d.ws = "none", d.done, d.queue = <<>>,
         shut \in BOOLEAN, no \in BOOLEAN, ~no
  PROVE  /\ ClientOK(i, d, w, joined, inst, shut) /\ BetsOK(i, d, w, got, bets)
         /\ ClientOK(i, d, <<>>, no, inst, shut) /\ BetsOK(i, d, <<>>, got, bets)
<1>1. ~(i > inst) /\ Len(<<>>) = 0 /\ <<>> \in Seq(O!Command)
  OBVIOUS
<1>2. ClientOK(i, d, w, joined, inst, shut) /\ ClientOK(i, d, <<>>, no, inst, shut)
  BY <1>1 DEF ClientOK
<1>3. BetsOK(i, d, w, got, bets) /\ BetsOK(i, d, <<>>, got, bets)
  BY AscendsEmpty DEF BetsOK
<1>. QED BY <1>2, <1>3

\* One that only reports, or asks for a socket again.
LEMMA ClientStays ==
  ASSUME NEW i, NEW c, NEW w, NEW joined, NEW inst, NEW open, NEW got, NEW bets, NEW d,
         ClientOK(i, c, w, joined, inst, open), BetsOK(i, c, w, got, bets),
         i \in Nat, inst \in Nat, i <= inst, bets \in Nat,
         d \in O!Client(O!Command), d.done = c.done, d.queue = c.queue,
         d.ws = c.ws \/ (d.ws = "connecting" /\ ~c.done /\ c.ws # "open"),
         d.retry => c.retry /\ d.ws = c.ws
  PROVE  ClientOK(i, d, w, joined, inst, open) /\ BetsOK(i, d, w, got, bets)
<1>1. ~(i > inst)
  OBVIOUS
<1>2. ClientOK(i, d, w, joined, inst, open)
  BY <1>1 DEF ClientOK
<1>. QED BY <1>2 DEF BetsOK

\* A bet of the player, or a request for a snapshot.
LEMMA ClientSend ==
  ASSUME NEW i, NEW c, NEW w, NEW joined, NEW inst, NEW open, NEW got, NEW bets, NEW cmd,
         NEW more, ClientOK(i, c, w, joined, inst, open), BetsOK(i, c, w, got, bets),
         i \in Nat, inst \in Nat, i <= inst, bets \in Nat, more \in Nat, bets <= more,
         \A m \in 1 .. Len(got) : got[m][2] \in Nat,
         cmd \in O!Command, cmd.kind \in {"bet", "resync"},
         cmd.kind = "bet" => bets < cmd.n /\ cmd.n <= more
  PROVE  LET o == O!SendCommand(c, cmd)
         IN  /\ ClientOK(i, o.c, w \o o.frames, joined, inst, open)
             /\ BetsOK(i, o.c, w \o o.frames, got, more)
<1> DEFINE o == O!SendCommand(c, cmd)
<1>1. c \in O!Client(O!Command) /\ c.queue \in Seq(O!Command) /\ w \in Seq(O!Command)
  BY ClientFields DEF ClientOK
<1>2. /\ o.c \in O!Client(O!Command) /\ o.c.ws = c.ws /\ o.c.done = c.done
      /\ o.c.retry = c.retry
      /\ c.ws = "open" => o.c.queue = c.queue /\ o.frames = <<cmd>>
      /\ c.ws # "open" => o.c.queue = Append(c.queue, cmd) /\ o.frames = <<>>
  BY <1>1, SendCommandOK
<1>3. \A m \in 1 .. Len(got) : got[m][2] \in Nat
  OBVIOUS
<1>4. ~(i > inst)
  OBVIOUS
<1> HIDE DEF o
<1>5. /\ Ascends(w, more) /\ Ascends(c.queue, more)
      /\ \A m \in 1 .. Len(got) : got[m][1] = i => got[m][2] <= more
  <2> DEFINE q == c.queue
  <2>1. /\ w \in Seq(O!Command) /\ q \in Seq(O!Command) /\ bets \in Nat /\ more \in Nat
        /\ bets <= more
    BY <1>1
  <2>2. /\ Ascends(w, bets) /\ Ascends(q, bets)
        /\ \A m \in 1 .. Len(got) : got[m][1] = i => got[m][2] <= bets
    BY DEF BetsOK
  <2> HIDE DEF q
  <2>3. Ascends(w, more)
    BY ONLY <2>1, <2>2, AscendsMore
  <2>4. Ascends(q, more)
    BY ONLY <2>1, <2>2, AscendsMore
  <2>5. \A m \in 1 .. Len(got) : got[m][1] = i => got[m][2] <= more
    BY <1>3, <2>1, <2>2
  <2>. QED BY <2>3, <2>4, <2>5 DEF q
<1>6. CASE c.ws = "open"
  <2> DEFINE v == Append(w, cmd)
  <2>1. w \o o.frames = v /\ v \in Seq(O!Command) /\ Len(v) = Len(w) + 1 /\ Len(w) \in Nat
    <3>1. o.frames = <<cmd>>
      BY <1>2, <1>6
    <3>. QED BY <1>1, <3>1, OneMore
  <2>2. /\ v # <<>> /\ (w # <<>> => v[1] = w[1])
        /\ \A k \in 1 .. Len(v) : (k \in 1 .. Len(w) /\ v[k] = w[k]) \/ v[k] = cmd
    BY <1>1, OneMore
  <2>3. \A k \in 1 .. Len(v) : v[k].kind # "leave"
    BY <1>6, <2>2 DEF ClientOK
  <2>4. Ascends(v, more) /\ \A b \in Nat : Above(w, b) /\ b <= bets => Above(v, b)
    BY <1>1, AscendsAppend DEF BetsOK
  <2> HIDE DEF v
  <2>5. ClientOK(i, o.c, v, joined, inst, open)
    BY <1>2, <1>4, <1>6, <2>1, <2>2, <2>3 DEF ClientOK
  <2>6. BetsOK(i, o.c, v, got, more)
    BY <1>2, <1>3, <1>5, <1>6, <2>4 DEF BetsOK
  <2>. QED BY <2>1, <2>5, <2>6 DEF o
<1>7. CASE c.ws # "open"
  <2> DEFINE v == Append(c.queue, cmd)
  <2>1. w \o o.frames = w
    BY <1>1, <1>2, <1>7, OneMore
  <2>2. \A k \in 1 .. Len(v) : v[k].kind # "leave"
    <3>1. \A k \in 1 .. Len(v) : (k \in 1 .. Len(c.queue) /\ v[k] = c.queue[k]) \/ v[k] = cmd
      BY <1>1, OneMore
    <3>. QED BY <3>1 DEF ClientOK
  <2>3. Ascends(v, more) /\ \A b \in Nat : Above(c.queue, b) /\ b <= bets => Above(v, b)
    BY <1>1, AscendsAppend DEF BetsOK
  <2> HIDE DEF v
  <2>4. ClientOK(i, o.c, w, joined, inst, open)
    BY <1>2, <1>4, <1>7, <2>2 DEF ClientOK, v
  <2>5. BetsOK(i, o.c, w, got, more)
    BY <1>2, <1>3, <1>5, <1>7, <2>3 DEF BetsOK, v
  <2>. QED BY <2>1, <2>4, <2>5 DEF o
<1>. QED BY <1>6, <1>7

\* The player leaves the table: nothing comes after that.
LEMMA ClientLeaves ==
  ASSUME NEW i, NEW c, NEW w, NEW joined, NEW inst, NEW open, NEW shut, NEW got, NEW bets,
         ClientOK(i, c, w, joined, inst, open), BetsOK(i, c, w, got, bets),
         i \in Nat, inst \in Nat, i <= inst, bets \in Nat, shut \in BOOLEAN
  PROVE  LET o == O!SendCommand(c, O!Frame("leave"))
             d == O!Close(o.c).c
         IN  /\ ClientOK(i, d, w \o o.frames, joined, inst, shut)
             /\ BetsOK(i, d, w \o o.frames, got, bets)
<1> DEFINE cmd == O!Frame("leave")
           o == O!SendCommand(c, cmd)
           d == O!Close(o.c).c
<1>1. c \in O!Client(O!Command) /\ c.queue \in Seq(O!Command) /\ w \in Seq(O!Command)
  BY ClientFields DEF ClientOK
<1>2. cmd \in O!Command /\ cmd.kind = "leave"
  BY OnlineConstants DEF O!Frame, O!Command
<1> HIDE DEF cmd
<1>3. /\ o.c \in O!Client(O!Command)
      /\ c.ws = "open" => o.frames = <<cmd>>
      /\ c.ws # "open" => o.frames = <<>>
  BY <1>1, <1>2, SendCommandOK
<1> HIDE DEF o
<1>4. d \in O!Client(O!Command) /\ d.ws = "none" /\ d.done /\ d.queue = <<>>
  BY <1>3, CloseOK
<1> HIDE DEF d
<1>5. CASE c.ws # "open"
  <2>1. w \o o.frames = w
    <3>1. o.frames = <<>>
      BY <1>3, <1>5
    <3>. QED BY <1>1, <1>2, <3>1, OneMore
  <2>2. ClientOK(i, d, w, joined, inst, shut) /\ BetsOK(i, d, w, got, bets)
    BY <1>4, ClientDone
  <2>. QED BY <2>1, <2>2 DEF d, o, cmd
<1>6. CASE c.ws = "open"
  <2> DEFINE v == Append(w, cmd)
  <2>1. w \o o.frames = v /\ v \in Seq(O!Command)
    <3>1. o.frames = <<cmd>>
      BY <1>3, <1>6
    <3>. QED BY <1>1, <1>2, <3>1, OneMore
  <2>2. /\ v # <<>> /\ (w # <<>> => v[1] = w[1])
        /\ \A k \in 1 .. Len(v) :
             (k \in 1 .. Len(w) /\ v[k] = w[k]) \/ (k = Len(v) /\ v[k] = cmd)
    BY <1>1, <1>2, OneMore
  <2>3. ~joined => v[1].kind = "hello"
    BY <1>6, <2>2 DEF ClientOK
  <2>4. \A k \in 1 .. Len(v) : v[k].kind = "leave" => k = Len(v)
    BY <1>6, <2>2 DEF ClientOK
  <2>5. \A k \in 1 .. Len(v) : v[k].kind = "bet" => k \in 1 .. Len(w) /\ v[k] = w[k]
    BY <1>2, <2>2
  <2> HIDE DEF v
  <2>6. ~(i > inst) /\ Len(<<>>) = 0 /\ joined \in BOOLEAN
    BY DEF ClientOK
  <2>7. ClientOK(i, d, v, joined, inst, shut)
    BY <1>4, <2>1, <2>3, <2>4, <2>6 DEF ClientOK
  <2>8. Ascends(v, bets) /\ \A b : Above(w, b) => Above(v, b)
    BY <2>5 DEF BetsOK, Ascends, Above
  <2>9. BetsOK(i, d, v, got, bets)
    BY <1>4, <2>8, AscendsEmpty DEF BetsOK
  <2>. QED BY <2>1, <2>7, <2>9 DEF d, o, cmd
<1>. QED BY <1>5, <1>6

-----------------------------------------------------------------------------
(* The server's tables: the invariant *)

ClientsOK(n, p) ==
  \A i \in O!Clients :
    /\ ClientOK(i, n.cl[i], n.wire[i], i \in n.joined, p.inst, p.s.open)
    /\ BetsOK(i, n.cl[i], n.wire[i], n.got, p.bets)

GotAscends(got) ==
  \A j, k \in 1 .. Len(got) : j < k /\ got[j][1] = got[k][1] => got[j][2] < got[k][2]

\* Who is still in has no place yet, and somebody to play with.
ServerOK(n) ==
  /\ n.seated => n.place = 0
  /\ ~n.over => IF n.seated THEN n.left >= 2 ELSE n.left <= Opponents

StatusOK(n, p) ==
  /\ p.status = "open" => p.s.open /\ n.cl[p.inst].ws = "open"
  /\ p.status \in {"connecting", "reconnecting"} => p.s.open /\ n.cl[p.inst].ws # "open"

OnlineOK(n, p, k) ==
  /\ n \in O!Net /\ p \in O!Page /\ k \in 0 .. MaxSteps /\ p.bets <= k
  /\ p.s.open => p.inst \in O!Clients
  /\ ClientsOK(n, p) /\ GotAscends(n.got)
  /\ ServerOK(n) /\ Truthful(p, n) /\ StatusOK(n, p)

OnlineInv == game = "online" => OnlineOK(core, view, upsets)

LEMMA NetFields ==
  ASSUME NEW n \in O!Net
  PROVE  /\ n.cl \in [O!Clients -> O!Client(O!Command)]
         /\ n.wire \in [O!Clients -> Seq(O!Command)]
         /\ n.joined \in SUBSET O!Clients /\ n.gap \in BOOLEAN
         /\ n.got \in Seq(O!Clients \X (1 .. MaxSteps))
         /\ n.myTurn \in BOOLEAN /\ n.seated \in BOOLEAN /\ n.over \in BOOLEAN
         /\ n.left \in 1 .. Opponents + 1 /\ n.place \in 0 .. Opponents + 1
         /\ n.level \in 0 .. 1 /\ n.level \in Nat
BY DEF O!Net

LEMMA PageFields ==
  ASSUME NEW p \in O!Page
  PROVE  /\ p.s \in O!G!Store /\ p.t \in O!Tourney /\ p.inst \in 0 .. MaxClients
         /\ p.bets \in 0 .. MaxSteps /\ p.bets \in Nat /\ p.inst \in Nat
         /\ p.status \in O!Status /\ p.error \in {"none", "brief", "fatal"}
         /\ p.s.open \in BOOLEAN /\ p.s.mine \in O!Seat \cup {O!G!None}
<1>1. /\ p.s \in O!G!Store /\ p.t \in O!Tourney /\ p.inst \in 0 .. MaxClients
      /\ p.bets \in 0 .. MaxSteps /\ p.status \in O!Status
      /\ p.error \in {"none", "brief", "fatal"}
  BY DEF O!Page
<1>2. p.bets \in Nat /\ p.inst \in Nat
  BY <1>1
<1>3. p.s.open \in BOOLEAN /\ p.s.mine \in O!Seat \cup {O!G!None}
  <2> DEFINE q == p.s
  <2>1. q \in O!G!Store
    BY <1>1
  <2> HIDE DEF q
  <2>2. q.open \in BOOLEAN /\ q.mine \in O!Seat \cup {O!G!None}
    BY <2>1 DEF O!G!Store, O!G!SeatOrNone, O!G!None
  <2>. QED BY <2>2 DEF q
<1>. QED BY <1>1, <1>2, <1>3

LEMMA GotIsNat ==
  ASSUME NEW n \in O!Net
  PROVE  \A m \in 1 .. Len(n.got) : n.got[m] \in O!Clients \X (1 .. MaxSteps) /\ n.got[m][2] \in Nat
BY NetFields

SameServer(m, n) ==
  /\ m.myTurn = n.myTurn /\ m.seated = n.seated /\ m.left = n.left
  /\ m.place = n.place /\ m.level = n.level /\ m.over = n.over

\* m is n but for client i, which has c, w on its wire, and who is joined.
Touches(m, n, i, c, w, joined) ==
  /\ m \in O!Net /\ SameServer(m, n) /\ m.got = n.got
  /\ m.cl[i] = c /\ m.wire[i] = w /\ m.joined = joined
  /\ \A j \in O!Clients \ {i} : m.cl[j] = n.cl[j] /\ m.wire[j] = n.wire[j]

LEMMA TouchesAll ==
  ASSUME NEW n \in O!Net, NEW i \in O!Clients, NEW c \in O!Client(O!Command),
         NEW w \in Seq(O!Command), NEW joined \in SUBSET O!Clients
  PROVE  Touches([n EXCEPT !.cl[i] = c, !.wire[i] = w, !.joined = joined], n, i, c, w, joined)
<1> DEFINE m == [n EXCEPT !.cl[i] = c, !.wire[i] = w, !.joined = joined]
<1>1. m \in O!Net
  BY DEF O!Net
<1>2. /\ m.cl = [n.cl EXCEPT ![i] = c] /\ m.wire = [n.wire EXCEPT ![i] = w]
      /\ m.joined = joined /\ m.got = n.got /\ SameServer(m, n)
  BY DEF O!Net, SameServer
<1> HIDE DEF m
<1>. QED BY <1>1, <1>2, NetFields DEF Touches, m

LEMMA TouchesWire ==
  ASSUME NEW n \in O!Net, NEW i \in O!Clients, NEW c \in O!Client(O!Command),
         NEW w \in Seq(O!Command)
  PROVE  Touches([n EXCEPT !.cl[i] = c, !.wire[i] = w], n, i, c, w, n.joined)
<1> DEFINE m == [n EXCEPT !.cl[i] = c, !.wire[i] = w]
<1>1. m \in O!Net
  BY DEF O!Net
<1>2. /\ m.cl = [n.cl EXCEPT ![i] = c] /\ m.wire = [n.wire EXCEPT ![i] = w]
      /\ m.joined = n.joined /\ m.got = n.got /\ SameServer(m, n)
  BY DEF O!Net, SameServer
<1> HIDE DEF m
<1>. QED BY <1>1, <1>2, NetFields DEF Touches, m

LEMMA TouchesClient ==
  ASSUME NEW n \in O!Net, NEW i \in O!Clients, NEW c \in O!Client(O!Command), NEW gap \in BOOLEAN
  PROVE  /\ Touches([n EXCEPT !.cl[i] = c], n, i, c, n.wire[i], n.joined)
         /\ Touches([n EXCEPT !.cl[i] = c, !.gap = gap], n, i, c, n.wire[i], n.joined)
<1> DEFINE m == [n EXCEPT !.cl[i] = c]
           o == [n EXCEPT !.cl[i] = c, !.gap = gap]
<1>1. m \in O!Net /\ o \in O!Net
  BY DEF O!Net
<1>2. /\ m.cl = [n.cl EXCEPT ![i] = c] /\ m.wire = n.wire
      /\ m.joined = n.joined /\ m.got = n.got /\ SameServer(m, n)
  BY DEF O!Net, SameServer
<1>3. /\ o.cl = [n.cl EXCEPT ![i] = c] /\ o.wire = n.wire
      /\ o.joined = n.joined /\ o.got = n.got /\ SameServer(o, n)
  BY DEF O!Net, SameServer
<1> HIDE DEF m, o
<1>. QED BY <1>1, <1>2, <1>3, NetFields DEF Touches, m, o

LEMMA TouchesOnlyWire ==
  ASSUME NEW n \in O!Net, NEW i \in O!Clients, NEW w \in Seq(O!Command),
         NEW joined \in SUBSET O!Clients
  PROVE  /\ Touches([n EXCEPT !.wire[i] = w], n, i, n.cl[i], w, n.joined)
         /\ Touches([n EXCEPT !.gap = TRUE, !.wire[i] = w], n, i, n.cl[i], w, n.joined)
         /\ Touches([[n EXCEPT !.wire[i] = w] EXCEPT !.joined = joined],
                    n, i, n.cl[i], w, joined)
<1> DEFINE m == [n EXCEPT !.wire[i] = w]
           o == [n EXCEPT !.gap = TRUE, !.wire[i] = w]
           r == [m EXCEPT !.joined = joined]
<1>1. m \in O!Net /\ o \in O!Net
  BY DEF O!Net
<1>2. /\ m.cl = n.cl /\ m.wire = [n.wire EXCEPT ![i] = w]
      /\ m.joined = n.joined /\ m.got = n.got /\ SameServer(m, n)
  BY DEF O!Net, SameServer
<1>3. /\ o.cl = n.cl /\ o.wire = [n.wire EXCEPT ![i] = w]
      /\ o.joined = n.joined /\ o.got = n.got /\ SameServer(o, n)
  BY DEF O!Net, SameServer
<1> HIDE DEF m, o
<1>4. r \in O!Net
  BY <1>1 DEF O!Net
<1>5. /\ r.cl = n.cl /\ r.wire = [n.wire EXCEPT ![i] = w]
      /\ r.joined = joined /\ r.got = n.got /\ SameServer(r, n)
  BY <1>1, <1>2 DEF O!Net, SameServer
<1> HIDE DEF r
<1>. QED BY <1>1, <1>2, <1>3, <1>4, <1>5, NetFields DEF Touches, m, o, r

\* What clients other than i are is not changed by what i does.
LEMMA OtherClient ==
  ASSUME NEW j, NEW c, NEW w, NEW joined, NEW inst, NEW open, NEW shut,
         ClientOK(j, c, w, joined, inst, open), open = shut \/ j # inst
  PROVE  ClientOK(j, c, w, joined, inst, shut)
BY DEF ClientOK

LEMMA BetsOfOthers ==
  ASSUME NEW j, NEW c, NEW w \in Seq(O!Command), c.queue \in Seq(O!Command), NEW got,
         \A m \in 1 .. Len(got) : got[m][2] \in Nat,
         NEW bets \in Nat, NEW more \in Nat, bets <= more, BetsOK(j, c, w, got, bets)
  PROVE  BetsOK(j, c, w, got, more)
<1>1. Ascends(w, more) /\ Ascends(c.queue, more)
  BY AscendsMore DEF BetsOK
<1>2. \A m \in 1 .. Len(got) : got[m][1] = j => got[m][2] <= more
  BY DEF BetsOK
<1>. QED BY <1>1, <1>2 DEF BetsOK

LEMMA StepKeepsClients ==
  ASSUME NEW n \in O!Net, NEW p \in O!Page, ClientsOK(n, p), NEW i \in O!Clients,
         NEW c, NEW w, NEW joined, NEW m, Touches(m, n, i, c, w, joined),
         \A j \in O!Clients \ {i} : j \in joined <=> j \in n.joined,
         NEW q \in O!Page, q.inst = p.inst, p.bets <= q.bets,
         q.s.open = p.s.open \/ i = p.inst,
         ClientOK(i, c, w, i \in joined, q.inst, q.s.open), BetsOK(i, c, w, n.got, q.bets)
  PROVE  ClientsOK(m, q)
<1> SUFFICES ASSUME NEW j \in O!Clients
             PROVE  /\ ClientOK(j, m.cl[j], m.wire[j], j \in m.joined, q.inst, q.s.open)
                    /\ BetsOK(j, m.cl[j], m.wire[j], m.got, q.bets)
  BY DEF ClientsOK
<1>1. CASE j = i
  BY <1>1 DEF Touches
<1>2. CASE j # i
  <2>1. /\ ClientOK(j, n.cl[j], n.wire[j], j \in n.joined, p.inst, p.s.open)
        /\ BetsOK(j, n.cl[j], n.wire[j], n.got, p.bets)
    BY DEF ClientsOK
  <2>2. /\ m.cl[j] = n.cl[j] /\ m.wire[j] = n.wire[j] /\ m.got = n.got
        /\ (j \in m.joined) = (j \in n.joined)
    BY <1>2 DEF Touches
  <2>3. ClientOK(j, n.cl[j], n.wire[j], j \in n.joined, p.inst, q.s.open)
    BY <1>2, <2>1, OtherClient
  <2>4. n.wire[j] \in Seq(O!Command) /\ n.cl[j].queue \in Seq(O!Command)
    BY NetFields, ClientFields
  <2>5. BetsOK(j, n.cl[j], n.wire[j], n.got, q.bets)
    <3>1. /\ \A x \in 1 .. Len(n.got) : n.got[x][2] \in Nat
          /\ p.bets \in Nat /\ q.bets \in Nat
      BY GotIsNat, PageFields
    <3>. QED BY <2>1, <2>4, <3>1, BetsOfOthers
  <2>. QED BY <2>2, <2>3, <2>5
<1>. QED BY <1>1, <1>2

-----------------------------------------------------------------------------
(* The server's tables: the steps *)

\* The invariant of a server that differs from n only in what no client is about.
LEMMA ServerChanges ==
  ASSUME NEW n, NEW p, NEW k, OnlineOK(n, p, k), NEW m \in O!Net,
         m.cl = n.cl, m.wire = n.wire, m.joined = n.joined, m.got = n.got,
         ServerOK(m), Truthful(p, m)
  PROVE  OnlineOK(m, p, k)
<1>1. ClientsOK(m, p) /\ StatusOK(m, p)
  BY DEF OnlineOK, ClientsOK, StatusOK
<1>. QED BY <1>1 DEF OnlineOK

\* One client is touched; the page and the count go on to q and h.
LEMMA StepKeepsOnline ==
  ASSUME NEW n, NEW p, NEW k, OnlineOK(n, p, k), NEW i \in O!Clients,
         NEW c, NEW w, NEW joined, NEW m, Touches(m, n, i, c, w, joined),
         \A j \in O!Clients \ {i} : j \in joined <=> j \in n.joined,
         NEW q \in O!Page, q.inst = p.inst, p.bets <= q.bets,
         q.s.open = p.s.open \/ (i = p.inst /\ ~q.s.open),
         ClientOK(i, c, w, i \in joined, q.inst, q.s.open), BetsOK(i, c, w, n.got, q.bets),
         NEW h \in 0 .. MaxSteps, q.bets <= h, Truthful(q, n), StatusOK(m, q)
  PROVE  OnlineOK(m, q, h)
<1>1. ClientsOK(m, q)
  BY StepKeepsClients DEF OnlineOK
<1>2. m \in O!Net /\ GotAscends(m.got) /\ ServerOK(m) /\ Truthful(q, m)
  BY DEF OnlineOK, Touches, SameServer, ServerOK, Truthful
<1>3. q.s.open => q.inst \in O!Clients
  BY DEF OnlineOK
<1>. QED BY <1>1, <1>2, <1>3 DEF OnlineOK

\* The page hears events of the server, which touch no client.
LEMMA PageHears ==
  ASSUME NEW n, NEW p, NEW k, OnlineOK(n, p, k), NEW q \in PagesFrom(p, n)
  PROVE  OnlineOK(n, q, k)
<1>1. /\ q \in O!Page /\ Truthful(q, n) /\ q.inst = p.inst /\ q.bets = p.bets
      /\ q.status = p.status /\ q.s.open = p.s.open
  BY DEF PagesFrom
<1>2. ClientsOK(n, q) /\ StatusOK(n, q)
  BY <1>1 DEF OnlineOK, ClientsOK, StatusOK
<1>. QED BY <1>1, <1>2 DEF OnlineOK

LEMMA PageItself ==
  ASSUME NEW n, NEW p, NEW k, OnlineOK(n, p, k)
  PROVE  p \in PagesFrom(p, n) /\ n.level \in Nat
BY NetFields DEF OnlineOK, PagesFrom

LEMMA CountsMore ==
  ASSUME NEW n, NEW p, NEW k, OnlineOK(n, p, k), NEW h \in 0 .. MaxSteps, k <= h
  PROVE  OnlineOK(n, p, h)
<1>1. p.bets \in Nat /\ k \in Nat /\ h \in Nat /\ p.bets <= k
  BY PageFields, OnlineConstants DEF OnlineOK
<1>2. p.bets <= h
  BY <1>1
<1>. QED BY <1>2 DEF OnlineOK

\* The client that missed an event asks for a snapshot.
LEMMA ResyncsOnline ==
  ASSUME NEW n, NEW p, NEW k, OnlineOK(n, p, k), NEW i \in O!Clients,
         n.cl[i].ws = "open", i \in n.joined, NEW m,
         Touches(m, n, i, n.cl[i], O!Resync(n.wire[i]), n.joined)
  PROVE  OnlineOK(m, p, k)
<1>1. /\ n \in O!Net /\ p \in O!Page /\ p.inst \in Nat /\ p.bets \in Nat /\ i \in Nat
      /\ ClientOK(i, n.cl[i], n.wire[i], i \in n.joined, p.inst, p.s.open)
      /\ BetsOK(i, n.cl[i], n.wire[i], n.got, p.bets) /\ p.bets <= k
  BY PageFields, OnlineConstants DEF OnlineOK, ClientsOK
<1> DEFINE w == O!Resync(n.wire[i])
<1> HIDE DEF w
<1>2. /\ ClientOK(i, n.cl[i], w, i \in n.joined, p.inst, p.s.open)
      /\ BetsOK(i, n.cl[i], w, n.got, p.bets)
  BY <1>1, ClientResync DEF w
<1>3. \A j \in O!Clients : m.cl[j] = n.cl[j]
  BY DEF Touches
<1>4. StatusOK(m, p)
  <2>1. p.status \in {"open", "connecting", "reconnecting"} => p.inst \in O!Clients
    BY DEF OnlineOK, StatusOK
  <2>. QED BY <1>3, <2>1 DEF OnlineOK, StatusOK
<1>5. Touches(m, n, i, n.cl[i], w, n.joined)
  BY DEF w
<1>6. Truthful(p, n) /\ k \in 0 .. MaxSteps
  BY DEF OnlineOK
<1>. QED BY <1>1, <1>2, <1>4, <1>5, <1>6, StepKeepsOnline

\* What the server tells, all of it or up to a gap.
LEMMA TellsOnline ==
  ASSUME NEW n, OnlineOK(n, view, upsets), n.cl = core.cl, n.joined = core.joined,
         NEW e \in Seq(EventsOf(n)), NEW k \in Nat, O!Tell(k, n, e)
  PROVE  OnlineOK(core', view', upsets')
<1>1. /\ n \in O!Net /\ view \in O!Page /\ upsets \in Nat /\ upsets <= MaxSteps
      /\ view \in PagesFrom(view, n) /\ n.level \in Nat
  <2>1. n \in O!Net /\ view \in O!Page /\ upsets \in Nat /\ upsets <= MaxSteps
    BY OnlineConstants DEF OnlineOK
  <2>. QED BY <2>1, PageItself
<1>2. ASSUME NEW h \in Nat, O!Counts(h) PROVE upsets' \in 0 .. MaxSteps /\ upsets <= upsets'
  BY <1>1, <1>2, OnlineConstants DEF O!Counts
<1>3. ASSUME core' = n, view' = view, O!Counts(k) PROVE OnlineOK(core', view', upsets')
  BY <1>2, <1>3, CountsMore
<1>4. CASE ~\E i \in O!Clients : O!Hears(i)
  BY <1>3, <1>4 DEF O!Tell
<1>5. ASSUME NEW i \in O!Clients, O!Hears(i) PROVE OnlineOK(core', view', upsets')
  <2>1. i = view.inst /\ i \in n.joined /\ n.cl[i].ws = "open" /\ n.wire[i] \in Seq(O!Command)
    BY <1>1, <1>5, NetFields DEF O!Hears
  <2> DEFINE w == O!Resync(n.wire[i])
             m == [n EXCEPT !.wire[i] = w]
             l == [n EXCEPT !.gap = TRUE, !.wire[i] = w]
             g == [n EXCEPT !.gap = TRUE, !.wire[i] = n.wire[i]]
  <2>2. w \in Seq(O!Command)
    <3>1. O!Frame("resync") \in O!Command
      BY OnlineConstants DEF O!Frame, O!Command
    <3>. QED BY <2>1, <3>1, OneMore DEF O!Resync
  <2>3. /\ Touches(m, n, i, n.cl[i], w, n.joined) /\ Touches(l, n, i, n.cl[i], w, n.joined)
        /\ Touches(g, n, i, n.cl[i], n.wire[i], n.joined)
    <3> HIDE DEF w
    <3>1. n.joined \in SUBSET O!Clients
      BY <1>1, NetFields
    <3>. QED BY <1>1, <2>1, <2>2, <3>1, TouchesOnlyWire
  <2> HIDE DEF m, l, g
  <2>4. ASSUME NEW p, OnlineOK(n, p, upsets')
        PROVE  OnlineOK(m, p, upsets') /\ OnlineOK(l, p, upsets')
    BY <2>1, <2>3, <2>4, ResyncsOnline DEF w
  <2>5. ASSUME NEW p, OnlineOK(n, p, upsets') PROVE OnlineOK(g, p, upsets')
    <3>1. /\ g \in O!Net /\ SameServer(g, n) /\ g.got = n.got /\ g.joined = n.joined
          /\ \A j \in O!Clients : g.cl[j] = n.cl[j] /\ g.wire[j] = n.wire[j]
      BY <2>3 DEF Touches
    <3>2. g.cl = n.cl /\ g.wire = n.wire
      <4>1. /\ n.cl \in [O!Clients -> O!Client(O!Command)]
            /\ g.cl \in [O!Clients -> O!Client(O!Command)]
            /\ n.wire \in [O!Clients -> Seq(O!Command)] /\ g.wire \in [O!Clients -> Seq(O!Command)]
        BY <1>1, <3>1, NetFields
      <4> DEFINE a == n.cl
                 b == g.cl
                 v == n.wire
                 x == g.wire
      <4>2. /\ a \in [O!Clients -> O!Client(O!Command)] /\ b \in [O!Clients -> O!Client(O!Command)]
            /\ v \in [O!Clients -> Seq(O!Command)] /\ x \in [O!Clients -> Seq(O!Command)]
            /\ \A j \in O!Clients : b[j] = a[j] /\ x[j] = v[j]
        BY <3>1, <4>1
      <4> HIDE DEF a, b, v, x
      <4>3. a = b /\ v = x
        BY <4>2
      <4>. QED BY <4>3 DEF a, b, v, x
    <3>3. ServerOK(g) /\ Truthful(p, g)
      BY <2>5, <3>1 DEF OnlineOK, ServerOK, Truthful, SameServer
    <3>. QED BY <2>5, <3>1, <3>2, <3>3, ServerChanges
  <2>6. CASE core.gap
    <3>1. core' = m /\ view' = view /\ O!Counts(k)
      BY <1>4, <1>5, <2>1, <2>6 DEF O!Tell, m, w
    <3>2. OnlineOK(n, view, upsets')
      BY <1>2, <3>1, CountsMore
    <3>. QED BY <2>4, <3>1, <3>2
  <2>7. ASSUME NEW d, view' = O!FoldLeft(O!OnEvent, view, d), NEW x \in Nat, DOMAIN d = 1 .. x,
               \A j \in 1 .. x : d[j] \in EventsOf(n), NEW h \in Nat, O!Counts(h)
        PROVE  OnlineOK(n, view', upsets')
    <3>1. view' \in PagesFrom(view, n)
      BY <1>1, <2>7, EventsPage
    <3>2. OnlineOK(n, view, upsets')
      BY <1>2, <2>7, CountsMore
    <3>. QED BY <3>1, <3>2, PageHears
  <2>8. /\ Len(e) \in Nat /\ DOMAIN e = 1 .. Len(e)
        /\ \A j \in 1 .. Len(e) : e[j] \in EventsOf(n)
    BY LenProperties
  <2>9. CASE view' = O!FoldLeft(O!OnEvent, view, e) /\ core' = n /\ O!Counts(k)
    BY <2>7, <2>8, <2>9
  <2>10. ASSUME NEW j \in DOMAIN e, O!Counts(k + 1),
                view' = O!FoldLeft(O!OnEvent, view, SubSeq(e, 1, j - 1)),
                core' = IF j < Len(e) THEN l ELSE g
         PROVE  OnlineOK(core', view', upsets')
    <3> DEFINE d == SubSeq(e, 1, j - 1)
    <3>1. /\ DOMAIN d = 1 .. j - 1 /\ j - 1 \in Nat
          /\ \A x \in 1 .. j - 1 : d[x] \in EventsOf(n)
      <4>1. /\ j \in 1 .. Len(e) /\ j - 1 \in Nat
            /\ \A x \in 1 .. j - 1 : x \in 1 .. Len(e)
        BY <2>8
      <4>2. \A x \in 1 .. j - 1 : e[x] \in EventsOf(n)
        BY <2>8, <4>1
      <4> DEFINE T == EventsOf(n)
                 y == j - 1
      <4>3. 1 \in Int /\ y \in Nat /\ y \in Int /\ \A x \in 1 .. y : e[x] \in T
        BY <4>1, <4>2
      <4> HIDE DEF y, T
      <4>4. SubSeq(e, 1, y) \in Seq(T) /\ Len(SubSeq(e, 1, y)) = IF 1 <= y THEN y - 1 + 1 ELSE 0
        BY <4>3, SubSeqProperties
      <4>5. Len(SubSeq(e, 1, y)) = y
        BY <4>3, <4>4
      <4>6. DOMAIN SubSeq(e, 1, y) = 1 .. y /\ \A x \in 1 .. y : SubSeq(e, 1, y)[x] \in T
        BY <4>4, <4>5, LenProperties, ElementOfSeq
      <4>. QED BY <4>3, <4>6 DEF y, T
    <3> HIDE DEF d
    <3>2. view' = O!FoldLeft(O!OnEvent, view, d) /\ O!Counts(k + 1) /\ k + 1 \in Nat
      BY <2>10 DEF d
    <3>3. OnlineOK(n, view', upsets')
      BY <2>7, <3>1, <3>2
    <3>. QED BY <2>4, <2>5, <2>10, <3>3
  <2>11. CASE ~core.gap
    <3>1. \/ view' = O!FoldLeft(O!OnEvent, view, e) /\ core' = n /\ O!Counts(k)
          \/ \E j \in DOMAIN e : /\ O!Counts(k + 1)
               /\ view' = O!FoldLeft(O!OnEvent, view, SubSeq(e, 1, j - 1))
               /\ core' = [n EXCEPT !.gap = TRUE,
                            !.wire[view.inst] = IF j < Len(e) THEN O!Resync(@) ELSE @]
      BY <1>5, <2>11 DEF O!Tell
    <3>2. ASSUME NEW j, core' = [n EXCEPT !.gap = TRUE,
                            !.wire[view.inst] = IF j < Len(e) THEN O!Resync(@) ELSE @]
          PROVE  core' = IF j < Len(e) THEN l ELSE g
      BY <2>1, <3>2 DEF l, g, w
    <3>. QED BY <2>9, <2>10, <3>1, <3>2
  <2>. QED BY <2>6, <2>11
<1>. QED BY <1>4, <1>5

LEMMA AnswersOnline ==
  ASSUME NEW n, OnlineOK(n, view, upsets), n.cl = core.cl, NEW i \in O!Clients,
         NEW e \in EventsOf(n), O!Answer(n, i, e)
  PROVE  OnlineOK(core', view', upsets')
<1>1. /\ n \in O!Net /\ view \in PagesFrom(view, n) /\ n.level \in Nat /\ upsets' = upsets
      /\ core' = n \/ core' = [n EXCEPT !.gap = FALSE]
      /\ view' = view \/ view' = O!OnEvent(view, e)
  BY PageItself DEF OnlineOK, O!Answer
<1>2. view' \in PagesFrom(view, n)
  BY <1>1, OnEventPage
<1>3. OnlineOK(n, view', upsets')
  BY <1>1, <1>2, PageHears
<1>4. CASE core' = [n EXCEPT !.gap = FALSE]
  <2> DEFINE m == [n EXCEPT !.gap = FALSE]
  <2>1. m \in O!Net
    BY <1>1 DEF O!Net
  <2>2. /\ m.cl = n.cl /\ m.wire = n.wire /\ m.joined = n.joined /\ m.got = n.got
        /\ SameServer(m, n)
    BY <1>1 DEF O!Net, SameServer
  <2> HIDE DEF m
  <2>3. ServerOK(m) /\ Truthful(view', m)
    BY <1>3, <2>2 DEF OnlineOK, ServerOK, Truthful, SameServer
  <2>4. OnlineOK(m, view', upsets')
    BY <1>3, <2>1, <2>2, <2>3, ServerChanges
  <2>. QED BY <1>4, <2>4 DEF m
<1>. QED BY <1>1, <1>3, <1>4

\* The events of the server.
LEMMA BetsFit ==
  ASSUME NEW n, NEW seat \in {0, 1}, NEW turn \in O!G!SeatOrNone
  PROVE  O!BetPlaced(seat, turn) \in EventsOf(n)
<1>1. O!BetPlaced(seat, turn) \in O!G!BetPlaced
  BY OnlineConstants DEF O!BetPlaced, O!G!BetPlaced
<1>2. O!BetPlaced(seat, turn).type = "bet_placed"
  BY DEF O!BetPlaced
<1>. QED BY <1>1, <1>2 DEF EventsOf, OnlineEvents, Fits

LEMMA SeatsFit ==
  ASSUME NEW n
  PROVE  O!SeatUpdate \in EventsOf(n)
<1>1. O!SeatUpdate \in O!G!SeatUpdate /\ O!SeatUpdate.type = "seat_update"
  BY DEF O!SeatUpdate, O!G!SeatUpdate
<1>. QED BY <1>1 DEF EventsOf, OnlineEvents, Fits

LEMMA SnapshotFits ==
  ASSUME NEW n, core.myTurn \in BOOLEAN, core.seated \in BOOLEAN, core.over \in BOOLEAN
  PROVE  O!Snapshot \in EventsOf(n)
<1>1. /\ O!Snapshot \in O!G!TableSnapshot /\ O!Snapshot.type = "table_snapshot"
      /\ O!Snapshot.mine \in {O!MySeat, O!G!None}
  BY OnlineConstants DEF O!Snapshot, O!G!TableSnapshot, O!G!SeatOrNone, O!G!Street
<1>. QED BY <1>1 DEF EventsOf, OnlineEvents, Fits

LEMMA ErrorsFit ==
  ASSUME NEW n, NEW code \in {"brief", "fatal"}
  PROVE  O!Error(code) \in EventsOf(n)
<1>1. O!Error(code) \in O!G!ErrorEvent /\ O!Error(code).type = "error"
  BY DEF O!Error, O!G!ErrorEvent
<1>. QED BY <1>1 DEF EventsOf, OnlineEvents, Fits

LEMMA TurnSeats == O!MySeat \in O!G!SeatOrNone /\ O!G!None \in O!G!SeatOrNone
BY OnlineConstants DEF O!G!SeatOrNone

LEMMA TurnComesOnline ==
  ASSUME OnlineOK(core, view, upsets), O!TurnComes
  PROVE  OnlineOK(core', view', upsets')
<1> DEFINE n == [core EXCEPT !.myTurn = TRUE]
           e == <<O!BetPlaced(1, O!MySeat)>>
<1>1. core \in O!Net /\ O!Tell(0, n, e)
  BY DEF O!TurnComes, OnlineOK
<1>2. n \in O!Net
  BY <1>1 DEF O!Net
<1>3. /\ n.cl = core.cl /\ n.wire = core.wire /\ n.joined = core.joined /\ n.got = core.got
      /\ n.place = core.place /\ n.over = core.over /\ n.level = core.level
      /\ n.seated = core.seated /\ n.left = core.left
  BY <1>1 DEF O!Net
<1> HIDE DEF n
<1>4. ServerOK(n) /\ Truthful(view, n)
  BY <1>3 DEF OnlineOK, ServerOK, Truthful
<1>5. OnlineOK(n, view, upsets)
  BY <1>2, <1>3, <1>4, ServerChanges
<1>6. e \in Seq(EventsOf(n))
  BY BetsFit, TurnSeats
<1> HIDE DEF e
<1>. QED BY <1>1, <1>3, <1>5, <1>6, TellsOnline

LEMMA TurnTimesOutOnline ==
  ASSUME OnlineOK(core, view, upsets), O!TurnTimesOut
  PROVE  OnlineOK(core', view', upsets')
<1> DEFINE n == [core EXCEPT !.myTurn = FALSE]
           e == <<O!BetPlaced(O!MySeat, O!G!None)>>
<1>1. core \in O!Net /\ O!Tell(0, n, e)
  BY DEF O!TurnTimesOut, OnlineOK
<1>2. n \in O!Net
  BY <1>1 DEF O!Net
<1>3. /\ n.cl = core.cl /\ n.wire = core.wire /\ n.joined = core.joined /\ n.got = core.got
      /\ n.place = core.place /\ n.over = core.over /\ n.level = core.level
      /\ n.seated = core.seated /\ n.left = core.left
  BY <1>1 DEF O!Net
<1> HIDE DEF n
<1>4. ServerOK(n) /\ Truthful(view, n)
  BY <1>3 DEF OnlineOK, ServerOK, Truthful
<1>5. OnlineOK(n, view, upsets)
  BY <1>2, <1>3, <1>4, ServerChanges
<1>6. e \in Seq(EventsOf(n))
  BY BetsFit, TurnSeats, OnlineConstants
<1> HIDE DEF e
<1>. QED BY <1>1, <1>3, <1>5, <1>6, TellsOnline

\* What a hand that ended tells.
LEMMA EndsFit ==
  ASSUME NEW n, NEW a \in BOOLEAN, NEW b \in BOOLEAN, NEW d \in BOOLEAN, NEW seat \in O!Seat,
         NEW place \in Nat \ {0},
         a => 1 <= n.level, b /\ seat = O!MySeat => place = n.place, d => n.over
  PROVE  (IF a THEN <<[type |-> "blinds_up", level |-> 1]>> ELSE <<>>)
         \o (IF b THEN <<[type |-> "elimination", seat |-> seat, place |-> place], O!SeatUpdate>>
             ELSE <<>>)
         \o (IF d THEN <<[type |-> "tourney_result"]>> ELSE <<>>) \in Seq(EventsOf(n))
<1> DEFINE T == EventsOf(n)
           x == [type |-> "blinds_up", level |-> 1]
           y == [type |-> "elimination", seat |-> seat, place |-> place]
           z == [type |-> "tourney_result"]
           u == O!SeatUpdate
<1>1. a => x \in T
  BY DEF EventsOf, OnlineEvents, Fits, O!G!BlindsUp
<1>2. b => y \in T
  BY DEF EventsOf, OnlineEvents, Fits, O!G!Elimination
<1>3. d => z \in T
  BY DEF EventsOf, OnlineEvents, Fits, O!G!TourneyResult
<1>4. u \in T
  BY SeatsFit
<1> HIDE DEF T, x, y, z, u
<1> DEFINE f == IF a THEN <<x>> ELSE <<>>
           g == IF b THEN <<y, u>> ELSE <<>>
           h == IF d THEN <<z>> ELSE <<>>
<1>5. f \in Seq(T) /\ g \in Seq(T) /\ h \in Seq(T)
  BY <1>1, <1>2, <1>3, <1>4, EmptySeq
<1> HIDE DEF f, g, h
<1>6. f \o g \o h \in Seq(T)
  BY <1>5, ConcatProperties
<1>. QED BY <1>6 DEF f, g, h, x, y, z, u, T

LEMMA HandEndsOnline ==
  ASSUME OnlineOK(core, view, upsets), NEW up \in BOOLEAN, NEW who \in O!Outs,
         O!HandEnds(up, who)
  PROVE  OnlineOK(core', view', upsets')
<1> DEFINE left == IF who = "nobody" THEN core.left ELSE core.left - 1
           done == left <= 1
           seat == IF who = "me" THEN O!MySeat ELSE O!LastOpponent
           lev == IF up THEN 1 ELSE core.level
           seated == core.seated /\ who # "me"
           place == IF who = "me" THEN core.left ELSE core.place
           n == [core EXCEPT !.myTurn = FALSE, !.left = left, !.over = done,
                             !.level = lev, !.seated = seated, !.place = place]
           told == [type |-> "elimination", seat |-> seat, place |-> core.left]
           e == (IF up THEN <<[type |-> "blinds_up", level |-> 1]>> ELSE <<>>)
                \o (IF who # "nobody" THEN <<told, O!SeatUpdate>> ELSE <<>>)
                \o (IF done THEN <<[type |-> "tourney_result"]>> ELSE <<>>)
<1>1. /\ core \in O!Net /\ ~core.over /\ ServerOK(core) /\ Truthful(view, core)
      /\ view \in O!Page
      /\ up => core.level = 0
      /\ who = "me" => core.seated
      /\ who = "other" => O!LastOpponent >= 1
      /\ who # "nobody" => core.left > 1
      /\ who \in {"nobody", "me", "other"}
  BY DEF O!HandEnds, OnlineOK, O!Outs
<1>2. O!Tell(1, n, e)
  <2>1. core.level = core.level /\ n = [core EXCEPT !.myTurn = FALSE, !.left = left, !.over = done,
                 !.level  = IF up THEN 1 ELSE @,
                 !.seated = @ /\ who # "me",
                 !.place  = IF who = "me" THEN core.left ELSE @]
    OBVIOUS
  <2>. QED BY <2>1 DEF O!HandEnds
<1>3. /\ core.left \in Nat /\ 1 <= core.left /\ core.left <= Opponents + 1
      /\ core.level \in 0 .. 1 /\ core.seated \in BOOLEAN
      /\ core.place \in 0 .. Opponents + 1 /\ Opponents \in Nat
  BY <1>1, NetFields, OnlineConstants
<1>4. /\ left \in 1 .. Opponents + 1 /\ done \in BOOLEAN /\ lev \in 0 .. 1
      /\ seated \in BOOLEAN /\ place \in 0 .. Opponents + 1
  BY <1>1, <1>3
<1>5. /\ seat \in O!Seat /\ (who # "nobody" /\ seat = O!MySeat => who = "me")
  <2>1. core.seated => O!LastOpponent = core.left - 1
    BY DEF O!LastOpponent
  <2>2. ~core.seated => O!LastOpponent = core.left /\ core.left <= Opponents
    BY <1>1 DEF O!LastOpponent, ServerOK
  <2>3. O!LastOpponent \in 0 .. Opponents
    BY <1>3, <2>1, <2>2
  <2>. QED BY <1>1, <2>3, OnlineConstants
<1> HIDE DEF left, done, seat, lev, seated, place
<1>6. n \in O!Net
  BY <1>1, <1>4 DEF O!Net
<1>7. /\ n.cl = core.cl /\ n.wire = core.wire /\ n.joined = core.joined /\ n.got = core.got
  BY <1>1 DEF O!Net
<1>8. /\ n.place = place /\ n.over = done /\ n.level = lev /\ n.seated = seated /\ n.left = left
  BY <1>1 DEF O!Net
<1> HIDE DEF n
<1>9. ServerOK(n)
  <2>1. n.seated => n.place = 0
    BY <1>1, <1>8 DEF ServerOK, seated, place
  <2>2. ~done => IF seated THEN left >= 2 ELSE left <= Opponents
    BY <1>1, <1>3 DEF ServerOK, seated, left, done
  <2>. QED BY <1>8, <2>1, <2>2 DEF ServerOK
<1>10. Truthful(view, n)
  <2>1. view.t.place # 0 => view.t.place = n.place
    BY <1>1, <1>8 DEF Truthful, ServerOK, place
  <2>2. view.t.level \in Nat
    BY <1>1, PageFields DEF O!Tourney
  <2>3. view.t.level <= n.level
    BY <1>1, <1>3, <1>8, <2>2 DEF Truthful, lev
  <2>4. ~view.t.result
    BY <1>1 DEF Truthful
  <2>5. view.s.mine \in {O!MySeat, O!G!None} /\ (view.s.timer => view.s.open)
    BY <1>1 DEF Truthful
  <2>. QED BY <2>1, <2>3, <2>4, <2>5 DEF Truthful
<1>11. OnlineOK(n, view, upsets)
  BY <1>6, <1>7, <1>9, <1>10, ServerChanges
<1>12. e \in Seq(EventsOf(n))
  <2>1. up => 1 <= n.level
    BY <1>8 DEF lev
  <2>2. who # "nobody" /\ seat = O!MySeat => core.left = n.place
    BY <1>5, <1>8 DEF place
  <2>3. done => n.over
    BY <1>8
  <2>4. core.left \in Nat \ {0} /\ (who # "nobody") \in BOOLEAN
    BY <1>3
  <2>. QED BY <1>4, <1>5, <2>1, <2>2, <2>3, <2>4, EndsFit
<1> HIDE DEF e
<1>. QED BY <1>2, <1>7, <1>11, <1>12, TellsOnline

-----------------------------------------------------------------------------
(* The server's tables: what the server reads *)

\* A command is taken off the wire of client i.
LEMMA TakenOff ==
  ASSUME OnlineOK(core, view, upsets), NEW i \in O!Clients, core.wire[i] # <<>>,
         NEW joined \in SUBSET O!Clients,
         \A j \in O!Clients \ {i} : j \in joined <=> j \in core.joined,
         ClientOK(i, core.cl[i], Tail(core.wire[i]), i \in joined, view.inst, view.s.open),
         NEW m, Touches(m, core, i, core.cl[i], Tail(core.wire[i]), joined)
  PROVE  OnlineOK(m, view, upsets)
<1>1. /\ core \in O!Net /\ view \in O!Page /\ view.bets \in Nat /\ i \in Nat
      /\ core.wire[i] \in Seq(O!Command)
      /\ BetsOK(i, core.cl[i], core.wire[i], core.got, view.bets)
      /\ view.bets <= upsets /\ upsets \in 0 .. MaxSteps /\ Truthful(view, core)
  BY PageFields, NetFields, OnlineConstants DEF OnlineOK, ClientsOK
<1> DEFINE w == Tail(core.wire[i])
<1>2. BetsOK(i, core.cl[i], w, core.got, view.bets)
  BY <1>1, AscendsTail DEF BetsOK
<1> HIDE DEF w
<1>3. StatusOK(m, view)
  <2>1. \A j \in O!Clients : m.cl[j] = core.cl[j]
    BY DEF Touches
  <2>2. view.status \in {"open", "connecting", "reconnecting"} => view.inst \in O!Clients
    BY DEF OnlineOK, StatusOK
  <2>. QED BY <2>1, <2>2 DEF OnlineOK, StatusOK
<1>4. /\ Touches(m, core, i, core.cl[i], w, joined)
      /\ ClientOK(i, core.cl[i], w, i \in joined, view.inst, view.s.open)
  BY DEF w
<1>. QED BY <1>1, <1>2, <1>3, <1>4, StepKeepsOnline

\* A bet x of client i is read, which all that it has still to send are after.
LEMMA BetIsRead ==
  ASSUME NEW n, NEW p, NEW k, OnlineOK(n, p, k), NEW i \in O!Clients, NEW x \in 1 .. MaxSteps,
         x <= p.bets, Above(n.wire[i], x), ~n.cl[i].done => Above(n.cl[i].queue, x),
         \A j \in 1 .. Len(n.got) : n.got[j][1] = i => n.got[j][2] < x,
         NEW m \in O!Net, m.cl = n.cl, m.wire = n.wire, m.joined = n.joined, SameServer(m, n),
         m.got = Append(n.got, <<i, x>>)
  PROVE  OnlineOK(m, p, k)
<1>1. /\ n \in O!Net /\ p \in O!Page /\ ClientsOK(n, p) /\ GotAscends(n.got)
      /\ ServerOK(n) /\ Truthful(p, n) /\ StatusOK(n, p)
  BY DEF OnlineOK
<1> DEFINE got == n.got
           y == <<i, x>>
<1>2. got \in Seq(O!Clients \X (1 .. MaxSteps)) /\ y \in O!Clients \X (1 .. MaxSteps)
  BY <1>1, NetFields
<1>3. Len(got) \in Nat /\ y[1] = i /\ y[2] = x
  BY <1>2
<1> HIDE DEF got, y
<1> DEFINE more == Append(got, y)
<1>4. /\ Len(more) = Len(got) + 1
      /\ \A j \in 1 .. Len(more) : \/ j \in 1 .. Len(got) /\ more[j] = got[j]
                                   \/ j = Len(got) + 1 /\ more[j] = y
  BY <1>2, OneMore
<1> HIDE DEF more
<1>5. m.got = more
  BY DEF more, got, y
<1>6. GotAscends(more)
  <2> SUFFICES ASSUME NEW a \in 1 .. Len(more), NEW b \in 1 .. Len(more), a < b,
                      more[a][1] = more[b][1]
               PROVE  more[a][2] < more[b][2]
    BY DEF GotAscends
  <2>1. a \in 1 .. Len(got) /\ more[a] = got[a]
    BY <1>3, <1>4
  <2>2. CASE b \in 1 .. Len(got) /\ more[b] = got[b]
    BY <1>1, <2>1, <2>2 DEF GotAscends, got
  <2>3. CASE more[b] = y
    BY <1>3, <2>1, <2>3 DEF got
  <2>. QED BY <1>4, <2>2, <2>3
<1>7. ClientsOK(m, p)
  <2> SUFFICES ASSUME NEW j \in O!Clients
               PROVE  /\ ClientOK(j, n.cl[j], n.wire[j], j \in n.joined, p.inst, p.s.open)
                      /\ BetsOK(j, n.cl[j], n.wire[j], more, p.bets)
    BY <1>5 DEF ClientsOK
  <2>1. /\ ClientOK(j, n.cl[j], n.wire[j], j \in n.joined, p.inst, p.s.open)
        /\ BetsOK(j, n.cl[j], n.wire[j], got, p.bets)
    BY <1>1 DEF ClientsOK, got
  <2>2. ASSUME NEW a \in 1 .. Len(more), more[a][1] = j
        PROVE  /\ more[a][2] <= p.bets /\ Above(n.wire[j], more[a][2])
               /\ ~n.cl[j].done => Above(n.cl[j].queue, more[a][2])
    <3>1. CASE a \in 1 .. Len(got) /\ more[a] = got[a]
      BY <2>1, <2>2, <3>1 DEF BetsOK
    <3>2. CASE more[a] = y
      BY <1>3, <2>2, <3>2
    <3>. QED BY <1>4, <3>1, <3>2
  <2>. QED BY <2>1, <2>2 DEF BetsOK
<1>8. ServerOK(m) /\ Truthful(p, m) /\ StatusOK(m, p)
  BY <1>1 DEF ServerOK, Truthful, StatusOK, SameServer
<1>. QED BY <1>5, <1>6, <1>7, <1>8 DEF OnlineOK

LEMMA ReadsOnline ==
  ASSUME OnlineOK(core, view, upsets), NEW i \in O!Clients, O!Read(i)
  PROVE  OnlineOK(core', view', upsets')
<1> DEFINE w == core.wire[i]
           v == Tail(w)
           cmd == Head(w)
           rest == [core EXCEPT !.wire[i] = v]
           bet == [rest EXCEPT !.got = Append(@, <<i, cmd.n>>)]
<1>1. /\ core \in O!Net /\ view \in O!Page /\ view.bets \in Nat /\ view.inst \in Nat /\ i \in Nat
      /\ w # <<>> /\ w \in Seq(O!Command)
      /\ ClientOK(i, core.cl[i], w, i \in core.joined, view.inst, view.s.open)
      /\ BetsOK(i, core.cl[i], w, core.got, view.bets)
      /\ core.joined \in SUBSET O!Clients
  <2>1. core \in O!Net /\ view \in O!Page /\ ClientsOK(core, view)
    BY DEF OnlineOK
  <2>2. view.bets \in Nat /\ view.inst \in Nat
    BY ONLY <2>1, PageFields
  <2>3. core.wire \in [O!Clients -> Seq(O!Command)] /\ core.joined \in SUBSET O!Clients
    BY ONLY <2>1, NetFields
  <2>4. i \in Nat /\ w # <<>> /\ w \in Seq(O!Command)
    BY <2>3, OnlineConstants DEF O!Read
  <2>5. /\ ClientOK(i, core.cl[i], w, i \in core.joined, view.inst, view.s.open)
        /\ BetsOK(i, core.cl[i], w, core.got, view.bets)
    BY <2>1 DEF ClientsOK
  <2>. QED BY <2>1, <2>2, <2>3, <2>4, <2>5
<1>2. /\ cmd \in O!Command /\ cmd = w[1] /\ v \in Seq(O!Command)
      /\ cmd.kind = "hello" => ClientOK(i, core.cl[i], v, TRUE, view.inst, view.s.open)
      /\ cmd.kind \in {"resync", "bet"} =>
           /\ i \in core.joined
           /\ ClientOK(i, core.cl[i], v, i \in core.joined, view.inst, view.s.open)
      /\ cmd.kind = "leave" => ClientOK(i, core.cl[i], v, FALSE, view.inst, view.s.open)
  BY <1>1, ClientRead
<1>3. core.myTurn \in BOOLEAN /\ core.seated \in BOOLEAN /\ core.over \in BOOLEAN
      /\ cmd.kind \in {"hello", "resync", "leave", "bet"} /\ cmd.n \in 0 .. MaxSteps
  BY <1>1, <1>2, NetFields DEF O!Command
<1>4. /\ Touches(rest, core, i, core.cl[i], v, core.joined)
      /\ Touches([rest EXCEPT !.joined = core.joined \cup {i}], core, i, core.cl[i], v,
                 core.joined \cup {i})
      /\ Touches([rest EXCEPT !.joined = core.joined \ {i}], core, i, core.cl[i], v,
                 core.joined \ {i})
  <2>1. core.joined \cup {i} \in SUBSET O!Clients /\ core.joined \ {i} \in SUBSET O!Clients
    BY <1>1
  <2> HIDE DEF v
  <2>. QED BY <1>1, <1>2, <2>1, TouchesOnlyWire
<1>5. /\ rest \in O!Net /\ rest.cl = core.cl /\ rest.joined = core.joined
      /\ rest.got = core.got /\ SameServer(rest, core) /\ rest.wire[i] = v
  <2> HIDE DEF v
  <2>1. /\ rest \in O!Net /\ rest.cl = core.cl /\ rest.joined = core.joined
        /\ rest.got = core.got /\ SameServer(rest, core)
        /\ rest.wire = [core.wire EXCEPT ![i] = v]
    BY <1>1, <1>2 DEF O!Net, SameServer
  <2>. QED BY <1>1, <2>1, NetFields
<1>6. O!Read(i) =>
      CASE cmd.kind = "hello"  -> O!Answer([rest EXCEPT !.joined = @ \cup {i}], i, O!Snapshot)
           [] cmd.kind = "resync" -> O!Answer(rest, i, O!Snapshot)
           [] cmd.kind = "leave"  ->
                /\ core' = [rest EXCEPT !.joined = @ \ {i}, !.seated = FALSE, !.myTurn = FALSE,
                             !.left = IF core.seated /\ ~core.over THEN @ - 1 ELSE @]
                /\ UNCHANGED <<view, upsets>>
           [] cmd.kind = "bet" /\ core.myTurn ->
                O!Tell(0, [bet EXCEPT !.myTurn = FALSE], <<O!BetPlaced(O!MySeat, O!G!None)>>)
           [] OTHER -> O!Answer(bet, i, O!Error("brief"))
  BY DEF O!Read
<1> HIDE DEF w, v, cmd, rest
<1>7. CASE cmd.kind = "hello"
  <2> DEFINE n == [rest EXCEPT !.joined = core.joined \cup {i}]
  <2>1. O!Answer(n, i, O!Snapshot)
    BY <1>5, <1>6, <1>7
  <2>2. Touches(n, core, i, core.cl[i], v, core.joined \cup {i}) /\ n.cl = core.cl
    BY <1>4, <1>5 DEF O!Net
  <2> HIDE DEF n
  <2> DEFINE joined == core.joined \cup {i}
  <2>3. /\ joined \in SUBSET O!Clients /\ i \in joined
        /\ \A j \in O!Clients \ {i} : j \in joined <=> j \in core.joined
    BY <1>1
  <2>4. Touches(n, core, i, core.cl[i], v, joined)
    BY <2>2
  <2>5. ClientOK(i, core.cl[i], v, i \in joined, view.inst, view.s.open)
    <3>1. (i \in joined) = TRUE
      BY <2>3
    <3>. QED BY <1>2, <1>7, <3>1
  <2> HIDE DEF joined
  <2>6. OnlineOK(n, view, upsets)
    BY <1>1, <2>3, <2>4, <2>5, TakenOff DEF v, w
  <2>. QED BY <1>3, <2>1, <2>2, <2>6, SnapshotFits, AnswersOnline
<1>8. cmd.kind \in {"resync", "bet"} => OnlineOK(rest, view, upsets)
  BY <1>1, <1>2, <1>4, TakenOff DEF v, w
<1>9. CASE cmd.kind = "resync"
  <2>1. O!Answer(rest, i, O!Snapshot)
    BY <1>6, <1>9
  <2>. QED BY <1>3, <1>5, <1>8, <1>9, <2>1, SnapshotFits, AnswersOnline
<1>10. CASE cmd.kind = "leave"
  <2> DEFINE joined == core.joined \ {i}
             gone == [rest EXCEPT !.joined = joined]
             left == IF core.seated /\ ~core.over THEN core.left - 1 ELSE core.left
             n == [gone EXCEPT !.seated = FALSE, !.myTurn = FALSE, !.left = left]
  <2>1. /\ joined \in SUBSET O!Clients /\ i \notin joined
        /\ \A j \in O!Clients \ {i} : j \in joined <=> j \in core.joined
    BY <1>1
  <2>2. Touches(gone, core, i, core.cl[i], v, joined)
    BY <1>4
  <2>3. ClientOK(i, core.cl[i], v, i \in joined, view.inst, view.s.open)
    <3>1. (i \in joined) = FALSE
      BY <2>1
    <3>. QED BY <1>2, <1>10, <3>1
  <2>4. core' = n /\ view' = view /\ upsets' = upsets
    <3>1. rest.left = core.left
      BY <1>5 DEF SameServer
    <3>. QED BY <1>5, <1>6, <1>10, <3>1 DEF O!Net
  <2> HIDE DEF joined
  <2>5. gone \in O!Net /\ SameServer(gone, core)
    BY <2>2 DEF Touches
  <2> HIDE DEF gone
  <2>6. OnlineOK(gone, view, upsets)
    BY <1>1, <2>1, <2>2, <2>3, TakenOff DEF v, w
  <2>7. core.over \/ (left \in 1 .. Opponents + 1 /\ left <= Opponents)
    <3>1. core.left \in 1 .. Opponents + 1 /\ ServerOK(core) /\ Opponents \in Nat
      BY <1>1, NetFields, OnlineConstants DEF OnlineOK
    <3>. QED BY <3>1 DEF ServerOK
  <2>8. left \in 1 .. Opponents + 1
    <3>1. core.left \in 1 .. Opponents + 1
      BY <1>1, NetFields
    <3>. QED BY <2>7, <3>1
  <2> HIDE DEF left
  <2>9. n \in O!Net
    BY <2>5, <2>8 DEF O!Net
  <2>10. /\ n.cl = gone.cl /\ n.wire = gone.wire /\ n.joined = gone.joined /\ n.got = gone.got
         /\ n.seated = FALSE /\ n.left = left
         /\ n.place = gone.place /\ n.over = gone.over /\ n.level = gone.level
    BY <2>5 DEF O!Net
  <2> HIDE DEF n
  <2>11. ServerOK(n) /\ Truthful(view, n)
    BY <2>5, <2>6, <2>7, <2>10 DEF OnlineOK, ServerOK, Truthful, SameServer
  <2>. QED BY <2>4, <2>6, <2>9, <2>10, <2>11, ServerChanges
<1>11. CASE cmd.kind = "bet"
  <2>1. /\ Above(v, cmd.n) /\ cmd.n <= view.bets /\ 1 <= cmd.n
        /\ \A j \in 1 .. Len(core.got) : core.got[j][1] = i => core.got[j][2] < cmd.n
        /\ ~core.cl[i].done => Above(core.cl[i].queue, cmd.n)
    <3>1. Above(v, cmd.n) /\ cmd.n <= view.bets /\ 1 <= cmd.n
      BY <1>1, <1>2, <1>11, AscendsTail DEF BetsOK, v
    <3>2. 1 \in 1 .. Len(w)
      BY <1>1
    <3>3. \A j \in 1 .. Len(core.got) : core.got[j][1] = i => core.got[j][2] < cmd.n
      BY <1>1, <1>2, <1>11, <3>2 DEF BetsOK, Above
    <3>4. ~core.cl[i].done => core.cl[i].queue = <<>>
      BY <1>1 DEF ClientOK
    <3>. QED BY <3>1, <3>3, <3>4, AscendsEmpty
  <2>2. cmd.n \in 1 .. MaxSteps
    BY <1>3, <2>1
  <2>3. Append(rest.got, <<i, cmd.n>>) \in Seq(O!Clients \X (1 .. MaxSteps))
    <3>1. rest.got \in Seq(O!Clients \X (1 .. MaxSteps))
      BY <1>5, NetFields
    <3>2. <<i, cmd.n>> \in O!Clients \X (1 .. MaxSteps)
      BY <2>2
    <3>. QED BY <3>1, <3>2
  <2>4. /\ bet \in O!Net /\ bet.cl = rest.cl /\ bet.wire = rest.wire /\ bet.joined = rest.joined
        /\ SameServer(bet, rest) /\ bet.got = Append(rest.got, <<i, cmd.n>>)
    BY <1>5, <2>3 DEF O!Net, SameServer
  <2> HIDE DEF bet
  <2>5. OnlineOK(bet, view, upsets)
    <3>1. /\ OnlineOK(rest, view, upsets) /\ Above(rest.wire[i], cmd.n)
          /\ ~rest.cl[i].done => Above(rest.cl[i].queue, cmd.n)
          /\ \A j \in 1 .. Len(rest.got) : rest.got[j][1] = i => rest.got[j][2] < cmd.n
      BY <1>5, <1>8, <1>11, <2>1
    <3>. QED BY <2>1, <2>2, <2>4, <3>1, BetIsRead
  <2>6. CASE core.myTurn
    <3> DEFINE n == [bet EXCEPT !.myTurn = FALSE]
               e == <<O!BetPlaced(O!MySeat, O!G!None)>>
    <3>1. O!Tell(0, n, e)
      BY <1>6, <1>11, <2>6 DEF bet
    <3>2. n \in O!Net
      BY <2>4 DEF O!Net
    <3>3. /\ n.cl = bet.cl /\ n.wire = bet.wire /\ n.joined = bet.joined /\ n.got = bet.got
          /\ n.place = bet.place /\ n.over = bet.over /\ n.level = bet.level
          /\ n.seated = bet.seated /\ n.left = bet.left
      BY <2>4 DEF O!Net
    <3> HIDE DEF n
    <3>4. ServerOK(n) /\ Truthful(view, n)
      BY <2>5, <3>3 DEF OnlineOK, ServerOK, Truthful
    <3>5. OnlineOK(n, view, upsets)
      BY <2>5, <3>2, <3>3, <3>4, ServerChanges
    <3>6. e \in Seq(EventsOf(n))
      BY BetsFit, TurnSeats, OnlineConstants
    <3> HIDE DEF e
    <3>. QED BY <1>5, <2>4, <3>1, <3>3, <3>5, <3>6, TellsOnline
  <2>7. CASE ~core.myTurn
    <3>1. O!Answer(bet, i, O!Error("brief"))
      BY <1>6, <1>11, <2>7 DEF bet
    <3>. QED BY <1>5, <2>4, <2>5, <3>1, ErrorsFit, AnswersOnline
  <2>. QED BY <2>6, <2>7
<1>. QED BY <1>3, <1>7, <1>9, <1>10, <1>11

-----------------------------------------------------------------------------
(* The server's tables: the network *)

LEMMA OneClient ==
  ASSUME NEW n, NEW p, NEW k, OnlineOK(n, p, k), NEW i \in O!Clients
  PROVE  /\ n \in O!Net /\ p \in O!Page /\ i \in Nat /\ p.inst \in Nat /\ p.bets \in Nat
         /\ k \in 0 .. MaxSteps /\ p.bets <= k /\ p.s.open \in BOOLEAN /\ p.status \in O!Status
         /\ n.cl[i] \in O!Client(O!Command) /\ n.wire[i] \in Seq(O!Command)
         /\ n.joined \in SUBSET O!Clients
         /\ \A m \in 1 .. Len(n.got) : n.got[m][2] \in Nat
         /\ ClientOK(i, n.cl[i], n.wire[i], i \in n.joined, p.inst, p.s.open)
         /\ BetsOK(i, n.cl[i], n.wire[i], n.got, p.bets)
         /\ Truthful(p, n) /\ StatusOK(n, p)
<1>1. /\ n \in O!Net /\ p \in O!Page /\ ClientsOK(n, p) /\ k \in 0 .. MaxSteps /\ p.bets <= k
      /\ Truthful(p, n) /\ StatusOK(n, p)
  BY DEF OnlineOK
<1>2. /\ p.inst \in Nat /\ p.bets \in Nat /\ p.s.open \in BOOLEAN /\ p.status \in O!Status
  BY <1>1, PageFields
<1>3. /\ n.cl[i] \in O!Client(O!Command) /\ n.wire[i] \in Seq(O!Command)
      /\ n.joined \in SUBSET O!Clients
  BY <1>1, NetFields
<1>4. \A m \in 1 .. Len(n.got) : n.got[m][2] \in Nat
  BY <1>1, GotIsNat
<1>5. i \in Nat
  BY OnlineConstants
<1>. QED BY <1>1, <1>2, <1>3, <1>4, <1>5 DEF ClientsOK

LEMMA StatusShown ==
  ASSUME NEW p \in O!Page, NEW status \in O!Status
  PROVE  LET q == [p EXCEPT !.status = status]
         IN  /\ q \in O!Page /\ q.s = p.s /\ q.t = p.t /\ q.inst = p.inst /\ q.bets = p.bets
             /\ q.status = status /\ q.error = p.error
             /\ \A n : Truthful(p, n) => Truthful(q, n)
<1> DEFINE q == [p EXCEPT !.status = status]
<1>1. /\ q \in O!Page /\ q.s = p.s /\ q.t = p.t /\ q.inst = p.inst /\ q.bets = p.bets
      /\ q.status = status /\ q.error = p.error
  BY DEF O!Page
<1> HIDE DEF q
<1>2. \A n : Truthful(p, n) => Truthful(q, n)
  BY <1>1 DEF Truthful
<1>. QED BY <1>1, <1>2 DEF q

\* What is said of the connection, when client i of server n gets the state c.
SaysSo(n, q, status, i, c) ==
  /\ status = "open" => q.s.open /\ (IF i = q.inst THEN c ELSE n.cl[q.inst]).ws = "open"
  /\ status \in {"connecting", "reconnecting"} =>
       q.s.open /\ (IF i = q.inst THEN c ELSE n.cl[q.inst]).ws # "open"

\* One client is touched, and the page is told its status.
LEMMA TouchedOnline ==
  ASSUME NEW n, NEW p, NEW k, OnlineOK(n, p, k), NEW i \in O!Clients,
         NEW c, NEW w, NEW joined, NEW m, Touches(m, n, i, c, w, joined),
         \A j \in O!Clients \ {i} : j \in joined <=> j \in n.joined,
         NEW q \in O!Page, q.inst = p.inst, p.bets <= q.bets,
         q.s.open = p.s.open \/ (i = p.inst /\ ~q.s.open),
         ClientOK(i, c, w, i \in joined, q.inst, q.s.open), BetsOK(i, c, w, n.got, q.bets),
         NEW h \in 0 .. MaxSteps, q.bets <= h, Truthful(q, n),
         NEW status \in O!Status, SaysSo(n, q, status, i, c)
  PROVE  OnlineOK(m, [q EXCEPT !.status = status], h)
<1> DEFINE r == [q EXCEPT !.status = status]
<1>1. /\ r \in O!Page /\ r.inst = q.inst /\ r.bets = q.bets /\ r.s = q.s /\ r.status = status
      /\ Truthful(r, n)
  BY StatusShown
<1> HIDE DEF r
<1>2. StatusOK(m, r)
  <2>1. \A j \in O!Clients \ {i} : m.cl[j] = n.cl[j]
    BY DEF Touches
  <2>2. q.s.open => q.inst \in O!Clients
    BY DEF OnlineOK
  <2>3. m.cl[i] = c
    BY DEF Touches
  <2>. QED BY <1>1, <2>1, <2>2, <2>3 DEF SaysSo, StatusOK
<1>3. OnlineOK(m, r, h)
  BY <1>1, <1>2, StepKeepsOnline
<1>. QED BY <1>3 DEF r

\* What a client did.
LEMMA StepsOnline ==
  ASSUME OnlineOK(core, view, upsets), NEW i \in O!Clients, NEW o, NEW q \in O!Page,
         O!Step(i, o, q), NEW w, w = core.wire[i] \o o.frames,
         q.inst = view.inst, view.bets <= q.bets,
         q.s.open = view.s.open \/ (i = view.inst /\ ~q.s.open),
         ClientOK(i, o.c, w, i \in core.joined, q.inst, q.s.open),
         BetsOK(i, o.c, w, core.got, q.bets), upsets' \in 0 .. MaxSteps, q.bets <= upsets',
         Truthful(q, core), NEW status \in O!Status,
         status = IF o.status = O!NoStatus THEN q.status ELSE o.status,
         SaysSo(core, q, status, i, o.c)
  PROVE  OnlineOK(core', view', upsets')
<1>1. core \in O!Net
  BY DEF OnlineOK
<1>2. w \in Seq(O!Command) /\ o.c \in O!Client(O!Command)
  BY DEF ClientOK
<1> DEFINE m == [core EXCEPT !.cl[i] = o.c, !.wire[i] = w]
<1>3. core' = m /\ view' = [q EXCEPT !.status = status]
  BY DEF O!Step
<1>4. Touches(m, core, i, o.c, w, core.joined)
  BY <1>1, <1>2, TouchesWire
<1> HIDE DEF m
<1>5. OnlineOK(m, [q EXCEPT !.status = status], upsets')
  BY <1>4, TouchedOnline
<1>. QED BY <1>3, <1>5

LEMMA AcceptsOnline ==
  ASSUME OnlineOK(core, view, upsets), NEW i \in O!Clients, O!Accept(i)
  PROVE  OnlineOK(core', view', upsets')
<1> DEFINE o == O!OnOpen(core.cl[i], <<O!Frame("hello")>>)
           w == core.wire[i] \o o.frames
<1>1. /\ core \in O!Net /\ view \in O!Page /\ i \in Nat /\ view.inst \in Nat /\ view.bets \in Nat
      /\ upsets \in 0 .. MaxSteps /\ view.bets <= upsets /\ core.cl[i] \in O!Client(O!Command)
      /\ ClientOK(i, core.cl[i], core.wire[i], i \in core.joined, view.inst, view.s.open)
      /\ BetsOK(i, core.cl[i], core.wire[i], core.got, view.bets) /\ Truthful(view, core)
  BY OneClient
<1>2. core.cl[i].ws = "connecting" /\ O!Step(i, o, view) /\ upsets' = upsets
  BY DEF O!Accept
<1>3. /\ ClientOK(i, o.c, w, i \in core.joined, view.inst, view.s.open)
      /\ BetsOK(i, o.c, w, core.got, view.bets) /\ i = view.inst /\ view.s.open
  BY <1>1, <1>2, ClientAccept
<1>4. o.c.ws = "open" /\ o.status = "open"
  BY <1>1, OnOpenOK
<1> HIDE DEF o
<1>5. w = core.wire[i] \o o.frames
  OBVIOUS
<1> HIDE DEF w
<1>6. "open" \in O!Status /\ "open" # O!NoStatus
  BY DEF O!Status, O!NoStatus
<1>7. SaysSo(core, view, "open", i, o.c)
  BY <1>3, <1>4 DEF SaysSo
<1>8. upsets' \in 0 .. MaxSteps /\ view.bets <= upsets' /\ view.bets <= view.bets
  BY <1>1, <1>2
<1>9. "open" = IF o.status = O!NoStatus THEN view.status ELSE o.status
  BY <1>4, <1>6
<1>10. /\ OnlineOK(core, view, upsets) /\ i \in O!Clients /\ view \in O!Page
       /\ Truthful(view, core) /\ view.inst = view.inst /\ O!Step(i, o, view)
  BY <1>1, <1>2
<1>. QED BY ONLY <1>3, <1>5, <1>6, <1>7, <1>8, <1>9, <1>10, StepsOnline

LEMMA LateClosesOnline ==
  ASSUME OnlineOK(core, view, upsets), NEW i \in O!Clients, O!LateClose(i)
  PROVE  OnlineOK(core', view', upsets')
<1> DEFINE c == core.cl[i]
           o == O!OnLateClose(c)
<1>1. /\ core \in O!Net /\ view \in O!Page /\ i \in Nat /\ view.inst \in Nat /\ view.bets \in Nat
      /\ upsets \in 0 .. MaxSteps /\ view.bets <= upsets /\ c \in O!Client(O!Command)
      /\ core.wire[i] \in Seq(O!Command)
      /\ ClientOK(i, c, core.wire[i], i \in core.joined, view.inst, view.s.open)
      /\ BetsOK(i, c, core.wire[i], core.got, view.bets) /\ Truthful(view, core)
  BY OneClient
<1>2. c.late /\ O!Step(i, o, view) /\ upsets' = upsets
  BY DEF O!LateClose
<1>3. /\ o.c \in O!Client(O!Command) /\ o.c.ws = c.ws /\ o.c.done = c.done
      /\ o.c.queue = c.queue /\ o.c.retry = c.retry /\ o.frames = <<>>
      /\ o.status = "closed"
  BY <1>1, OnLateCloseOK
<1>4. i <= view.inst
  <2>1. ~O!NewClient.late
    BY DEF O!NewClient
  <2>2. ~(i > view.inst)
    BY <1>1, <1>2, <2>1 DEF ClientOK
  <2>. QED BY <1>1, <2>2
<1> HIDE DEF o, c
<1>5. /\ ClientOK(i, o.c, core.wire[i], i \in core.joined, view.inst, view.s.open)
      /\ BetsOK(i, o.c, core.wire[i], core.got, view.bets)
  <2> DEFINE w == core.wire[i]
             j == i \in core.joined
             inst == view.inst
             open == view.s.open
             got == core.got
             bets == view.bets
  <2>1. /\ i \in Nat /\ inst \in Nat /\ bets \in Nat
        /\ ClientOK(i, c, w, j, inst, open) /\ BetsOK(i, c, w, got, bets) /\ i <= inst
    BY <1>1, <1>4
  <2> HIDE DEF w, j, inst, open, got, bets
  <2>2. ClientOK(i, o.c, w, j, inst, open) /\ BetsOK(i, o.c, w, got, bets)
    BY <1>3, <2>1, ClientStays
  <2>. QED BY <2>2 DEF w, j, inst, open, got, bets
<1>6. core.wire[i] = core.wire[i] \o o.frames
  BY <1>1, <1>3, ConcatEmptySeq
<1>7. "closed" \in O!Status /\ "closed" # O!NoStatus
  BY DEF O!Status, O!NoStatus
<1>8. SaysSo(core, view, "closed", i, o.c)
  BY DEF SaysSo
<1>9. /\ upsets' \in 0 .. MaxSteps /\ view.bets <= upsets' /\ view.bets <= view.bets
  BY <1>1, <1>2
<1>10. "closed" = IF o.status = O!NoStatus THEN view.status ELSE o.status
  BY <1>3, <1>7
<1>11. /\ OnlineOK(core, view, upsets) /\ i \in O!Clients /\ view \in O!Page
       /\ Truthful(view, core) /\ view.inst = view.inst /\ O!Step(i, o, view)
  BY <1>1, <1>2
<1>. QED BY ONLY <1>5, <1>6, <1>7, <1>8, <1>9, <1>10, <1>11, StepsOnline

LEMMA RetriesOnline ==
  ASSUME OnlineOK(core, view, upsets), NEW i \in O!Clients, O!RetryFires(i)
  PROVE  OnlineOK(core', view', upsets')
<1> DEFINE c == core.cl[i]
           o == O!Retry(c)
<1>1. /\ core \in O!Net /\ view \in O!Page /\ i \in Nat /\ view.inst \in Nat /\ view.bets \in Nat
      /\ upsets \in 0 .. MaxSteps /\ view.bets <= upsets /\ c \in O!Client(O!Command)
      /\ core.wire[i] \in Seq(O!Command) /\ view.status \in O!Status
      /\ ClientOK(i, c, core.wire[i], i \in core.joined, view.inst, view.s.open)
      /\ BetsOK(i, c, core.wire[i], core.got, view.bets) /\ Truthful(view, core)
      /\ StatusOK(core, view)
  BY OneClient
<1>2. c.retry /\ O!Step(i, o, view) /\ upsets' = upsets
  BY DEF O!RetryFires
<1>3. /\ o.c \in O!Client(O!Command) /\ o.c.done = c.done /\ ~o.c.retry
      /\ o.c.queue = c.queue /\ o.frames = <<>>
      /\ c.done => o.c.ws = c.ws /\ o.status = O!NoStatus
      /\ ~c.done => o.c.ws = "connecting" /\ o.status \in {"reconnecting", "connecting"}
  BY <1>1, RetryOK
<1>4. i <= view.inst
  <2>1. ~O!NewClient.retry
    BY NewClientFields
  <2>2. ~(i > view.inst)
    BY <1>1, <1>2, <2>1 DEF ClientOK
  <2>. QED BY <1>1, <2>2
<1>5. /\ ~c.done => i = view.inst /\ view.s.open
      /\ c.ws = "none"
  <2>1. ~c.done => i = view.inst /\ view.s.open
    BY <1>1, <1>4 DEF ClientOK
  <2>2. c.ws # "none" => ~c.retry
    BY <1>1 DEF ClientOK
  <2>. QED BY <1>2, <2>1, <2>2
<1>6. c.done \/ c.ws # "open"
  BY <1>5
<1>7. core.cl[i] = c
  OBVIOUS
<1> HIDE DEF o, c
<1>8. /\ ClientOK(i, o.c, core.wire[i], i \in core.joined, view.inst, view.s.open)
      /\ BetsOK(i, o.c, core.wire[i], core.got, view.bets)
  <2> DEFINE w == core.wire[i]
             j == i \in core.joined
             inst == view.inst
             open == view.s.open
             got == core.got
             bets == view.bets
  <2>1. /\ i \in Nat /\ inst \in Nat /\ bets \in Nat
        /\ ClientOK(i, c, w, j, inst, open) /\ BetsOK(i, c, w, got, bets) /\ i <= inst
    BY <1>1, <1>4
  <2> HIDE DEF w, j, inst, open, got, bets
  <2>2. ClientOK(i, o.c, w, j, inst, open) /\ BetsOK(i, o.c, w, got, bets)
    BY <1>3, <1>6, <2>1, ClientStays
  <2>. QED BY <2>2 DEF w, j, inst, open, got, bets
<1>9. core.wire[i] = core.wire[i] \o o.frames
  BY <1>1, <1>3, ConcatEmptySeq
<1> DEFINE status == IF o.status = O!NoStatus THEN view.status ELSE o.status
<1>10. status \in O!Status /\ SaysSo(core, view, status, i, o.c)
  <2>1. CASE c.done
    <3>1. status = view.status
      BY <1>3, <2>1
    <3> HIDE DEF status
    <3>2. (IF i = view.inst THEN o.c ELSE core.cl[view.inst]).ws = core.cl[view.inst].ws
      BY <1>3, <1>7, <2>1
    <3>. QED BY <1>1, <3>1, <3>2 DEF SaysSo, StatusOK
  <2>2. CASE ~c.done
    <3>1. status \in {"reconnecting", "connecting"}
      BY <1>3, <2>2 DEF O!NoStatus
    <3> HIDE DEF status
    <3>. QED BY <1>3, <1>5, <2>2, <3>1 DEF SaysSo, O!Status
  <2>. QED BY <2>1, <2>2
<1>11. status = IF o.status = O!NoStatus THEN view.status ELSE o.status
  OBVIOUS
<1> HIDE DEF status
<1>12. /\ upsets' \in 0 .. MaxSteps /\ view.bets <= upsets' /\ view.bets <= view.bets
  BY <1>1, <1>2
<1>13. /\ OnlineOK(core, view, upsets) /\ i \in O!Clients /\ view \in O!Page
       /\ Truthful(view, core) /\ view.inst = view.inst /\ O!Step(i, o, view)
  BY <1>1, <1>2
<1>. QED BY ONLY <1>8, <1>9, <1>10, <1>11, <1>12, <1>13, StepsOnline

LEMMA UpsetCounts ==
  ASSUME NEW n, NEW p, OnlineOK(n, p, upsets), O!Counted
  PROVE  upsets' \in 0 .. MaxSteps /\ upsets' = upsets + 1 /\ p.bets + 1 <= upsets'
<1>1. /\ upsets \in 0 .. MaxSteps /\ p.bets <= upsets /\ p.bets \in Nat /\ MaxSteps \in Nat
      /\ upsets' = upsets + 1 /\ upsets + 1 <= MaxSteps
  BY PageFields, OnlineConstants DEF OnlineOK, O!Counted, O!Counts
<1>. QED BY <1>1

LEMMA DropsOnline ==
  ASSUME OnlineOK(core, view, upsets), NEW i \in O!Clients, O!Drop(i)
  PROVE  OnlineOK(core', view', upsets')
<1> DEFINE c == core.cl[i]
           o == O!OnClose(c)
           joined == core.joined \ {i}
           m == [core EXCEPT !.cl[i] = o.c, !.wire[i] = <<>>, !.joined = joined]
<1>1. /\ core \in O!Net /\ view \in O!Page /\ i \in Nat /\ view.inst \in Nat /\ view.bets \in Nat
      /\ upsets \in 0 .. MaxSteps /\ view.bets <= upsets /\ c \in O!Client(O!Command)
      /\ core.joined \in SUBSET O!Clients
      /\ ClientOK(i, c, core.wire[i], i \in core.joined, view.inst, view.s.open)
      /\ BetsOK(i, c, core.wire[i], core.got, view.bets) /\ Truthful(view, core)
  BY OneClient
<1>2. c.ws # "none" /\ O!Counted /\ core' = m /\ view' = [view EXCEPT !.status = o.status]
  BY DEF O!Drop
<1>3. o.c \in O!Client(O!Command) /\ o.c.ws = "none" /\ o.status = "reconnecting"
  BY <1>1, OnCloseOK
<1>4. /\ joined \in SUBSET O!Clients /\ i \notin joined
      /\ \A j \in O!Clients \ {i} : j \in joined <=> j \in core.joined
  BY <1>1
<1> HIDE DEF joined
<1>5. /\ ClientOK(i, o.c, <<>>, i \in joined, view.inst, view.s.open)
      /\ BetsOK(i, o.c, <<>>, core.got, view.bets) /\ i = view.inst /\ view.s.open
  <2> DEFINE w == core.wire[i]
             j == i \in core.joined
             inst == view.inst
             open == view.s.open
             got == core.got
             bets == view.bets
             no == i \in joined
  <2> HIDE DEF c
  <2>1. /\ i \in Nat /\ inst \in Nat /\ bets \in Nat
        /\ ClientOK(i, c, w, j, inst, open) /\ BetsOK(i, c, w, got, bets) /\ c.ws # "none"
        /\ no \in BOOLEAN /\ ~no
    BY <1>1, <1>2, <1>4
  <2> HIDE DEF w, j, inst, open, got, bets, no
  <2>2. /\ ClientOK(i, O!OnClose(c).c, <<>>, no, inst, open)
       /\ BetsOK(i, O!OnClose(c).c, <<>>, got, bets) /\ i = inst /\ open
    BY <2>1, ClientDrop
  <2>. QED BY <2>2 DEF inst, open, got, bets, no
<1> HIDE DEF o, c
<1>6. Touches(m, core, i, o.c, <<>>, joined)
  BY <1>1, <1>3, <1>4, EmptyQueue, TouchesAll
<1> HIDE DEF m
<1>7. "reconnecting" \in O!Status /\ SaysSo(core, view, "reconnecting", i, o.c)
  BY <1>3, <1>5 DEF O!Status, SaysSo
<1>8. upsets' \in 0 .. MaxSteps /\ view.bets <= upsets'
  BY <1>1, <1>2, UpsetCounts
<1>9. /\ OnlineOK(core, view, upsets) /\ i \in O!Clients /\ view \in O!Page
      /\ Truthful(view, core) /\ view.inst = view.inst /\ view.bets <= view.bets
      /\ BetsOK(i, o.c, <<>>, core.got, view.bets)
  BY <1>1, <1>5
<1>10. OnlineOK(m, [view EXCEPT !.status = "reconnecting"], upsets')
  BY ONLY <1>4, <1>5, <1>6, <1>7, <1>8, <1>9, TouchedOnline
<1>. QED BY <1>2, <1>3, <1>10

LEMMA RefusesOnline ==
  ASSUME OnlineOK(core, view, upsets), NEW i \in O!Clients, NEW stillOpen \in BOOLEAN,
         O!Refuse(i, stillOpen)
  PROVE  OnlineOK(core', view', upsets')
<1> DEFINE c == core.cl[i]
           o == O!SurfaceTerminal(c, stillOpen)
           w == IF stillOpen THEN core.wire[i] ELSE <<>>
           joined == IF stillOpen THEN core.joined ELSE core.joined \ {i}
           m == [core EXCEPT !.cl[i] = o.c, !.wire[i] = w, !.joined = joined]
           q == O!OnEvent(view, O!Error("fatal"))
<1>1. /\ core \in O!Net /\ view \in O!Page /\ i \in Nat /\ view.inst \in Nat /\ view.bets \in Nat
      /\ upsets \in 0 .. MaxSteps /\ view.bets <= upsets /\ c \in O!Client(O!Command)
      /\ core.joined \in SUBSET O!Clients /\ core.wire[i] \in Seq(O!Command)
      /\ view.s.open \in BOOLEAN
      /\ ClientOK(i, c, core.wire[i], i \in core.joined, view.inst, view.s.open)
      /\ BetsOK(i, c, core.wire[i], core.got, view.bets)
  BY OneClient
<1>2. c.ws = "open" /\ O!Counted /\ core' = m /\ view' = [q EXCEPT !.status = o.status]
  BY DEF O!Refuse
<1>3. /\ o.c \in O!Client(O!Command) /\ o.c.ws = "none" /\ o.c.done /\ o.c.queue = <<>>
      /\ o.status = "closed"
  BY <1>1, TerminalOK
<1>4. i <= view.inst
  <2>1. ~(i > view.inst)
    BY <1>1, <1>2, NewClientFields DEF ClientOK
  <2>. QED BY <1>1, <2>1
<1>5. /\ q \in O!Page /\ Truthful(q, core) /\ q.inst = view.inst /\ q.bets = view.bets
      /\ q.s.open = view.s.open
  <2>1. view \in PagesFrom(view, core) /\ core.level \in Nat
    BY PageItself
  <2>2. O!Error("fatal") \in EventsOf(core)
    BY ErrorsFit
  <2>3. q \in PagesFrom(view, core)
    BY <2>1, <2>2, OnEventPage
  <2>. QED BY <2>3 DEF PagesFrom
<1>6. /\ joined \in SUBSET O!Clients /\ (~stillOpen => i \notin joined)
      /\ stillOpen => joined = core.joined
      /\ \A j \in O!Clients \ {i} : j \in joined <=> j \in core.joined
      /\ w \in Seq(O!Command)
      /\ stillOpen => w = core.wire[i]
      /\ ~stillOpen => w = <<>>
  BY <1>1, EmptyQueue
<1> HIDE DEF joined, w, o, c, q
<1>7. /\ ClientOK(i, o.c, core.wire[i], i \in core.joined, view.inst, view.s.open)
      /\ BetsOK(i, o.c, core.wire[i], core.got, view.bets)
      /\ ~stillOpen => ClientOK(i, o.c, <<>>, i \in joined, view.inst, view.s.open)
      /\ BetsOK(i, o.c, <<>>, core.got, view.bets)
  <2> DEFINE a == core.wire[i]
             j == i \in core.joined
             inst == view.inst
             open == view.s.open
             got == core.got
             bets == view.bets
             no == ~stillOpen /\ i \in joined
             d == o.c
  <2>1. /\ i \in Nat /\ inst \in Nat /\ bets \in Nat
        /\ ClientOK(i, c, a, j, inst, open) /\ BetsOK(i, c, a, got, bets) /\ i <= inst
        /\ open \in BOOLEAN /\ no \in BOOLEAN /\ ~no
        /\ d \in O!Client(O!Command) /\ d.ws = "none" /\ d.done /\ d.queue = <<>>
    BY <1>1, <1>3, <1>4, <1>6
  <2> HIDE DEF a, j, inst, open, got, bets, no, d
  <2>2. /\ ClientOK(i, d, a, j, inst, open) /\ BetsOK(i, d, a, got, bets)
        /\ ClientOK(i, d, <<>>, no, inst, open) /\ BetsOK(i, d, <<>>, got, bets)
    <3>1. ~(i > inst) /\ Len(<<>>) = 0 /\ <<>> \in Seq(O!Command)
      BY <2>1
    <3>2. ClientOK(i, d, a, j, inst, open) /\ ClientOK(i, d, <<>>, no, inst, open)
      BY <2>1, <3>1 DEF ClientOK
    <3>3. BetsOK(i, d, a, got, bets) /\ BetsOK(i, d, <<>>, got, bets)
      BY <2>1, AscendsEmpty DEF BetsOK
    <3>. QED BY <3>2, <3>3
  <2>3. ~stillOpen => (i \in joined) = no
    BY DEF no
  <2>. QED BY <2>2, <2>3 DEF a, j, inst, open, got, bets, d
<1>8. ClientOK(i, o.c, w, i \in joined, q.inst, q.s.open) /\ BetsOK(i, o.c, w, core.got, q.bets)
  <2>1. CASE stillOpen
    BY <1>5, <1>6, <1>7, <2>1
  <2>2. CASE ~stillOpen
    BY <1>5, <1>6, <1>7, <2>2
  <2>. QED BY <2>1, <2>2
<1>9. Touches(m, core, i, o.c, w, joined)
  BY <1>1, <1>3, <1>6, TouchesAll
<1> HIDE DEF m
<1>10. "closed" \in O!Status /\ SaysSo(core, q, "closed", i, o.c)
  BY DEF O!Status, SaysSo
<1>11. upsets' \in 0 .. MaxSteps /\ q.bets <= upsets' /\ view.bets <= q.bets
  BY <1>1, <1>2, <1>5, UpsetCounts
<1>12. OnlineOK(m, [q EXCEPT !.status = "closed"], upsets')
  BY <1>5, <1>6, <1>8, <1>9, <1>10, <1>11, TouchedOnline
<1>. QED BY <1>2, <1>3, <1>12

-----------------------------------------------------------------------------
(* The server's tables: the page *)

LEMMA EmptyPage ==
  /\ O!G!EmptyTable \in O!G!Store /\ ~O!G!EmptyTable.open
  /\ ~O!G!EmptyTable.timer /\ O!G!EmptyTable.mine = O!G!None
  /\ O!EmptyTourney \in O!Tourney /\ O!EmptyTourney.place = 0
  /\ ~O!EmptyTourney.result /\ O!EmptyTourney.level = 0
<1> DEFINE z == [i \in O!Seat |-> 0]
<1>1. z \in [O!Seat -> Int]
  OBVIOUS
<1> HIDE DEF z
<1>2. O!G!EmptyTable =
        [stack |-> z, last |-> z, out |-> {},
         pot |-> 0, street |-> "none", turn |-> O!G!None, mine |-> O!G!None, running |-> FALSE,
         pending |-> FALSE, timer |-> FALSE, rebuying |-> FALSE, refused |-> FALSE,
         open |-> FALSE, replay |-> {}]
  BY DEF O!G!EmptyTable, z
<1>3. O!G!None \in O!G!SeatOrNone /\ "none" \in O!G!Street
  BY TurnSeats DEF O!G!Street
<1>4. /\ O!G!EmptyTable \in O!G!Store /\ ~O!G!EmptyTable.open
      /\ ~O!G!EmptyTable.timer /\ O!G!EmptyTable.mine = O!G!None
  BY <1>1, <1>2, <1>3 DEF O!G!Store
<1>5. /\ O!EmptyTourney \in O!Tourney /\ O!EmptyTourney.place = 0
      /\ ~O!EmptyTourney.result /\ O!EmptyTourney.level = 0
  BY DEF O!EmptyTourney, O!Tourney, O!Nobody
<1>. QED BY <1>4, <1>5

\* A page that is left shows nothing, but for a preview that stays.
LEMMA PageLeft ==
  ASSUME NEW p \in O!Page
  PROVE  LET q == [p EXCEPT !.s = O!G!Disconnected(@), !.t = O!EmptyTourney,
                            !.status = "closed"]
         IN  /\ q \in O!Page /\ q.inst = p.inst /\ q.bets = p.bets /\ q.status = "closed"
             /\ q.s.open \in BOOLEAN /\ ~q.s.open
             /\ \A n \in O!Net : Truthful(q, n)
<1> DEFINE s == O!G!Disconnected(p.s)
           t == O!EmptyTourney
           q == [p EXCEPT !.s = s, !.t = t, !.status = "closed"]
<1>1. p.s \in O!G!Store /\ p.s.pending \in BOOLEAN /\ p.s.replay \in SUBSET Nat
  BY PageFields, StoreFields
<1>2. /\ O!G!EmptyTable \in O!G!Store /\ ~O!G!EmptyTable.open
      /\ ~O!G!EmptyTable.timer /\ O!G!EmptyTable.mine = O!G!None
  BY EmptyPage
<1>3. s \in O!G!Store /\ ~s.open /\ ~s.timer /\ s.mine = O!G!None
  BY <1>1, <1>2 DEF O!G!Disconnected, O!G!Store
<1>4. t \in O!Tourney /\ t.place = 0 /\ ~t.result /\ t.level = 0
  BY EmptyPage
<1> HIDE DEF s, t
<1>5. /\ q \in O!Page /\ q.inst = p.inst /\ q.bets = p.bets /\ q.status = "closed"
      /\ q.s = s /\ q.t = t
  BY <1>3, <1>4 DEF O!Page, O!Status
<1>6. \A n \in O!Net : n.level \in Nat
  BY NetFields
<1> HIDE DEF q
<1>7. \A n \in O!Net : Truthful(q, n)
  BY <1>3, <1>4, <1>5, <1>6 DEF Truthful
<1>. QED BY <1>3, <1>5, <1>7, StoreFields DEF q, s, t

\* After what its client did, o, the page is left.
LEMMA DisconnectsOnline ==
  ASSUME OnlineOK(core, view, upsets), view.s.open, NEW o, O!Disconnect(o),
         o.status = O!NoStatus, UNCHANGED upsets,
         NEW w, w = core.wire[view.inst] \o o.frames, NEW shut \in BOOLEAN, ~shut,
         ClientOK(view.inst, o.c, w, view.inst \in core.joined, view.inst, shut),
         BetsOK(view.inst, o.c, w, core.got, view.bets)
  PROVE  OnlineOK(core', view', upsets')
<1> DEFINE i == view.inst
           q == [view EXCEPT !.s = O!G!Disconnected(@), !.t = O!EmptyTourney,
                             !.status = "closed"]
<1>1. core \in O!Net /\ view \in O!Page /\ upsets \in 0 .. MaxSteps /\ view.bets <= upsets
      /\ view.bets \in Nat
  BY PageFields DEF OnlineOK
<1>2. i \in O!Clients
  BY DEF OnlineOK
<1>3. /\ q \in O!Page /\ q.inst = view.inst /\ q.bets = view.bets /\ q.status = "closed"
      /\ q.s.open \in BOOLEAN /\ ~q.s.open /\ Truthful(q, core)
  BY <1>1, PageLeft
<1>4. O!Step(i, o, q)
  BY DEF O!Disconnect
<1> HIDE DEF q
<1>5. /\ "closed" \in O!Status /\ SaysSo(core, q, "closed", i, o.c)
      /\ "closed" = IF o.status = O!NoStatus THEN q.status ELSE o.status
  BY <1>3 DEF O!Status, SaysSo
<1>6. q.s.open = shut
  BY <1>3
<1>7. /\ ClientOK(i, o.c, w, i \in core.joined, q.inst, q.s.open)
      /\ BetsOK(i, o.c, w, core.got, q.bets)
  BY <1>3, <1>6
<1>8. /\ upsets' \in 0 .. MaxSteps /\ q.bets <= upsets' /\ view.bets <= q.bets
      /\ w = core.wire[i] \o o.frames
      /\ q.s.open = view.s.open \/ (i = view.inst /\ ~q.s.open)
      /\ OnlineOK(core, view, upsets)
  <2>1. q.bets \in Nat /\ view.bets <= q.bets /\ q.bets <= upsets
    BY <1>1, <1>3
  <2>2. ~q.s.open
    BY <1>3
  <2> HIDE DEF i
  <2>. QED BY <1>1, <2>1, <2>2 DEF i
<1> HIDE DEF i
<1>. QED BY ONLY <1>2, <1>3, <1>4, <1>5, <1>7, <1>8, StepsOnline

LEMMA LeavesOnline ==
  ASSUME OnlineOK(core, view, upsets), O!Leave
  PROVE  OnlineOK(core', view', upsets')
<1> DEFINE i == view.inst
           c == core.cl[i]
           o == O!Close(c)
           w == core.wire[i]
           j == i \in core.joined
           open == view.s.open
           shut == i # i
<1>1. O!Disconnect(o) /\ view.s.open /\ upsets' = upsets /\ i \in O!Clients
  BY DEF O!Leave, O!Current, OnlineOK
<1>2. /\ i \in Nat /\ w \in Seq(O!Command) /\ c \in O!Client(O!Command)
      /\ ClientOK(i, c, w, j, i, open) /\ BetsOK(i, c, w, core.got, view.bets)
  BY <1>1, OneClient
<1>3. /\ o.c \in O!Client(O!Command) /\ o.c.ws = "none" /\ o.c.done /\ o.c.queue = <<>>
      /\ o.frames = <<>> /\ o.status = O!NoStatus
  BY <1>2, CloseOK
<1>4. w = w \o o.frames
  BY <1>2, <1>3, ConcatEmptySeq
<1>5. shut \in BOOLEAN /\ ~shut /\ ~(i > i)
  BY <1>2
<1> HIDE DEF o, c, j, open, shut
<1>6. ClientOK(i, o.c, w, j, i, shut)
  <2> HIDE DEF w, i
  <2>. QED BY <1>2, <1>3, <1>5 DEF ClientOK
<1>7. BetsOK(i, o.c, w, core.got, view.bets)
  BY <1>2, <1>3, AscendsEmpty DEF BetsOK
<1>8. ClientOK(view.inst, o.c, w, view.inst \in core.joined, view.inst, shut)
  BY <1>6 DEF j
<1>. QED BY <1>1, <1>3, <1>4, <1>5, <1>7, <1>8, DisconnectsOnline

LEMMA LeavesTableOnline ==
  ASSUME OnlineOK(core, view, upsets), O!LeaveTable
  PROVE  OnlineOK(core', view', upsets')
<1> DEFINE i == view.inst
           c == core.cl[i]
           a == O!SendCommand(c, O!Frame("leave"))
           b == O!Close(a.c)
           o == [b EXCEPT !.frames = a.frames]
           w == core.wire[i]
           v == w \o a.frames
           j == i \in core.joined
           open == view.s.open
           got == core.got
           bets == view.bets
           shut == i # i
<1>1. O!Disconnect(o) /\ view.s.open /\ upsets' = upsets /\ i \in O!Clients
  BY DEF O!LeaveTable, O!Current, OnlineOK
<1>2. /\ i \in Nat /\ i <= i /\ bets \in Nat /\ shut \in BOOLEAN /\ ~shut
      /\ c \in O!Client(O!Command)
      /\ ClientOK(i, c, w, j, i, open) /\ BetsOK(i, c, w, got, bets)
  <2>1. ~shut /\ shut \in BOOLEAN
    OBVIOUS
  <2> HIDE DEF shut
  <2>2. /\ i \in Nat /\ bets \in Nat /\ c \in O!Client(O!Command)
        /\ ClientOK(i, c, w, j, i, open) /\ BetsOK(i, c, w, got, bets)
    BY <1>1, OneClient
  <2>3. i <= i
    <3> HIDE DEF i
    <3>. QED BY <2>2
  <2>. QED BY <2>1, <2>2, <2>3
<1>3. o.c = b.c /\ o.frames = a.frames /\ o.status = O!NoStatus
  <2>1. O!Frame("leave") \in O!Command
    BY OnlineConstants DEF O!Frame, O!Command
  <2>2. a.c \in O!Client(O!Command)
    BY <1>2, <2>1, SendCommandOK
  <2>3. b.status = O!NoStatus
    BY <2>2, CloseOK
  <2>4. b = O!Out(b.c, b.frames, b.status)
    BY DEF O!Close, O!Out
  <2> HIDE DEF b
  <2>. QED BY <2>3, <2>4 DEF O!Out
<1>4. ClientOK(i, b.c, v, j, i, shut) /\ BetsOK(i, b.c, v, got, bets)
  <2> HIDE DEF i, c, w, j, open, got, bets, shut
  <2>. QED BY <1>2, ClientLeaves
<1> HIDE DEF o, b, a, c, shut
<1>5. /\ v = core.wire[view.inst] \o o.frames
      /\ ClientOK(view.inst, o.c, v, view.inst \in core.joined, view.inst, shut)
      /\ BetsOK(view.inst, o.c, v, core.got, view.bets)
  BY <1>3, <1>4
<1> HIDE DEF v
<1>. QED BY <1>1, <1>2, <1>3, <1>5, DisconnectsOnline

\* What the player's buttons and timers make of what is shown.
LEMMA ActionShown ==
  ASSUME NEW s \in O!G!Store, s.mine \in O!Seat, NEW bet, bet.amount \in Int
  PROVE  /\ O!G!Act(s, bet) \in O!G!Store
         /\ O!G!Act(s, bet).open = s.open /\ O!G!Act(s, bet).mine = s.mine
<1> DEFINE last == [s.last EXCEPT ![s.mine] = bet.amount]
           r == [s EXCEPT !.pending = TRUE, !.timer = TRUE, !.turn = O!G!None, !.last = last]
<1>1. last \in [O!Seat -> Int]
  BY StoreFields
<1>2. O!G!Act(s, bet) = r
  BY DEF O!G!Act, O!G!Store
<1> HIDE DEF last
<1>3. r \in O!G!Store /\ r.open = s.open /\ r.mine = s.mine
  BY <1>1, TurnSeats DEF O!G!Store
<1>. QED BY <1>2, <1>3

LEMMA TimeoutShown ==
  ASSUME NEW s \in O!G!Store
  PROVE  /\ O!G!PendingTimeout(s) \in O!G!Store /\ ~O!G!PendingTimeout(s).timer
         /\ O!G!PendingTimeout(s).open = s.open /\ O!G!PendingTimeout(s).mine = s.mine
BY DEF O!G!PendingTimeout, O!G!Store

LEMMA ConnectedShown ==
  ASSUME NEW s \in O!G!Store
  PROVE  /\ O!G!Connected(s) \in O!G!Store /\ O!G!Connected(s).mine = s.mine
         /\ O!G!Connected(s).open = TRUE /\ ~O!G!Connected(s).timer
BY DEF O!G!Connected, O!G!Store

\* The page's client sends a command, and the page goes on to q.
LEMMA SendsOnline ==
  ASSUME OnlineOK(core, view, upsets), view.s.open, NEW cmd \in O!Command,
         cmd.kind \in {"bet", "resync"}, NEW q \in O!Page,
         O!Step(view.inst, O!SendCommand(core.cl[view.inst], cmd), q),
         q.inst = view.inst, q.status = view.status, q.s.open = view.s.open,
         view.bets <= q.bets, Truthful(q, core),
         cmd.kind = "bet" => view.bets < cmd.n /\ cmd.n <= q.bets,
         upsets' \in 0 .. MaxSteps, q.bets <= upsets'
  PROVE  OnlineOK(core', view', upsets')
<1> DEFINE i == view.inst
           c == core.cl[i]
           o == O!SendCommand(c, cmd)
           w == core.wire[i]
           v == w \o o.frames
           j == i \in core.joined
           open == view.s.open
           got == core.got
           bets == view.bets
           more == q.bets
<1>1. /\ i \in O!Clients /\ core \in O!Net /\ view.status \in O!Status /\ StatusOK(core, view)
      /\ more \in Nat
  BY PageFields DEF OnlineOK
<1>2. /\ i \in Nat /\ i <= i /\ bets \in Nat /\ more \in Nat /\ bets <= more
      /\ \A m \in 1 .. Len(got) : got[m][2] \in Nat
      /\ c \in O!Client(O!Command)
      /\ ClientOK(i, c, w, j, i, open) /\ BetsOK(i, c, w, got, bets)
      /\ cmd \in O!Command /\ cmd.kind \in {"bet", "resync"}
      /\ cmd.kind = "bet" => bets < cmd.n /\ cmd.n <= more
  <2>1. /\ i \in Nat /\ bets \in Nat /\ c \in O!Client(O!Command)
        /\ ClientOK(i, c, w, j, i, open) /\ BetsOK(i, c, w, got, bets)
        /\ \A m \in 1 .. Len(got) : got[m][2] \in Nat
    BY <1>1, OneClient
  <2>2. bets <= more /\ (cmd.kind = "bet" => bets < cmd.n /\ cmd.n <= more)
    OBVIOUS
  <2>3. i <= i
    <3> HIDE DEF i
    <3>. QED BY <2>1
  <2> HIDE DEF i, c, w, j, open, got, bets, more
  <2>. QED BY <1>1, <2>1, <2>2, <2>3
<1>3. /\ ClientOK(i, o.c, v, j, i, open) /\ BetsOK(i, o.c, v, got, more)
  <2> HIDE DEF i, c, w, j, open, got, bets, more
  <2>. QED BY <1>2, ClientSend
<1>4. o.c.ws = c.ws /\ o.status = O!NoStatus
  BY <1>2, SendCommandOK
<1>5. /\ ClientOK(i, o.c, v, i \in core.joined, q.inst, q.s.open)
      /\ BetsOK(i, o.c, v, core.got, q.bets)
  BY <1>3
<1>6. O!Step(i, o, q) /\ v = core.wire[i] \o o.frames
  OBVIOUS
<1>7. /\ SaysSo(core, q, view.status, i, o.c)
      /\ view.status = IF o.status = O!NoStatus THEN q.status ELSE o.status
  <2>1. c.ws = core.cl[view.inst].ws /\ i = q.inst
    OBVIOUS
  <2> HIDE DEF o, c, i
  <2>. QED BY <1>1, <1>4, <2>1 DEF SaysSo, StatusOK
<1>8. /\ OnlineOK(core, view, upsets) /\ i \in O!Clients /\ q \in O!Page
      /\ q.inst = view.inst /\ view.bets <= q.bets /\ Truthful(q, core)
      /\ q.s.open = view.s.open \/ (i = view.inst /\ ~q.s.open)
      /\ view.status \in O!Status /\ upsets' \in 0 .. MaxSteps /\ q.bets <= upsets'
  BY <1>1
<1> HIDE DEF i, c, o, v
<1>. QED BY ONLY <1>5, <1>6, <1>7, <1>8, StepsOnline

LEMMA TapsOnline ==
  ASSUME OnlineOK(core, view, upsets), O!Tap
  PROVE  OnlineOK(core', view', upsets')
<1> DEFINE n == view.bets + 1
           cmd == [kind |-> "bet", n |-> n]
           s == O!G!Act(view.s, [kind |-> "check", amount |-> 0])
           q == [view EXCEPT !.s = s, !.bets = n]
<1>1. /\ O!G!MayTap(view.s) /\ O!Counted
      /\ O!Step(view.inst, O!SendCommand(core.cl[view.inst], cmd), q)
  BY DEF O!Tap, O!Current
<1>2. /\ core \in O!Net /\ view \in O!Page /\ view.bets \in Nat /\ Truthful(view, core)
      /\ view.s \in O!G!Store /\ view.s.mine \in O!Seat \cup {O!G!None}
  BY PageFields DEF OnlineOK
<1>3. /\ upsets' \in 0 .. MaxSteps /\ n <= upsets'
  BY <1>1, UpsetCounts
<1>4. n \in 0 .. MaxSteps /\ n \in Nat /\ view.bets < n /\ view.bets <= n /\ n <= n
  BY <1>2, <1>3, OnlineConstants
<1>5. view.s.open /\ view.s.mine \in O!Seat
  BY <1>1, <1>2 DEF O!G!MayTap
<1> DEFINE bet == [kind |-> "check", amount |-> 0]
<1>6. bet.amount \in Int
  OBVIOUS
<1>7. s \in O!G!Store /\ s.open = view.s.open /\ s.mine = view.s.mine
  <2> HIDE DEF bet
  <2>1. /\ O!G!Act(view.s, bet) \in O!G!Store /\ O!G!Act(view.s, bet).open = view.s.open
        /\ O!G!Act(view.s, bet).mine = view.s.mine
    BY <1>2, <1>5, <1>6, ActionShown
  <2>. QED BY <2>1 DEF bet
<1> HIDE DEF n, s
<1>8. /\ q \in O!Page /\ q.s = s /\ q.t = view.t /\ q.inst = view.inst /\ q.bets = n
      /\ q.status = view.status
  BY <1>2, <1>4, <1>7 DEF O!Page
<1>9. cmd \in O!Command /\ cmd.kind \in {"bet", "resync"} /\ cmd.n = n
  BY <1>4 DEF O!Command
<1> HIDE DEF q, cmd
<1>10. Truthful(q, core)
  BY <1>2, <1>5, <1>7, <1>8 DEF Truthful
<1>11. /\ q.s.open = view.s.open /\ view.bets <= q.bets /\ q.bets <= upsets'
       /\ view.bets < cmd.n /\ cmd.n <= q.bets
  BY <1>3, <1>4, <1>7, <1>8, <1>9
<1>. QED BY <1>1, <1>3, <1>5, <1>8, <1>9, <1>10, <1>11, SendsOnline

LEMMA PreviewTimesOutOnline ==
  ASSUME OnlineOK(core, view, upsets), O!PreviewTimesOut
  PROVE  OnlineOK(core', view', upsets')
<1> DEFINE cmd == O!Frame("resync")
           s == O!G!PendingTimeout(view.s)
           q == [view EXCEPT !.s = s]
<1>1. /\ view.s.timer /\ upsets' = upsets
      /\ O!Step(view.inst, O!SendCommand(core.cl[view.inst], cmd), q)
  BY DEF O!PreviewTimesOut, O!Current
<1>2. /\ core \in O!Net /\ view \in O!Page /\ view.bets \in Nat /\ Truthful(view, core)
      /\ view.s \in O!G!Store /\ upsets \in 0 .. MaxSteps /\ view.bets <= upsets
  BY PageFields DEF OnlineOK
<1>3. view.s.open
  BY <1>1, <1>2 DEF Truthful
<1>4. s \in O!G!Store /\ s.open = view.s.open /\ s.mine = view.s.mine /\ ~s.timer
  BY <1>2, TimeoutShown
<1> HIDE DEF s
<1>5. /\ q \in O!Page /\ q.s = s /\ q.t = view.t /\ q.inst = view.inst /\ q.bets = view.bets
      /\ q.status = view.status
  BY <1>2, <1>4 DEF O!Page
<1>6. cmd \in O!Command /\ cmd.kind \in {"bet", "resync"} /\ cmd.kind # "bet"
  BY OnlineConstants DEF O!Frame, O!Command
<1> HIDE DEF q, cmd
<1>7. Truthful(q, core)
  BY <1>2, <1>4, <1>5 DEF Truthful
<1>8. q.s.open = view.s.open /\ view.bets <= q.bets /\ q.bets <= upsets'
  BY <1>1, <1>2, <1>4, <1>5
<1>9. upsets' \in 0 .. MaxSteps
  BY <1>1, <1>2
<1>. QED BY <1>1, <1>3, <1>5, <1>6, <1>7, <1>8, <1>9, SendsOnline

LEMMA BriefTimerOnline ==
  ASSUME OnlineOK(core, view, upsets), O!BriefTimer
  PROVE  OnlineOK(core', view', upsets')
<1>1. /\ core \in O!Net /\ view \in O!Page /\ view.t \in O!Tourney /\ Truthful(view, core)
      /\ core' = core /\ upsets' = upsets
  BY PageFields DEF OnlineOK, O!BriefTimer
<1>2. ASSUME NEW t \in O!Tourney, t.place = view.t.place, t.result = view.t.result,
             t.level = view.t.level, view' = [view EXCEPT !.t = t]
      PROVE  view' \in PagesFrom(view, core)
  <2>1. /\ view' \in O!Page /\ view'.s = view.s /\ view'.t = t /\ view'.inst = view.inst
        /\ view'.bets = view.bets /\ view'.status = view.status
    BY <1>1, <1>2 DEF O!Page
  <2>. QED BY <1>1, <1>2, <2>1 DEF PagesFrom, Truthful
<1>3. CASE O!BannerTimer
  <2> DEFINE t == O!ClearBlindsUpBanner(view.t)
  <2>1. /\ t \in O!Tourney /\ t.place = view.t.place
        /\ t.result = view.t.result /\ t.level = view.t.level
    BY <1>1 DEF O!ClearBlindsUpBanner, O!Tourney
  <2>2. view' = [view EXCEPT !.t = t]
    BY <1>3 DEF O!BannerTimer
  <2> HIDE DEF t
  <2>. QED BY <1>1, <1>2, <2>1, <2>2, PageHears
<1>4. CASE O!ToastTimer
  <2> DEFINE t == O!ClearElimination(view.t)
  <2>1. /\ t \in O!Tourney /\ t.place = view.t.place
        /\ t.result = view.t.result /\ t.level = view.t.level
    BY <1>1 DEF O!ClearElimination, O!Tourney
  <2>2. view' = [view EXCEPT !.t = t]
    BY <1>4 DEF O!ToastTimer
  <2> HIDE DEF t
  <2>. QED BY <1>1, <1>2, <2>1, <2>2, PageHears
<1>5. CASE O!ErrorTimer
  <2>1. view' = [view EXCEPT !.error = "none"]
    BY <1>5 DEF O!ErrorTimer
  <2>2. /\ view' \in O!Page /\ view'.s = view.s /\ view'.t = view.t /\ view'.inst = view.inst
        /\ view'.bets = view.bets /\ view'.status = view.status
    BY <1>1, <2>1 DEF O!Page
  <2>3. view' \in PagesFrom(view, core)
    BY <1>1, <2>2 DEF PagesFrom, Truthful
  <2>. QED BY <1>1, <2>3, PageHears
<1>. QED BY <1>3, <1>4, <1>5 DEF O!BriefTimer

LEMMA ReloadsOnline ==
  ASSUME OnlineOK(core, view, upsets), O!Reload
  PROVE  OnlineOK(core', view', upsets')
<1> DEFINE i == view.inst
           w == core.wire[i]
           j == i \in core.joined
           open == view.s.open
           d == [O!NewClient EXCEPT !.done = TRUE]
           m == [core EXCEPT !.cl[i] = d]
           s == O!G!EmptyTable
           t == O!EmptyTourney
           q == [view EXCEPT !.s = s, !.t = t, !.error = "none"]
           shut == i # i
<1>1. /\ view.s.open /\ i \in O!Clients /\ core \in O!Net /\ view \in O!Page
      /\ upsets \in 0 .. MaxSteps /\ view.bets <= upsets /\ upsets' = upsets
      /\ core' = m /\ view.bets \in Nat
  BY PageFields DEF O!Reload, OnlineOK
<1>2. /\ i \in Nat /\ core.joined \in SUBSET O!Clients
      /\ ClientOK(i, core.cl[i], w, j, i, open) /\ BetsOK(i, core.cl[i], w, core.got, view.bets)
  BY <1>1, OneClient
<1>3. d \in O!Client(O!Command) /\ d.ws = "none" /\ d.done /\ d.queue = <<>>
  BY NewClientFields DEF O!Client
<1>4. /\ s \in O!G!Store /\ ~s.open /\ ~s.timer /\ s.mine = O!G!None
      /\ t \in O!Tourney /\ t.place = 0 /\ ~t.result /\ t.level = 0
  BY EmptyPage
<1>5. shut \in BOOLEAN /\ ~shut
  OBVIOUS
<1> HIDE DEF d, s, t, shut
<1>6. /\ q \in O!Page /\ q.s = s /\ q.t = t /\ q.inst = view.inst /\ q.bets = view.bets
  BY <1>1, <1>4 DEF O!Page
<1>7. view' = [q EXCEPT !.status = "closed"]
  BY <1>1 DEF O!Reload, O!Page, s, t
<1> HIDE DEF q
<1>8. Truthful(q, core) /\ q.s.open = shut
  <2>1. core.level \in Nat
    BY <1>1, NetFields
  <2>2. s.open = shut
    BY <1>4, <1>5, StoreFields
  <2>. QED BY <1>4, <1>6, <2>1, <2>2 DEF Truthful
<1>9. ClientOK(i, d, w, j, i, shut) /\ BetsOK(i, d, w, core.got, view.bets)
  <2> HIDE DEF i, j, open, w
  <2>1. ~(i > i)
    BY <1>2
  <2>2. ClientOK(i, d, w, j, i, shut)
    BY <1>2, <1>3, <1>5, <2>1 DEF ClientOK
  <2>. QED BY <1>2, <1>3, <2>2, AscendsEmpty DEF BetsOK
<1>10. Touches(m, core, i, d, w, core.joined)
  BY <1>1, <1>3, TouchesClient
<1>11. /\ ClientOK(i, d, w, i \in core.joined, q.inst, q.s.open)
       /\ BetsOK(i, d, w, core.got, q.bets)
  BY <1>6, <1>8, <1>9
<1>12. "closed" \in O!Status /\ SaysSo(core, q, "closed", i, d)
  BY DEF O!Status, SaysSo
<1>13. /\ OnlineOK(core, view, upsets) /\ i \in O!Clients /\ q \in O!Page
       /\ q.inst = view.inst /\ Truthful(q, core)
       /\ \A x \in O!Clients \ {i} : x \in core.joined <=> x \in core.joined
  BY <1>1, <1>6, <1>8
<1>14. view.bets <= q.bets /\ upsets' \in 0 .. MaxSteps /\ q.bets <= upsets'
  BY <1>1, <1>6
<1>15. q.s.open = view.s.open \/ (i = view.inst /\ ~q.s.open)
  BY <1>5, <1>8
<1> HIDE DEF m, i, w
<1>16. OnlineOK(m, [q EXCEPT !.status = "closed"], upsets')
  BY ONLY <1>10, <1>11, <1>12, <1>13, <1>14, <1>15, TouchedOnline
<1>. QED BY <1>1, <1>7, <1>16

\* A visit begins with a client of its own.
LEMMA EntersOnline ==
  ASSUME OnlineOK(core, view, upsets), O!Enter
  PROVE  OnlineOK(core', view', upsets')
<1> DEFINE inst == view.inst
           i == inst + 1
           o == O!OpenSocket(O!NewClient)
           c == o.c
           s == O!G!Connected(view.s)
           m == [core EXCEPT !.cl[i] = c, !.gap = FALSE]
           q == [view EXCEPT !.inst = i, !.s = s, !.status = o.status]
<1>1. /\ ~view.s.open /\ view.inst < MaxClients /\ core' = m /\ view' = q /\ upsets' = upsets
      /\ core \in O!Net /\ view \in O!Page /\ view.inst \in Nat /\ view.s \in O!G!Store
      /\ Truthful(view, core) /\ ServerOK(core) /\ GotAscends(core.got) /\ ClientsOK(core, view)
      /\ upsets \in 0 .. MaxSteps /\ view.bets <= upsets
  BY PageFields DEF O!Enter, OnlineOK
<1>2. i \in O!Clients /\ i \in 0 .. MaxClients /\ inst \in Nat
  BY <1>1, OnlineConstants
<1>3. /\ c \in O!Client(O!Command) /\ c.ws = "connecting" /\ ~c.done /\ ~c.retry
      /\ c.queue = <<>> /\ o.status \in {"reconnecting", "connecting"}
  BY NewClientFields, OpenSocketOK
<1>4. s \in O!G!Store /\ s.mine = view.s.mine /\ s.open = TRUE /\ ~s.timer
  BY <1>1, ConnectedShown
<1> HIDE DEF c, o, s, i
<1>5. Touches(m, core, i, c, core.wire[i], core.joined)
  BY <1>1, <1>2, <1>3, TouchesClient
<1>6. /\ q \in O!Page /\ q.inst = i /\ q.s = s /\ q.t = view.t /\ q.bets = view.bets
      /\ q.status = o.status
  BY <1>1, <1>2, <1>3, <1>4 DEF O!Page, O!Status
<1> HIDE DEF m, q
<1>7. /\ m \in O!Net /\ m.got = core.got /\ m.joined = core.joined /\ SameServer(m, core)
      /\ m.cl[i] = c /\ m.wire[i] = core.wire[i]
      /\ \A j \in O!Clients \ {i} : m.cl[j] = core.cl[j] /\ m.wire[j] = core.wire[j]
  BY <1>5 DEF Touches
<1>8. ServerOK(m) /\ Truthful(q, m) /\ StatusOK(m, q)
  BY <1>1, <1>3, <1>4, <1>6, <1>7 DEF ServerOK, Truthful, StatusOK, SameServer
<1>9. ASSUME NEW j \in O!Clients
      PROVE  /\ ClientOK(j, m.cl[j], m.wire[j], j \in m.joined, q.inst, q.s.open)
             /\ BetsOK(j, m.cl[j], m.wire[j], m.got, q.bets)
  <2> DEFINE e == core.cl[j]
             f == m.cl[j]
             w == core.wire[j]
             h == j \in core.joined
             open == view.s.open
             yes == s.open
  <2>1. /\ ClientOK(j, e, w, h, inst, open) /\ BetsOK(j, e, w, core.got, view.bets)
        /\ ~open /\ yes /\ j \in Nat
    BY <1>1, <1>4, OnlineConstants DEF ClientsOK
  <2>2. /\ j # i => f = e
        /\ j = i => f = c
        /\ m.wire[j] = w /\ (j \in m.joined) = h
    BY <1>7
  <2>3. i = inst + 1
    BY DEF i
  <2> HIDE DEF e, f, w, h, open, yes, inst
  <2>4. CASE j = i
    <3>1. j > inst /\ ~(j > i) /\ i = i
      BY <1>2, <2>1, <2>3, <2>4
    <3>2. e = O!NewClient /\ w = <<>> /\ ~h /\ h \in BOOLEAN
      BY <2>1, <3>1 DEF ClientOK
    <3>3. Len(<<>>) = 0 /\ <<>> \in Seq(O!Command) /\ Len(w) = 0
      BY <3>2
    <3>4. ClientOK(j, f, w, h, i, yes)
      BY <1>3, <2>1, <2>2, <2>4, <3>1, <3>2, <3>3 DEF ClientOK
    <3>5. BetsOK(j, f, w, core.got, view.bets)
      BY <1>3, <2>1, <2>2, <2>4, <3>2, NewClientFields DEF BetsOK
    <3>. QED BY <1>6, <1>7, <2>2, <3>4, <3>5 DEF yes, f, w, h
  <2>5. CASE j # i
    <3>1. (j > i => j > inst) /\ (j <= i => j <= inst)
      BY <1>2, <2>1, <2>3, <2>5
    <3>2. e.done \/ j > inst
      BY <1>2, <2>1 DEF ClientOK
    <3>3. ~(j > inst) \/ j > i
      BY <1>2, <2>1, <2>3, <2>5
    <3>4. ClientOK(j, f, w, h, i, yes)
      <4>1. CASE j > i
        <5>1. j > inst /\ ~(j <= i)
          BY <1>2, <2>1, <2>3, <3>1, <4>1
        <5>. QED BY <2>1, <2>2, <2>5, <4>1, <5>1 DEF ClientOK
      <4>2. CASE ~(j > i)
        <5>1. e.done
          BY <3>2, <3>3, <4>2
        <5>. QED BY <2>1, <2>2, <2>5, <4>2, <5>1 DEF ClientOK
      <4>. QED BY <4>1, <4>2
    <3>5. BetsOK(j, f, w, core.got, view.bets)
      BY <2>1, <2>2, <2>5
    <3>. QED BY <1>6, <1>7, <2>2, <3>4, <3>5 DEF yes, f, w, h
  <2>. QED BY <2>4, <2>5
<1>10. ClientsOK(m, q)
  BY <1>9 DEF ClientsOK
<1>11. GotAscends(m.got) /\ upsets' \in 0 .. MaxSteps /\ q.bets <= upsets'
  BY <1>1, <1>6, <1>7
<1>12. OnlineOK(m, q, upsets')
  BY <1>2, <1>6, <1>7, <1>8, <1>10, <1>11 DEF OnlineOK
<1>. QED BY <1>1, <1>12

-----------------------------------------------------------------------------
(* The server's tables: the theorems *)

LEMMA OnlineBegins ==
  ASSUME O!Init
  PROVE  OnlineOK(core, view, upsets)
<1> DEFINE cl == [i \in O!Clients |-> O!NewClient]
           ws == [i \in O!Clients |-> <<>>]
<1>1. core = [cl |-> cl, wire |-> ws, joined |-> {}, gap |-> FALSE, got |-> <<>>,
              myTurn |-> FALSE, seated |-> TRUE, left |-> Opponents + 1, place |-> 0,
              level |-> 0, over |-> FALSE]
  BY DEF O!Init
<1>2. /\ cl \in [O!Clients -> O!Client(O!Command)] /\ ws \in [O!Clients -> Seq(O!Command)]
      /\ \A i \in O!Clients : cl[i] = O!NewClient /\ ws[i] = <<>>
  BY NewClientFields, EmptyQueue
<1> HIDE DEF cl, ws
<1>3. /\ core \in O!Net /\ core.cl = cl /\ core.wire = ws /\ core.joined = {}
      /\ core.got = <<>>
  BY <1>1, <1>2, OnlineConstants DEF O!Net
<1>4. ServerOK(core) /\ core.level = 0
  BY <1>1, OnlineConstants DEF ServerOK
<1>5. view = [s |-> O!G!EmptyTable, t |-> O!EmptyTourney, inst |-> 0, bets |-> 0,
              status |-> "closed", error |-> "none"]
  BY DEF O!Init
<1>6. /\ view \in O!Page /\ view.s = O!G!EmptyTable /\ view.t = O!EmptyTourney
      /\ view.inst = 0 /\ view.bets = 0 /\ view.status = "closed"
  BY <1>5, EmptyPage, OnlineConstants DEF O!Page, O!Status
<1>7. Truthful(view, core) /\ StatusOK(core, view)
  BY <1>4, <1>6, EmptyPage DEF Truthful, StatusOK
<1>8. upsets = 0 /\ upsets \in 0 .. MaxSteps /\ view.bets <= upsets
  BY <1>6, OnlineConstants DEF O!Init
<1>9. GotAscends(core.got)
  BY <1>3 DEF GotAscends
<1>10. ASSUME NEW i \in O!Clients
       PROVE  /\ ClientOK(i, core.cl[i], core.wire[i], i \in core.joined, view.inst, view.s.open)
              /\ BetsOK(i, core.cl[i], core.wire[i], core.got, view.bets)
  <2> DEFINE c == core.cl[i]
             w == core.wire[i]
             j == i \in core.joined
             inst == view.inst
             open == view.s.open
             got == core.got
  <2>1. /\ c = O!NewClient /\ w = <<>> /\ j \in BOOLEAN /\ ~j /\ inst = 0 /\ got = <<>>
        /\ i > inst /\ ~(i <= inst)
    BY <1>2, <1>3, <1>6, OnlineConstants
  <2> HIDE DEF c, w, j, inst, open, got
  <2>2. ClientOK(i, c, w, j, inst, open)
    BY <2>1, NewClientFields, EmptyQueue DEF ClientOK
  <2>3. BetsOK(i, c, w, got, view.bets)
    BY <2>1, NewClientFields, AscendsEmpty DEF BetsOK
  <2>. QED BY <2>2, <2>3 DEF c, w, j, inst, open, got
<1>11. ClientsOK(core, view)
  BY <1>10 DEF ClientsOK
<1>12. ~view.s.open
  BY <1>6, EmptyPage
<1>. QED BY <1>3, <1>4, <1>6, <1>7, <1>8, <1>9, <1>11, <1>12 DEF OnlineOK

LEMMA OnlineSteps ==
  ASSUME OnlineOK(core, view, upsets), O!Next
  PROVE  OnlineOK(core', view', upsets')
<1>1. CASE O!TurnComes
  BY <1>1, TurnComesOnline
<1>2. CASE O!TurnTimesOut
  BY <1>2, TurnTimesOutOnline
<1>3. ASSUME NEW up \in BOOLEAN, NEW who \in O!Outs, O!HandEnds(up, who)
      PROVE  OnlineOK(core', view', upsets')
  BY <1>3, HandEndsOnline
<1>4. ASSUME NEW i \in O!Clients, O!Read(i) PROVE OnlineOK(core', view', upsets')
  BY <1>4, ReadsOnline
<1>5. ASSUME NEW i \in O!Clients, O!Accept(i) PROVE OnlineOK(core', view', upsets')
  BY <1>5, AcceptsOnline
<1>6. ASSUME NEW i \in O!Clients, O!Drop(i) PROVE OnlineOK(core', view', upsets')
  BY <1>6, DropsOnline
<1>7. ASSUME NEW i \in O!Clients, O!LateClose(i) PROVE OnlineOK(core', view', upsets')
  BY <1>7, LateClosesOnline
<1>8. ASSUME NEW i \in O!Clients, O!RetryFires(i) PROVE OnlineOK(core', view', upsets')
  BY <1>8, RetriesOnline
<1>9. ASSUME NEW i \in O!Clients, NEW stillOpen \in BOOLEAN, O!Refuse(i, stillOpen)
      PROVE  OnlineOK(core', view', upsets')
  BY <1>9, RefusesOnline
<1>10. CASE O!Enter
  BY <1>10, EntersOnline
<1>11. CASE O!Leave \/ O!LeavePlacement \/ O!LeaveStandings
  BY <1>11, LeavesOnline DEF O!LeavePlacement, O!LeaveStandings
<1>12. CASE O!LeaveTable
  BY <1>12, LeavesTableOnline
<1>13. CASE O!Reload
  BY <1>13, ReloadsOnline
<1>14. CASE O!Tap
  BY <1>14, TapsOnline
<1>15. CASE O!PreviewTimesOut
  BY <1>15, PreviewTimesOutOnline
<1>16. CASE O!BriefTimer
  BY <1>16, BriefTimerOnline
<1>. QED BY <1>1, <1>2, <1>3, <1>4, <1>5, <1>6, <1>7, <1>8, <1>9, <1>10, <1>11, <1>12,
            <1>13, <1>14, <1>15, <1>16 DEF O!Next

LEMMA StoreBegins == StoreInit => OnlineInv
<1> SUFFICES ASSUME StoreInit, game = "online" PROVE OnlineOK(core, view, upsets)
  BY DEF OnlineInv
<1>. QED BY OnlineBegins DEF StoreInit

LEMMA StoreSteps == OnlineInv /\ [StoreNext]_storeVars => OnlineInv'
<1> SUFFICES ASSUME OnlineInv, [StoreNext]_storeVars, game' = "online"
             PROVE  OnlineOK(core', view', upsets')
  BY DEF OnlineInv
<1>1. CASE PlayOnline
  BY <1>1, OnlineSteps DEF PlayOnline, OnlineInv
<1>2. CASE PlayNearby \/ PlayDemo
  BY <1>2 DEF PlayNearby, PlayDemo
<1>3. CASE UNCHANGED storeVars
  BY <1>3 DEF storeVars, vars, OnlineInv
<1>. QED BY <1>1, <1>2, <1>3 DEF StoreNext

\* At a table of the server, whatever the network loses and however often the page is left and
\* entered again: a client has a socket only while it is the newest one and its page is open,
\* what is on the wire of a socket begins with the join, and of the bets tapped those that were
\* read are before those on the wire, and these before those still kept.
THEOREM StoreOnlineInvariant == StoreSpec => []OnlineInv
BY StoreBegins, StoreSteps, PTL DEF StoreSpec

\* A socket joins before anything else is read from it, and the bets of a visit are read in
\* the order of the taps, none of them twice.
THEOREM CommandsStayInOrder == StoreSpec => []CommandsInOrder
<1>1. OnlineInv => CommandsInOrder
  <2> SUFFICES ASSUME OnlineOK(core, view, upsets) PROVE O!CommandsInOrder
    BY DEF OnlineInv, CommandsInOrder
  <2>1. ASSUME NEW i \in O!Clients, core.wire[i] # <<>>, i \notin core.joined
        PROVE  Head(core.wire[i]).kind = "hello"
    <3> DEFINE w == core.wire[i]
    <3>1. w \in Seq(O!Command) /\ w # <<>> /\ w[1].kind = "hello"
      BY <2>1, OneClient DEF ClientOK
    <3> HIDE DEF w
    <3>2. Head(w) = w[1]
      BY <3>1
    <3>. QED BY <3>1, <3>2 DEF w
  <2>2. ASSUME NEW j \in DOMAIN core.got, NEW k \in DOMAIN core.got,
               j < k, core.got[j][1] = core.got[k][1]
        PROVE  core.got[j][2] < core.got[k][2]
    <3>1. core.got \in Seq(O!Clients \X (1 .. MaxSteps)) /\ GotAscends(core.got)
      BY NetFields DEF OnlineOK
    <3>2. DOMAIN core.got = 1 .. Len(core.got)
      BY <3>1
    <3>. QED BY <2>2, <3>1, <3>2 DEF GotAscends
  <2>. QED BY <2>1, <2>2 DEF O!CommandsInOrder
<1>. QED BY <1>1, StoreOnlineInvariant, PTL

\* The screens of a table of the server: the place is the player's, the standings are final,
\* and what is said of the connection is so; a visit that was left has no socket.
THEOREM OnlineScreens ==
  StoreSpec => [](game = "online" => O!OnlineTypes /\ O!LeftIsClosed /\ O!ScreensAreTrue)
<1>1. OnlineInv => (game = "online" => O!OnlineTypes /\ O!LeftIsClosed /\ O!ScreensAreTrue)
  <2> SUFFICES ASSUME OnlineOK(core, view, upsets)
               PROVE  O!OnlineTypes /\ O!LeftIsClosed /\ O!ScreensAreTrue
    BY DEF OnlineInv
  <2>1. O!OnlineTypes
    BY DEF OnlineOK, O!OnlineTypes
  <2>2. ASSUME NEW i \in O!Clients, core.cl[i].ws # "none"
        PROVE  i = view.inst /\ view.s.open
    <3> DEFINE c == core.cl[i]
               inst == view.inst
               open == view.s.open
               w == core.wire[i]
               j == i \in core.joined
    <3>1. /\ ClientOK(i, c, w, j, inst, open) /\ c.ws # "none"
          /\ i \in Nat /\ inst \in Nat
      BY <2>2, OneClient
    <3> HIDE DEF c, inst, open, w, j
    <3>2. i = inst /\ open
      BY <3>1, NewClientFields DEF ClientOK
    <3>. QED BY <3>2 DEF inst, open
  <2>3. O!LeftIsClosed
    BY <2>2 DEF O!LeftIsClosed
  <2>4. O!ScreensAreTrue
    BY DEF OnlineOK, Truthful, StatusOK, O!ScreensAreTrue, O!Current, O!ReconnectBannerShown
  <2>. QED BY <2>1, <2>3, <2>4
<1>. QED BY <1>1, StoreOnlineInvariant, PTL

-----------------------------------------------------------------------------
(* The demo: folds *)

LEMMA DemoConstants ==
  /\ D!DemoSeats = 0 .. 5 /\ D!Hero = 0 /\ D!SB = 10 /\ D!BB = 20 /\ D!None = -1
  /\ D!G!None = -1 /\ D!G!MaxRecords = 50 /\ MaxDeals \in Nat /\ MaxTaps \in Nat
BY StorePlayAssumption
   DEF D!DemoSeats, D!Hero, D!SB, D!BB, D!None, D!G!None, D!G!MaxRecords

\* What the store makes of a list of events is the end of a chain of single steps.
LEMMA StoreFolds ==
  ASSUME NEW n \in Nat, NEW T, NEW p \in T, NEW evs, DOMAIN evs = 1 .. n,
         NEW A \in [T \X (1 .. n) -> T],
         \A q \in T, i \in 1 .. n : A[<<q, i>>] = D!G!ApplyEvent(q, evs[i])
  PROVE  D!FoldLeft(D!G!ApplyEvent, p, evs) \in Ends(A, p, n, T)
<1> DEFINE Body(g, s) == IF s = {} THEN p ELSE D!G!ApplyEvent(g[s \ {Max(s)}], evs[Max(s)])
           it == CHOOSE g : g = [s \in SUBSET (1 .. n) |-> Body(g, s)]
<1>0. n \in Nat /\ p \in T /\ A \in [T \X (1 .. n) -> T]
  OBVIOUS
<1>1. D!FoldLeft(D!G!ApplyEvent, p, evs) = it[1 .. n]
  BY DEF D!FoldLeft, D!MapThenFoldSet, D!Max, Max
<1>2. PICK g \in ChainFolds(A, p, n, T) : TRUE
  BY ONLY <1>0, ChainExists
<1>3. \A s \in SUBSET (1 .. n) : s # {} => Max(s) \in 1 .. n /\ s \ {Max(s)} \in SUBSET (1 .. n)
  BY MaxOfNumbers
<1>4. \A s \in SUBSET (1 .. n) : ChainBody(A, p, g, s) = Body(g, s)
  BY <1>3 DEF ChainBody, ChainFolds
<1>5. g = [s \in SUBSET (1 .. n) |-> Body(g, s)]
  BY <1>2, <1>4 DEF ChainFolds
<1>6. it = [s \in SUBSET (1 .. n) |-> Body(it, s)]
  <2> HIDE DEF Body
  <2>. QED BY <1>5
<1> HIDE DEF it
<1>7. \A s \in SUBSET (1 .. n) : it[s] = Body(it, s)
  <2> HIDE DEF Body
  <2>. QED BY <1>6
<1>8. IsFold(A, p, n, T, it)
  BY <1>3, <1>7 DEF ChainBody, IsFold
<1>9. it[1 .. n] \in Ends(A, p, n, T)
  BY ONLY <1>0, <1>8, ChainValues
<1>. QED BY <1>1, <1>9

\* Events that the store takes from T to T.
TakenBy(T, evs, n) ==
  n \in Nat /\ DOMAIN evs = 1 .. n /\ \A q \in T, i \in 1 .. n : D!G!ApplyEvent(q, evs[i]) \in T

\* The store after them.
Told(p, evs) == D!FoldLeft(D!G!ApplyEvent, p, evs)

\* The stores on the way there.
Tellings(T, p, evs, n) ==
  {c \in [0 .. n -> T] :
     c[0] = p /\ \A k \in 1 .. n : c[k] = D!G!ApplyEvent(c[k - 1], evs[k])}

LEMMA StoreChain ==
  ASSUME NEW n, NEW T, NEW p, NEW evs, p \in T, TakenBy(T, evs, n)
  PROVE  \E c \in Tellings(T, p, evs, n) : Told(p, evs) = c[n]
<1> DEFINE A == [x \in T \X (1 .. n) |-> D!G!ApplyEvent(x[1], evs[x[2]])]
<1>1. /\ n \in Nat /\ p \in T /\ DOMAIN evs = 1 .. n /\ A \in [T \X (1 .. n) -> T]
      /\ \A q \in T, i \in 1 .. n : A[<<q, i>>] = D!G!ApplyEvent(q, evs[i])
  BY DEF TakenBy
<1> HIDE DEF A
<1>2. Told(p, evs) \in Ends(A, p, n, T)
  BY ONLY <1>1, StoreFolds DEF Told
<1>3. PICK c \in Chains(A, p, n, T) : Told(p, evs) = c[n]
  BY <1>2 DEF Ends
<1>4. c \in [0 .. n -> T] /\ c[0] = p /\ \A k \in 1 .. n : c[k] = A[<<c[k - 1], k>>]
  BY DEF Chains
<1>5. ASSUME NEW k \in 1 .. n PROVE c[k] = D!G!ApplyEvent(c[k - 1], evs[k])
  <2> DEFINE q == c[k - 1]
  <2>1. q \in T /\ c[k] = A[<<q, k>>]
    BY <1>1, <1>4
  <2> HIDE DEF q
  <2>2. c[k] = D!G!ApplyEvent(q, evs[k])
    BY <1>1, <2>1
  <2>. QED BY <2>2 DEF q
<1>6. c \in Tellings(T, p, evs, n)
  BY <1>4, <1>5 DEF Tellings
<1>. QED BY <1>3, <1>6

\* None, one or three events.
LEMMA StoreApplies ==
  ASSUME NEW n, NEW T, NEW p \in T, NEW evs, TakenBy(T, evs, n),
         NEW r, r = Told(p, evs)
  PROVE  /\ r \in T
         /\ n = 0 => r = p
         /\ n = 1 => r = D!G!ApplyEvent(p, evs[1])
         /\ n = 3 => \E a, b \in T : /\ a = D!G!ApplyEvent(p, evs[1])
                                     /\ b = D!G!ApplyEvent(a, evs[2])
                                     /\ r = D!G!ApplyEvent(b, evs[3])
<1>0. TakenBy(T, evs, n) /\ p \in T
  OBVIOUS
<1>a. PICK c \in Tellings(T, p, evs, n) : Told(p, evs) = c[n]
  BY <1>0, StoreChain
<1>1. /\ c \in [0 .. n -> T]
      /\ c[0] = p /\ Told(p, evs) = c[n]
      /\ \A k \in 1 .. n : c[k] = D!G!ApplyEvent(c[k - 1], evs[k])
  BY <1>a DEF Tellings
<1>2. n \in Nat
  BY DEF TakenBy
<1>3. r \in T /\ (n = 0 => r = p)
  BY <1>1, <1>2
<1>4. ASSUME n = 1 PROVE r = D!G!ApplyEvent(p, evs[1])
  <2>1. c[1] = D!G!ApplyEvent(c[1 - 1], evs[1])
    BY <1>1, <1>4
  <2>. QED BY <1>1, <1>4, <2>1
<1>5. ASSUME n = 3
      PROVE  \E a, b \in T : /\ a = D!G!ApplyEvent(p, evs[1])
                             /\ b = D!G!ApplyEvent(a, evs[2])
                             /\ r = D!G!ApplyEvent(b, evs[3])
  <2>1. c[1] = D!G!ApplyEvent(c[1 - 1], evs[1])
    BY <1>1, <1>5
  <2>2. c[2] = D!G!ApplyEvent(c[2 - 1], evs[2])
    BY <1>1, <1>5
  <2>3. c[3] = D!G!ApplyEvent(c[3 - 1], evs[3])
    BY <1>1, <1>5
  <2>4. c[1] \in T /\ c[2] \in T
    BY <1>1, <1>5
  <2>. QED BY <1>1, <1>5, <2>1, <2>2, <2>3, <2>4
<1>. QED BY <1>3, <1>4, <1>5

\* The fairness records, of any events.
LEMMA RecordsFold ==
  ASSUME NEW n \in Nat, NEW T, NEW p \in T, NEW evs, DOMAIN evs = 1 .. n,
         \A f \in T, i \in 1 .. n : D!Reveals(f, evs[i]) \in T
  PROVE  D!FoldLeft(D!Reveals, p, evs) \in T
<1> DEFINE A == [x \in T \X (1 .. n) |-> D!Reveals(x[1], evs[x[2]])]
           Body(g, s) == IF s = {} THEN p ELSE D!Reveals(g[s \ {Max(s)}], evs[Max(s)])
           it == CHOOSE g : g = [s \in SUBSET (1 .. n) |-> Body(g, s)]
<1>0. n \in Nat /\ p \in T /\ A \in [T \X (1 .. n) -> T]
  OBVIOUS
<1>1. \A f \in T, i \in 1 .. n : A[<<f, i>>] = D!Reveals(f, evs[i])
  OBVIOUS
<1>2. D!FoldLeft(D!Reveals, p, evs) = it[1 .. n]
  BY DEF D!FoldLeft, D!MapThenFoldSet, D!Max, Max
<1> HIDE DEF A
<1>3. PICK g \in ChainFolds(A, p, n, T) : TRUE
  BY ONLY <1>0, ChainExists
<1>4. \A s \in SUBSET (1 .. n) : s # {} => Max(s) \in 1 .. n /\ s \ {Max(s)} \in SUBSET (1 .. n)
  BY MaxOfNumbers
<1>5. \A s \in SUBSET (1 .. n) : ChainBody(A, p, g, s) = Body(g, s)
  BY <1>1, <1>4 DEF ChainBody, ChainFolds
<1>6. g = [s \in SUBSET (1 .. n) |-> Body(g, s)]
  BY <1>3, <1>5 DEF ChainFolds
<1>7. it = [s \in SUBSET (1 .. n) |-> Body(it, s)]
  <2> HIDE DEF Body
  <2>. QED BY <1>6
<1> HIDE DEF it
<1>8. \A s \in SUBSET (1 .. n) : it[s] = Body(it, s)
  <2> HIDE DEF Body
  <2>. QED BY <1>7
<1>9. IsFold(A, p, n, T, it)
  BY <1>1, <1>4, <1>8 DEF ChainBody, IsFold
<1>10. it[1 .. n] \in Ends(A, p, n, T)
  BY ONLY <1>0, <1>9, ChainValues
<1>11. PICK c \in Chains(A, p, n, T) : c[n] = it[1 .. n]
  BY <1>10 DEF Ends
<1>12. c[n] \in T
  BY DEF Chains
<1>. QED BY <1>2, <1>11, <1>12

\* The timers of a script.
LEMMA ScriptFolds ==
  ASSUME NEW n \in Nat, NEW T, NEW p \in T, NEW steps, DOMAIN steps = 1 .. n,
         \A m \in T, i \in 1 .. n : D!After(m, steps[i][1], steps[i][2]) \in T
  PROVE  D!Script(p, steps) \in T
<1> DEFINE A == [x \in T \X (1 .. n) |-> D!After(x[1], steps[x[2]][1], steps[x[2]][2])]
           Then(m, i) == D!After(m, steps[i][1], steps[i][2])
           Body(g, s) == IF s = {} THEN p ELSE Then(g[s \ {Max(s)}], Max(s))
           it == CHOOSE g : g = [s \in SUBSET (1 .. n) |-> Body(g, s)]
<1>0. n \in Nat /\ p \in T /\ A \in [T \X (1 .. n) -> T]
  OBVIOUS
<1>1. \A m \in T, i \in 1 .. n : A[<<m, i>>] = Then(m, i)
  OBVIOUS
<1>2. D!Script(p, steps) = it[1 .. n]
  BY DEF D!Script, D!FoldLeft, D!MapThenFoldSet, D!Max, Max
<1> HIDE DEF A, Then
<1>3. PICK g \in ChainFolds(A, p, n, T) : TRUE
  BY ONLY <1>0, ChainExists
<1>4. \A s \in SUBSET (1 .. n) : s # {} => Max(s) \in 1 .. n /\ s \ {Max(s)} \in SUBSET (1 .. n)
  BY MaxOfNumbers
<1>5. \A s \in SUBSET (1 .. n) : ChainBody(A, p, g, s) = Body(g, s)
  BY <1>1, <1>4 DEF ChainBody, ChainFolds
<1>6. g = [s \in SUBSET (1 .. n) |-> Body(g, s)]
  BY <1>3, <1>5 DEF ChainFolds
<1>7. it = [s \in SUBSET (1 .. n) |-> Body(it, s)]
  <2> HIDE DEF Body
  <2>. QED BY <1>6
<1> HIDE DEF it
<1>8. \A s \in SUBSET (1 .. n) : it[s] = Body(it, s)
  <2> HIDE DEF Body
  <2>. QED BY <1>7
<1>9. IsFold(A, p, n, T, it)
  BY <1>1, <1>4, <1>8 DEF ChainBody, IsFold
<1>10. it[1 .. n] \in Ends(A, p, n, T)
  BY ONLY <1>0, <1>9, ChainValues
<1>11. PICK c \in Chains(A, p, n, T) : c[n] = it[1 .. n]
  BY <1>10 DEF Ends
<1>12. c[n] \in T
  BY DEF Chains
<1>. QED BY <1>2, <1>11, <1>12

-----------------------------------------------------------------------------
(* The demo: what the store makes of an event *)

\* What the felt shows of the mock m: its pot and the stacks of the bots.
BotsShown(s, m) == \A i \in D!DemoSeats \ {D!Hero} : s.stack[i] = m.stack[i]
PotShown(s, m)  == s.pot = m.pot

LEMMA DemoEventTypes ==
  ASSUME NEW ev
  PROVE  /\ ev \in D!G!TableSnapshot => ev.type = "table_snapshot"
         /\ ev \in D!G!SeatUpdate => ev.type = "seat_update"
         /\ ev \in D!G!BetPlaced => ev.type = "bet_placed"
         /\ ev \in D!G!ErrorEvent => ev.type = "error"
         /\ ev \in D!G!HandDealt => ev.type = "hand_dealt"
         /\ ev \in D!G!StreetAdvanced => ev.type = "street_advanced"
         /\ ev \in D!G!Showdown => ev.type = "showdown"
         /\ ev \in D!G!FairReveal \cup D!G!TableStatus =>
              ev.type \in {"fair_reveal", "table_status"}
BY DEF D!G!TableSnapshot, D!G!SeatUpdate, D!G!BetPlaced, D!G!ErrorEvent, D!G!HandDealt,
       D!G!StreetAdvanced, D!G!Showdown, D!G!FairReveal, D!G!TableStatus

LEMMA DemoStoreFields ==
  ASSUME NEW s \in D!G!Store
  PROVE  /\ s.stack \in [D!DemoSeats -> Int] /\ s.last \in [D!DemoSeats -> Int]
         /\ s.out \in SUBSET D!DemoSeats
         /\ s.pot \in Int /\ s.street \in D!G!Street /\ s.turn \in D!G!SeatOrNone
         /\ s.mine \in D!G!SeatOrNone /\ s.running \in BOOLEAN /\ s.pending \in BOOLEAN
         /\ s.timer \in BOOLEAN /\ s.rebuying \in BOOLEAN /\ s.refused \in BOOLEAN
         /\ s.open \in BOOLEAN /\ s.replay \in SUBSET Nat
BY DEF D!G!Store

\* A message is told by its type.
LEMMA EventApplied ==
  ASSUME NEW s, NEW ev
  PROVE  /\ ev \in D!G!TableSnapshot => D!G!ApplyEvent(s, ev) = D!G!OnSnapshot(s, ev)
         /\ ev \in D!G!HandDealt => D!G!ApplyEvent(s, ev) = D!G!OnHandDealt(s, ev)
         /\ ev \in D!G!BetPlaced => D!G!ApplyEvent(s, ev) = D!G!OnBetPlaced(s, ev)
         /\ ev \in D!G!StreetAdvanced => D!G!ApplyEvent(s, ev) = D!G!OnStreetAdvanced(s, ev)
         /\ ev \in D!G!Showdown => D!G!ApplyEvent(s, ev) = D!G!OnShowdown(s, ev)
         /\ ev \in D!G!SeatUpdate => D!G!ApplyEvent(s, ev) = D!G!OnSeatUpdate(s, ev)
         /\ ev \in D!G!ErrorEvent => D!G!ApplyEvent(s, ev) = D!G!OnError(s)
         /\ ev \in D!G!FairReveal \cup D!G!TableStatus => D!G!ApplyEvent(s, ev) = s
<1>1. /\ ev.type = "table_snapshot" =>
           /\ ev \notin D!G!HandDealt /\ ev \notin D!G!BetPlaced /\ ev \notin D!G!StreetAdvanced
           /\ ev \notin D!G!Showdown /\ ev \notin D!G!SeatUpdate /\ ev \notin D!G!ErrorEvent
           /\ ev \notin D!G!FairReveal \cup D!G!TableStatus
      /\ ev.type = "hand_dealt" =>
           /\ ev \notin D!G!TableSnapshot /\ ev \notin D!G!BetPlaced
           /\ ev \notin D!G!StreetAdvanced /\ ev \notin D!G!Showdown
           /\ ev \notin D!G!SeatUpdate /\ ev \notin D!G!ErrorEvent
           /\ ev \notin D!G!FairReveal \cup D!G!TableStatus
      /\ ev.type = "bet_placed" =>
           /\ ev \notin D!G!TableSnapshot /\ ev \notin D!G!HandDealt
           /\ ev \notin D!G!StreetAdvanced /\ ev \notin D!G!Showdown
           /\ ev \notin D!G!SeatUpdate /\ ev \notin D!G!ErrorEvent
           /\ ev \notin D!G!FairReveal \cup D!G!TableStatus
      /\ ev.type = "street_advanced" =>
           /\ ev \notin D!G!TableSnapshot /\ ev \notin D!G!HandDealt /\ ev \notin D!G!BetPlaced
           /\ ev \notin D!G!Showdown /\ ev \notin D!G!SeatUpdate /\ ev \notin D!G!ErrorEvent
           /\ ev \notin D!G!FairReveal \cup D!G!TableStatus
  BY DemoEventTypes
<1>2. /\ ev.type = "showdown" =>
           /\ ev \notin D!G!TableSnapshot /\ ev \notin D!G!HandDealt /\ ev \notin D!G!BetPlaced
           /\ ev \notin D!G!StreetAdvanced /\ ev \notin D!G!SeatUpdate
           /\ ev \notin D!G!ErrorEvent /\ ev \notin D!G!FairReveal \cup D!G!TableStatus
      /\ ev.type = "seat_update" =>
           /\ ev \notin D!G!TableSnapshot /\ ev \notin D!G!HandDealt /\ ev \notin D!G!BetPlaced
           /\ ev \notin D!G!StreetAdvanced /\ ev \notin D!G!Showdown
           /\ ev \notin D!G!ErrorEvent /\ ev \notin D!G!FairReveal \cup D!G!TableStatus
      /\ ev.type = "error" =>
           /\ ev \notin D!G!TableSnapshot /\ ev \notin D!G!HandDealt /\ ev \notin D!G!BetPlaced
           /\ ev \notin D!G!StreetAdvanced /\ ev \notin D!G!Showdown
           /\ ev \notin D!G!SeatUpdate /\ ev \notin D!G!FairReveal \cup D!G!TableStatus
      /\ ev.type \in {"fair_reveal", "table_status"} =>
           /\ ev \notin D!G!TableSnapshot /\ ev \notin D!G!HandDealt /\ ev \notin D!G!BetPlaced
           /\ ev \notin D!G!StreetAdvanced /\ ev \notin D!G!Showdown
           /\ ev \notin D!G!SeatUpdate /\ ev \notin D!G!ErrorEvent
  BY DemoEventTypes
<1>3. ASSUME ev \in D!G!TableSnapshot PROVE D!G!ApplyEvent(s, ev) = D!G!OnSnapshot(s, ev)
  BY <1>1, <1>3, DemoEventTypes DEF D!G!ApplyEvent
<1>4. ASSUME ev \in D!G!HandDealt PROVE D!G!ApplyEvent(s, ev) = D!G!OnHandDealt(s, ev)
  BY <1>1, <1>4, DemoEventTypes DEF D!G!ApplyEvent
<1>5. ASSUME ev \in D!G!BetPlaced PROVE D!G!ApplyEvent(s, ev) = D!G!OnBetPlaced(s, ev)
  BY <1>1, <1>5, DemoEventTypes DEF D!G!ApplyEvent
<1>6. ASSUME ev \in D!G!StreetAdvanced
      PROVE  D!G!ApplyEvent(s, ev) = D!G!OnStreetAdvanced(s, ev)
  BY <1>1, <1>6, DemoEventTypes DEF D!G!ApplyEvent
<1>7. ASSUME ev \in D!G!Showdown PROVE D!G!ApplyEvent(s, ev) = D!G!OnShowdown(s, ev)
  BY <1>2, <1>7, DemoEventTypes DEF D!G!ApplyEvent
<1>8. ASSUME ev \in D!G!SeatUpdate PROVE D!G!ApplyEvent(s, ev) = D!G!OnSeatUpdate(s, ev)
  BY <1>2, <1>8, DemoEventTypes DEF D!G!ApplyEvent
<1>9. ASSUME ev \in D!G!ErrorEvent PROVE D!G!ApplyEvent(s, ev) = D!G!OnError(s)
  BY <1>2, <1>9, DemoEventTypes DEF D!G!ApplyEvent
<1>10. ASSUME ev \in D!G!FairReveal \cup D!G!TableStatus PROVE D!G!ApplyEvent(s, ev) = s
  <2>1. ev.type \in {"fair_reveal", "table_status"}
    BY <1>10, DemoEventTypes
  <2>. QED BY <1>2, <1>10, <2>1 DEF D!G!ApplyEvent
<1>. QED BY <1>3, <1>4, <1>5, <1>6, <1>7, <1>8, <1>9, <1>10

LEMMA DemoSnapshotShown ==
  ASSUME NEW s \in D!G!Store, NEW ev \in D!G!TableSnapshot, NEW r, r = D!G!ApplyEvent(s, ev)
  PROVE  r \in D!G!Store /\ r.stack = ev.stack /\ r.pot = ev.pot /\ r.open = s.open
<1>1. /\ ev.stack \in [D!DemoSeats -> Int] /\ ev.last \in [D!DemoSeats -> Int]
      /\ ev.out \in SUBSET D!DemoSeats /\ ev.pot \in Int /\ ev.street \in D!G!Street
      /\ ev.turn \in D!G!SeatOrNone /\ ev.mine \in D!G!SeatOrNone /\ ev.running \in BOOLEAN
  BY DEF D!G!TableSnapshot
<1> DEFINE q == [s EXCEPT !.stack = ev.stack, !.last = ev.last, !.out = ev.out, !.pot = ev.pot,
                          !.street = ev.street]
           u == [q EXCEPT !.turn = ev.turn, !.mine = ev.mine,
                          !.running = ev.running, !.pending = FALSE, !.timer = FALSE]
<1>2. q \in D!G!Store /\ q.stack = ev.stack /\ q.pot = ev.pot /\ q.open = s.open
  BY <1>1 DEF D!G!Store
<1>3. r = u
  BY EventApplied DEF D!G!OnSnapshot
<1> HIDE DEF q
<1>4. u \in D!G!Store /\ u.stack = q.stack /\ u.pot = q.pot /\ u.open = q.open
  BY <1>1, <1>2 DEF D!G!Store
<1>. QED BY <1>2, <1>3, <1>4

LEMMA DemoHandShown ==
  ASSUME NEW s \in D!G!Store, NEW ev \in D!G!HandDealt, NEW r, r = D!G!ApplyEvent(s, ev)
  PROVE  r \in D!G!Store /\ r.stack = s.stack /\ r.pot = s.pot /\ r.open = s.open
<1>1. ev.seat \in D!G!SeatOrNone
  BY DEF D!G!HandDealt, D!G!SeatOrNone
<1>2. r = D!G!OnHandDealt(s, ev)
  BY EventApplied
<1>. QED BY <1>1, <1>2 DEF D!G!OnHandDealt, D!G!Store, D!G!Street

LEMMA DemoBetShown ==
  ASSUME NEW s \in D!G!Store, NEW ev \in D!G!BetPlaced, NEW r, r = D!G!ApplyEvent(s, ev)
  PROVE  /\ r \in D!G!Store /\ r.stack = [s.stack EXCEPT ![ev.seat] = ev.stack]
         /\ r.pot = ev.pot /\ r.open = s.open /\ r.running = s.running
<1> DEFINE stack == [s.stack EXCEPT ![ev.seat] = ev.stack]
           last == [s.last EXCEPT ![ev.seat] = ev.amount]
           pending == s.pending /\ ev.seat # s.mine
           timer == s.timer /\ ev.seat # s.mine
           replay == s.replay \cup {ev.hand}
           u == [s EXCEPT !.stack = stack, !.last = last, !.pot = ev.pot, !.turn = ev.turn,
                          !.pending = pending, !.timer = timer, !.replay = replay]
<1>1. /\ ev.seat \in D!DemoSeats /\ ev.stack \in Int /\ ev.amount \in Int /\ ev.pot \in Int
      /\ ev.turn \in D!G!SeatOrNone /\ ev.hand \in Nat
  BY DEF D!G!BetPlaced
<1>2. r = u
  <2>1. r = D!G!OnBetPlaced(s, ev)
    BY EventApplied
  <2>. QED BY <2>1 DEF D!G!OnBetPlaced, D!G!Store
<1>3. /\ stack \in [D!DemoSeats -> Int] /\ last \in [D!DemoSeats -> Int] /\ pending \in BOOLEAN
      /\ timer \in BOOLEAN /\ replay \in SUBSET Nat
  BY <1>1, DemoStoreFields
<1> HIDE DEF stack, last, pending, timer, replay
<1>4. /\ u \in D!G!Store /\ u.stack = stack /\ u.pot = ev.pot /\ u.open = s.open
      /\ u.running = s.running
  BY <1>1, <1>3 DEF D!G!Store
<1>. QED BY <1>2, <1>4 DEF stack

LEMMA DemoStreetShown ==
  ASSUME NEW s \in D!G!Store, NEW ev \in D!G!StreetAdvanced, NEW r, r = D!G!ApplyEvent(s, ev)
  PROVE  /\ r \in D!G!Store /\ r.stack = s.stack /\ r.pot = ev.pot /\ r.open = s.open
         /\ r.running = s.running
<1> DEFINE zero == [i \in D!DemoSeats |-> 0]
<1>1. ev.street \in D!G!Street /\ ev.pot \in Int /\ ev.turn \in D!G!SeatOrNone
  BY DEF D!G!StreetAdvanced
<1>2. zero \in [D!DemoSeats -> Int]
  OBVIOUS
<1>3. r = [s EXCEPT !.street = ev.street, !.pot = ev.pot, !.turn = ev.turn, !.last = zero]
  BY EventApplied DEF D!G!OnStreetAdvanced
<1> HIDE DEF zero
<1>. QED BY <1>1, <1>2, <1>3 DEF D!G!Store

LEMMA DemoShowdownShown ==
  ASSUME NEW s \in D!G!Store, NEW ev \in D!G!Showdown, NEW r, r = D!G!ApplyEvent(s, ev)
  PROVE  r \in D!G!Store /\ ~r.running /\ r.open = s.open
<1> DEFINE stack == [i \in D!DemoSeats |-> s.stack[i] + ev.won[i]]
<1>1. ev.won \in [D!DemoSeats -> Int]
  BY DEF D!G!Showdown
<1>2. stack \in [D!DemoSeats -> Int]
  BY <1>1, DemoStoreFields
<1>3. r = [s EXCEPT !.stack = stack, !.street = "Showdown", !.turn = D!G!None, !.running = FALSE]
  BY EventApplied DEF D!G!OnShowdown, D!G!Store
<1> HIDE DEF stack
<1>. QED BY <1>2, <1>3 DEF D!G!Store, D!G!Street, D!G!SeatOrNone

LEMMA DemoSeatsShown ==
  ASSUME NEW s \in D!G!Store, NEW ev \in D!G!SeatUpdate, NEW r, r = D!G!ApplyEvent(s, ev)
  PROVE  /\ r \in D!G!Store /\ r.stack = ev.stack /\ r.pot = s.pot /\ r.open = s.open
         /\ r.running = s.running
<1>1. /\ ev.stack \in [D!DemoSeats -> Int] /\ ev.last \in [D!DemoSeats -> Int]
      /\ ev.out \in SUBSET D!DemoSeats
  BY DEF D!G!SeatUpdate
<1> DEFINE refused == s.refused /\ ~s.rebuying
           u == [s EXCEPT !.stack = ev.stack, !.last = ev.last, !.out = ev.out,
                          !.rebuying = FALSE, !.refused = refused]
<1>2. refused \in BOOLEAN
  BY DemoStoreFields
<1>3. r = u
  BY EventApplied DEF D!G!OnSeatUpdate, D!G!Store
<1> HIDE DEF refused
<1>4. /\ u \in D!G!Store /\ u.stack = ev.stack /\ u.pot = s.pot /\ u.open = s.open
      /\ u.running = s.running
  BY <1>1, <1>2 DEF D!G!Store
<1>. QED BY <1>3, <1>4

LEMMA DemoErrorShown ==
  ASSUME NEW s \in D!G!Store, NEW ev \in D!G!ErrorEvent, NEW r, r = D!G!ApplyEvent(s, ev)
  PROVE  /\ r \in D!G!Store /\ r.stack = s.stack /\ r.pot = s.pot /\ r.open = s.open
         /\ r.running = s.running
<1>1. r = D!G!OnError(s)
  BY EventApplied
<1>2. CASE s.rebuying
  <2>1. r = [s EXCEPT !.timer = FALSE, !.rebuying = FALSE, !.refused = TRUE]
    BY <1>1, <1>2 DEF D!G!OnError
  <2>. QED BY <2>1 DEF D!G!Store
<1>3. CASE ~s.rebuying
  <2>1. r = [s EXCEPT !.timer = FALSE, !.pending = FALSE]
    BY <1>1, <1>3 DEF D!G!OnError
  <2>. QED BY <2>1 DEF D!G!Store
<1>. QED BY <1>2, <1>3

-----------------------------------------------------------------------------
(* The demo: the mock *)

\* A bet of the player is still to be confirmed.
Confirming(m) == \E i \in DOMAIN m.timers : m.timers[i].what = "confirm"

\* What m may become by more timers.
WithTimers(m) ==
  {q \in D!Mock :
     /\ q.hand = m.hand /\ q.stack = m.stack /\ q.last = m.last /\ q.out = m.out
     /\ q.pot = m.pot /\ q.street = m.street /\ (Confirming(m) => Confirming(q))}

LEMMA MockFields ==
  ASSUME NEW m \in D!Mock
  PROVE  /\ m.hand \in Nat /\ m.stack \in [D!DemoSeats -> Int] /\ m.last \in [D!DemoSeats -> Int]
         /\ m.out \in BOOLEAN /\ m.pot \in Int
         /\ m.street \in {"none", "Preflop", "Flop", "Turn", "River"}
         /\ m.timers \in Seq(D!TimerRecord)
BY DEF D!Mock

LEMMA TimerFields ==
  ASSUME NEW t \in D!TimerRecord
  PROVE  /\ t.ms \in Nat /\ t.what \in D!TimerKind /\ t.same \in BOOLEAN /\ t.stack \in Int
         /\ t.amount \in Int
BY DEF D!TimerRecord

LEMMA TimersTyped ==
  ASSUME NEW m \in D!Mock
  PROVE  /\ DOMAIN m.timers = 1 .. Len(m.timers) /\ Len(m.timers) \in Nat
         /\ \A i \in DOMAIN m.timers : m.timers[i] \in D!TimerRecord
<1> DEFINE q == m.timers
<1>1. q \in Seq(D!TimerRecord)
  BY MockFields
<1> HIDE DEF q
<1>2. DOMAIN q = 1 .. Len(q) /\ Len(q) \in Nat /\ \A i \in DOMAIN q : q[i] \in D!TimerRecord
  BY <1>1
<1>. QED BY <1>2 DEF q

\* One more timer.
LEMMA TimerAdded ==
  ASSUME NEW m \in D!Mock, NEW t \in D!TimerRecord, NEW r,
         r = [m EXCEPT !.timers = Append(@, t)]
  PROVE  r \in WithTimers(m) /\ (t.what = "confirm" => Confirming(r))
<1> DEFINE q == m.timers
           a == Append(q, t)
<1>1. q \in Seq(D!TimerRecord)
  BY MockFields
<1>2. r = [m EXCEPT !.timers = a]
  BY DEF D!Mock
<1> HIDE DEF q
<1>3. /\ a \in Seq(D!TimerRecord) /\ DOMAIN a = 1 .. Len(q) + 1 /\ a[Len(q) + 1] = t
      /\ \A i \in DOMAIN q : i \in DOMAIN a /\ a[i] = q[i]
      /\ Len(q) + 1 \in DOMAIN a
  BY <1>1
<1> HIDE DEF a
<1>4. /\ r \in D!Mock /\ r.timers = a /\ r.hand = m.hand /\ r.stack = m.stack
      /\ r.last = m.last /\ r.out = m.out /\ r.pot = m.pot /\ r.street = m.street
  BY <1>2, <1>3 DEF D!Mock
<1>5. Confirming(m) => Confirming(r)
  BY <1>3, <1>4 DEF Confirming, q
<1>6. t.what = "confirm" => Confirming(r)
  BY <1>3, <1>4 DEF Confirming
<1>. QED BY <1>4, <1>5, <1>6 DEF WithTimers

LEMMA WithTimersTwice ==
  ASSUME NEW m, NEW q \in WithTimers(m), NEW r \in WithTimers(q)
  PROVE  r \in WithTimers(m)
BY DEF WithTimers

LEMMA AfterAdds ==
  ASSUME NEW m, NEW q \in WithTimers(m), NEW ms \in Nat, NEW what \in D!TimerKind
  PROVE  D!After(q, ms, what) \in WithTimers(m)
<1> DEFINE t == D!Timer(ms, what)
<1>1. t \in D!TimerRecord
  BY DEF D!Timer, D!TimerRecord
<1>2. q \in D!Mock
  BY DEF WithTimers
<1>3. D!After(q, ms, what) = [q EXCEPT !.timers = Append(@, t)]
  BY DEF D!After
<1> HIDE DEF t
<1>4. D!After(q, ms, what) \in WithTimers(q)
  BY <1>1, <1>2, <1>3, TimerAdded
<1>. QED BY <1>4, WithTimersTwice

\* A script's steps.
StepsTyped(steps, n) ==
  n \in Nat /\ DOMAIN steps = 1 .. n
  /\ \A i \in 1 .. n : steps[i][1] \in Nat /\ steps[i][2] \in D!TimerKind

LEMMA ScriptAdds ==
  ASSUME NEW m \in D!Mock, NEW n, NEW steps, StepsTyped(steps, n)
  PROVE  D!Script(m, steps) \in WithTimers(m)
<1> DEFINE T == WithTimers(m)
<1>1. m \in T
  BY DEF WithTimers
<1>2. n \in Nat /\ DOMAIN steps = 1 .. n
  BY DEF StepsTyped
<1>3. \A q \in T, i \in 1 .. n : D!After(q, steps[i][1], steps[i][2]) \in T
  BY AfterAdds DEF StepsTyped
<1> HIDE DEF T
<1>4. D!Script(m, steps) \in T
  BY ONLY <1>1, <1>2, <1>3, ScriptFolds
<1>. QED BY <1>4 DEF T

LEMMA ScriptOfDeal == StepsTyped(<< <<700, "fold">>, <<1400, "call">>, <<2100, "actor">> >>, 3)
BY DEF StepsTyped, D!TimerKind

LEMMA ScriptOfEnter == StepsTyped(<< <<260, "deal">> >>, 1)
BY DEF StepsTyped, D!TimerKind

LEMMA ScriptOfShowdown == StepsTyped(<< <<500, "reveal">>, <<2600, "deal">> >>, 2)
BY DEF StepsTyped, D!TimerKind

LEMMA ScriptOfBet ==
  StepsTyped(<< <<900, "call">>, <<1500, "Flop">>, <<2600, "Turn">>,
                <<3700, "River">>, <<4800, "showdown">> >>, 5)
BY DEF StepsTyped, D!TimerKind

\* One timer less: it was set, and any other to confirm a bet is still there.
LEMMA TimerFired ==
  ASSUME NEW m \in D!Mock, NEW i \in DOMAIN m.timers, NEW r,
         r = [m EXCEPT !.timers = D!RemoveAt(@, i)]
  PROVE  /\ r \in D!Mock /\ r.hand = m.hand /\ r.stack = m.stack
         /\ r.last = m.last /\ r.out = m.out /\ r.pot = m.pot /\ r.street = m.street
         /\ m.timers[i] \in D!TimerRecord
         /\ m.timers[i].what # "confirm" /\ Confirming(m) => Confirming(r)
<1> DEFINE q == m.timers
           a == D!RemoveAt(q, i)
<1>1. /\ q \in Seq(D!TimerRecord) /\ i \in 1 .. Len(q) /\ q[i] \in D!TimerRecord
      /\ Len(q) \in Nat /\ DOMAIN q = 1 .. Len(q)
  BY MockFields, TimersTyped
<1>2. r = [m EXCEPT !.timers = a]
  BY DEF D!Mock
<1> HIDE DEF q
<1>3. a = SubSeq(q, 1, i - 1) \o SubSeq(q, i + 1, Len(q))
  BY DEF D!RemoveAt
<1> DEFINE u == SubSeq(q, 1, i - 1)
           v == SubSeq(q, i + 1, Len(q))
<1>4. /\ u \in Seq(D!TimerRecord) /\ Len(u) = i - 1
      /\ \A k \in 1 .. i - 1 : u[k] = q[k]
  BY <1>1
<1>5. /\ v \in Seq(D!TimerRecord) /\ Len(v) = Len(q) - i
      /\ \A k \in 1 .. Len(q) - i : v[k] = q[k + i]
  BY <1>1
<1>a. a = u \o v
  BY <1>3
<1> HIDE DEF u, v, a
<1>6. a \in Seq(D!TimerRecord) /\ Len(a) = Len(q) - 1 /\ DOMAIN a = 1 .. Len(q) - 1
      /\ \A k \in 1 .. Len(a) : a[k] = IF k <= i - 1 THEN u[k] ELSE v[k - (i - 1)]
  <2>1. /\ a \in Seq(D!TimerRecord) /\ Len(a) = Len(u) + Len(v)
        /\ \A k \in 1 .. Len(u) + Len(v) :
             a[k] = IF k <= Len(u) THEN u[k] ELSE v[k - Len(u)]
    BY ONLY <1>a, <1>4, <1>5, ConcatProperties
  <2>2. DOMAIN a = 1 .. Len(a)
    BY <2>1
  <2>. QED BY ONLY <1>1, <1>4, <1>5, <2>1, <2>2
<1>7. ASSUME NEW k \in 1 .. Len(q), k # i PROVE \E j \in DOMAIN a : a[j] = q[k]
  <2>1. CASE k < i
    <3>1. k \in DOMAIN a /\ a[k] = u[k] /\ u[k] = q[k]
      BY <1>1, <1>4, <1>6, <2>1
    <3>. QED BY <3>1
  <2>2. CASE k > i
    <3> DEFINE j == k - 1
    <3>1. j \in 1 .. Len(q) - 1 /\ j - (i - 1) \in 1 .. Len(q) - i /\ j - (i - 1) + i = k
          /\ ~(j <= i - 1)
      BY <1>1, <2>2
    <3>2. a[j] = v[j - (i - 1)] /\ v[j - (i - 1)] = q[k]
      BY <1>5, <1>6, <3>1
    <3>. QED BY <1>6, <3>1, <3>2
  <2>. QED BY <1>1, <1>7, <2>1, <2>2
<1>8. /\ r \in D!Mock /\ r.timers = a /\ r.hand = m.hand /\ r.stack = m.stack
      /\ r.last = m.last /\ r.out = m.out /\ r.pot = m.pot /\ r.street = m.street
  BY <1>2, <1>6 DEF D!Mock
<1>9. ASSUME q[i].what # "confirm", Confirming(m) PROVE Confirming(r)
  <2>1. PICK k \in 1 .. Len(q) : q[k].what = "confirm"
    BY <1>1, <1>9 DEF Confirming, q
  <2>2. PICK j \in DOMAIN a : a[j] = q[k]
    BY <1>7, <1>9, <2>1
  <2>. QED BY <1>8, <2>1, <2>2 DEF Confirming
<1>. QED BY <1>1, <1>8, <1>9 DEF q

\* The timers are kept, what they remember apart.
LEMMA TimersChanged ==
  ASSUME NEW m \in D!Mock, NEW C \in [DOMAIN m.timers -> D!TimerRecord],
         \A i \in DOMAIN m.timers : C[i].what = m.timers[i].what,
         NEW r, r = [m EXCEPT !.timers = C]
  PROVE  r \in WithTimers(m)
<1>1. C \in Seq(D!TimerRecord)
  <2> DEFINE k == Len(m.timers)
  <2>1. k \in Nat /\ C \in [1 .. k -> D!TimerRecord]
    BY TimersTyped
  <2> HIDE DEF k
  <2>. QED BY <2>1, IsASeq
<1>2. /\ r \in D!Mock /\ r.timers = C /\ r.hand = m.hand /\ r.stack = m.stack
      /\ r.last = m.last /\ r.out = m.out /\ r.pot = m.pot /\ r.street = m.street
  BY <1>1 DEF D!Mock
<1>3. Confirming(m) => Confirming(r)
  BY <1>2 DEF Confirming
<1>. QED BY <1>2, <1>3 DEF WithTimers

LEMMA CopiedTyped ==
  ASSUME NEW m \in D!Mock PROVE D!Copied(m) \in WithTimers(m)
<1> DEFINE C == [i \in DOMAIN m.timers |-> [m.timers[i] EXCEPT !.same = FALSE]]
<1>1. ASSUME NEW i \in DOMAIN m.timers
      PROVE  C[i] \in D!TimerRecord /\ C[i].what = m.timers[i].what
  <2> DEFINE t == m.timers[i]
  <2>1. t \in D!TimerRecord /\ C[i] = [t EXCEPT !.same = FALSE]
    BY TimersTyped
  <2> HIDE DEF t, C
  <2>2. C[i] \in D!TimerRecord /\ C[i].what = t.what
    BY <2>1 DEF D!TimerRecord
  <2>. QED BY <2>2 DEF t
<1>2. D!Copied(m) = [m EXCEPT !.timers = C]
  BY DEF D!Copied, D!Mock
<1>3. C \in [DOMAIN m.timers -> D!TimerRecord]
  BY <1>1
<1>4. \A i \in DOMAIN m.timers : C[i].what = m.timers[i].what
  BY <1>1
<1> HIDE DEF C
<1>. QED BY <1>2, <1>3, <1>4, TimersChanged

LEMMA RereadTyped ==
  ASSUME NEW m \in D!Mock PROVE D!Reread(m) \in WithTimers(m)
<1> DEFINE s == m.stack[D!Hero]
           l == m.last[D!Hero]
           C == [i \in DOMAIN m.timers |->
                   IF m.timers[i].same THEN [m.timers[i] EXCEPT !.stack = s, !.amount = l]
                   ELSE m.timers[i]]
<1>0. s \in Int /\ l \in Int
  BY MockFields, DemoConstants
<1>1. ASSUME NEW i \in DOMAIN m.timers
      PROVE  C[i] \in D!TimerRecord /\ C[i].what = m.timers[i].what
  <2> DEFINE t == m.timers[i]
  <2>1. t \in D!TimerRecord
        /\ C[i] = IF t.same THEN [t EXCEPT !.stack = s, !.amount = l] ELSE t
    BY TimersTyped
  <2> HIDE DEF t, C, s, l
  <2>2. C[i] \in D!TimerRecord /\ C[i].what = t.what
    BY <1>0, <2>1 DEF D!TimerRecord
  <2>. QED BY <2>2 DEF t
<1>2. D!Reread(m) = [m EXCEPT !.timers = C]
  BY DEF D!Reread, D!Mock
<1>3. C \in [DOMAIN m.timers -> D!TimerRecord]
  BY <1>1
<1>4. \A i \in DOMAIN m.timers : C[i].what = m.timers[i].what
  BY <1>1
<1> HIDE DEF C
<1>. QED BY <1>2, <1>3, <1>4, TimersChanged

-----------------------------------------------------------------------------
(* The demo: what the mock tells *)

DemoEvents ==
  D!G!TableSnapshot \cup D!G!HandDealt \cup D!G!BetPlaced \cup D!G!StreetAdvanced
  \cup D!G!Showdown \cup D!G!SeatUpdate \cup D!G!ErrorEvent \cup D!G!FairReveal
  \cup D!G!TableStatus

EventsTyped(evs, n) ==
  n \in Nat /\ DOMAIN evs = 1 .. n /\ \A i \in 1 .. n : evs[i] \in DemoEvents

LEMMA EventTaken ==
  ASSUME NEW s \in D!G!Store, NEW ev \in DemoEvents
  PROVE  D!G!ApplyEvent(s, ev) \in D!G!Store
<1>1. CASE ev \in D!G!TableSnapshot
  BY <1>1, DemoSnapshotShown
<1>2. CASE ev \in D!G!HandDealt
  BY <1>2, DemoHandShown
<1>3. CASE ev \in D!G!BetPlaced
  BY <1>3, DemoBetShown
<1>4. CASE ev \in D!G!StreetAdvanced
  BY <1>4, DemoStreetShown
<1>5. CASE ev \in D!G!Showdown
  BY <1>5, DemoShowdownShown
<1>6. CASE ev \in D!G!SeatUpdate
  BY <1>6, DemoSeatsShown
<1>7. CASE ev \in D!G!ErrorEvent
  BY <1>7, DemoErrorShown
<1>8. CASE ev \in D!G!FairReveal \cup D!G!TableStatus
  BY <1>8, EventApplied
<1>. QED BY <1>1, <1>2, <1>3, <1>4, <1>5, <1>6, <1>7, <1>8 DEF DemoEvents

LEMMA EventsTaken ==
  ASSUME NEW evs, NEW n, EventsTyped(evs, n)
  PROVE  TakenBy(D!G!Store, evs, n)
BY EventTaken DEF EventsTyped, TakenBy

LEMMA NothingTold ==
  ASSUME NEW s \in D!G!Store PROVE Told(s, <<>>) = s /\ EventsTyped(<<>>, 0)
<1> DEFINE evs == <<>>
           r == Told(s, evs)
<1>1. EventsTyped(evs, 0)
  BY DEF EventsTyped
<1>2. TakenBy(D!G!Store, evs, 0)
  BY <1>1, EventsTaken
<1>3. r = Told(s, evs)
  OBVIOUS
<1> HIDE DEF evs, r
<1>4. r = s
  BY <1>2, <1>3, StoreApplies
<1>. QED BY <1>1, <1>4 DEF evs, r

LEMMA OneTold ==
  ASSUME NEW s \in D!G!Store, NEW ev \in DemoEvents
  PROVE  Told(s, <<ev>>) = D!G!ApplyEvent(s, ev) /\ EventsTyped(<<ev>>, 1)
<1> DEFINE evs == <<ev>>
           r == Told(s, evs)
<1>1. EventsTyped(evs, 1) /\ evs[1] = ev
  BY DEF EventsTyped
<1>2. TakenBy(D!G!Store, evs, 1)
  BY <1>1, EventsTaken
<1>3. r = Told(s, evs)
  OBVIOUS
<1> HIDE DEF evs, r
<1>4. r = D!G!ApplyEvent(s, evs[1])
  BY <1>2, <1>3, StoreApplies
<1>. QED BY <1>1, <1>4 DEF evs, r

LEMMA ThreeTold ==
  ASSUME NEW s \in D!G!Store, NEW e \in DemoEvents, NEW f \in DemoEvents, NEW g \in DemoEvents
  PROVE  /\ EventsTyped(<<e, f, g>>, 3)
         /\ \E a, b \in D!G!Store : /\ a = D!G!ApplyEvent(s, e) /\ b = D!G!ApplyEvent(a, f)
                                    /\ Told(s, <<e, f, g>>) = D!G!ApplyEvent(b, g)
<1> DEFINE evs == <<e, f, g>>
           r == Told(s, evs)
<1>1. EventsTyped(evs, 3) /\ evs[1] = e /\ evs[2] = f /\ evs[3] = g
  BY DEF EventsTyped
<1>2. TakenBy(D!G!Store, evs, 3)
  BY <1>1, EventsTaken
<1>3. r = Told(s, evs)
  OBVIOUS
<1> HIDE DEF evs, r
<1>4. \E a, b \in D!G!Store : /\ a = D!G!ApplyEvent(s, evs[1]) /\ b = D!G!ApplyEvent(a, evs[2])
                              /\ r = D!G!ApplyEvent(b, evs[3])
  BY <1>2, <1>3, StoreApplies
<1>. QED BY <1>1, <1>4 DEF evs, r

\* The fairness records after a reveal.
LEMMA RevealRecorded ==
  ASSUME NEW f \in Seq(D!G!FairnessRecord), NEW hand \in Nat
  PROVE  D!G!OnFairReveal(f, hand) \in Seq(D!G!FairnessRecord)
<1> DEFINE x == [hand |-> hand, verified |-> "pending"]
           h == <<x>>
           g == h \o f
           k == D!G!Min({Len(g), 50})
<1>1. h \in Seq(D!G!FairnessRecord)
  BY DEF D!G!FairnessRecord
<1> HIDE DEF h
<1>2. g \in Seq(D!G!FairnessRecord) /\ Len(g) \in Nat
  BY <1>1
<1> HIDE DEF g
<1>3. k \in Int /\ k <= Len(g)
  <2> DEFINE l == Len(g)
  <2>1. l \in Nat
    BY <1>2
  <2>2. k = D!G!Min({l, 50})
    OBVIOUS
  <2> HIDE DEF l, k
  <2>3. k \in {l, 50} /\ \A y \in {l, 50} : k <= y
    <3> DEFINE P(z) == z \in {l, 50} /\ \A y \in {l, 50} : z <= y
    <3>4. l <= 50 => P(l)
      BY <2>1
    <3>5. ~(l <= 50) => P(50)
      BY <2>1
    <3>1. \E z : P(z)
      <4> HIDE DEF P
      <4>. QED BY <3>4, <3>5
    <3>2. P(CHOOSE z : P(z))
      <4> HIDE DEF P
      <4>. QED BY <3>1
    <3>. QED BY <2>1, <2>2, <3>1 DEF D!G!Min
  <2>. QED BY <2>1, <2>3 DEF l
<1> HIDE DEF k
<1>4. SubSeq(g, 1, k) \in Seq(D!G!FairnessRecord)
  BY <1>2, <1>3
<1>5. D!G!OnFairReveal(f, hand) = SubSeq(g, 1, k)
  BY DEF D!G!OnFairReveal, D!G!MaxRecords, g, h, k
<1>. QED BY <1>4, <1>5

LEMMA RecordsTyped ==
  ASSUME NEW f \in Seq(D!G!FairnessRecord), NEW evs, NEW n, EventsTyped(evs, n)
  PROVE  D!FoldLeft(D!Reveals, f, evs) \in Seq(D!G!FairnessRecord)
<1> DEFINE T == Seq(D!G!FairnessRecord)
<1>1. n \in Nat /\ DOMAIN evs = 1 .. n /\ f \in T
  BY DEF EventsTyped
<1>2. ASSUME NEW q \in T, NEW i \in 1 .. n PROVE D!Reveals(q, evs[i]) \in T
  <2> DEFINE ev == evs[i]
  <2>1. ev \in DemoEvents
    BY DEF EventsTyped
  <2> HIDE DEF ev
  <2>2. ev.type = "fair_reveal" => ev.hand \in Nat
    <3>1. ev.type = "fair_reveal" => ev \in D!G!FairReveal \cup D!G!TableStatus
      BY <2>1, DemoEventTypes DEF DemoEvents
    <3>2. ev \in D!G!TableStatus => ev.type = "table_status"
      BY DEF D!G!TableStatus
    <3>3. ev \in D!G!FairReveal => ev.hand \in Nat
      BY DEF D!G!FairReveal
    <3>. QED BY <3>1, <3>2, <3>3
  <2>3. D!Reveals(q, ev) \in T
    BY <2>2, RevealRecorded DEF D!Reveals
  <2>. QED BY <2>3 DEF ev
<1> HIDE DEF T
<1>3. D!FoldLeft(D!Reveals, f, evs) \in T
  BY ONLY <1>1, <1>2, RecordsFold
<1>. QED BY <1>3 DEF T

-----------------------------------------------------------------------------
(* The demo: callbacks and commands of the mock *)

\* What the felt s shows is so of the mock m, while a hand is shown.
Agrees(m, s) == s.running => (Confirming(m) \/ s.pot = m.pot) /\ BotsShown(s, m)

\* A callback that makes m of the mock and tells evs, n of them, leaves the felt right.
Serves(m, evs, n, s) ==
  /\ m \in D!Mock /\ EventsTyped(evs, n)
  /\ Told(s, evs) \in D!G!Store /\ Told(s, evs).open = s.open /\ Agrees(m, Told(s, evs))

LEMMA MockSnapshots ==
  ASSUME NEW m \in D!Mock, NEW turn, turn \in D!G!SeatOrNone
  PROVE  /\ D!Snapshot(m, turn) \in D!G!TableSnapshot
         /\ D!Snapshot(m, turn).stack = m.stack /\ D!Snapshot(m, turn).pot = m.pot
<1>1. D!Out(m) \in SUBSET D!DemoSeats /\ D!Hero \in D!G!SeatOrNone
  BY DemoConstants DEF D!Out, D!G!SeatOrNone
<1>2. m.street \in D!G!Street
  BY MockFields DEF D!G!Street
<1>. QED BY <1>1, <1>2, MockFields DEF D!Snapshot, D!G!TableSnapshot

LEMMA MockSeats ==
  ASSUME NEW m \in D!Mock
  PROVE  D!SeatUpdate(m) \in D!G!SeatUpdate /\ D!SeatUpdate(m).stack = m.stack
<1>1. D!Out(m) \in SUBSET D!DemoSeats
  BY DemoConstants DEF D!Out
<1>. QED BY <1>1, MockFields DEF D!SeatUpdate, D!G!SeatUpdate

LEMMA MockBets ==
  ASSUME NEW m \in D!Mock, NEW i \in D!DemoSeats, NEW amount \in Int, NEW stack \in Int,
         NEW turn, turn \in D!G!SeatOrNone, NEW ev, ev = D!BetPlaced(m, i, amount, stack, turn)
  PROVE  ev \in D!G!BetPlaced /\ ev.seat = i /\ ev.stack = stack /\ ev.pot = m.pot
BY MockFields DEF D!BetPlaced, D!G!BetPlaced

LEMMA DemoTurns == -1 \in D!G!SeatOrNone /\ \A i \in 0 .. 5 : i \in D!G!SeatOrNone
BY DemoConstants DEF D!G!SeatOrNone

LEMMA AgreesWithMore ==
  ASSUME NEW m, NEW q \in WithTimers(m), NEW s, Agrees(m, s)
  PROVE  Agrees(q, s)
BY DEF WithTimers, Agrees, BotsShown

\* The felt is as the mock is, or shows no hand.
LEMMA AgreesNow ==
  ASSUME NEW m, NEW s, s.running => s.pot = m.pot /\ s.stack = m.stack
  PROVE  Agrees(m, s)
BY DEF Agrees, BotsShown

LEMMA DealServes ==
  ASSUME NEW m \in D!Mock, NEW s \in D!G!Store
  PROVE  Serves(D!DealHand(m).m, D!DealHand(m).ev, 3, s)
<1> DEFINE c == D!Copied(m)
           stack == [i \in D!DemoSeats |-> D!Dealt[i + 1]]
           last == [i \in D!DemoSeats |-> CASE i = 3 -> D!SB [] i = 4 -> D!BB [] OTHER -> 0]
           hand == c.hand + 1
           pot == D!SB + D!BB
           d == [c EXCEPT !.hand = hand, !.stack = stack, !.last = last,
                          !.out = FALSE, !.pot = pot, !.street = "Preflop"]
           steps == << <<700, "fold">>, <<1400, "call">>, <<2100, "actor">> >>
           m2 == D!Script(d, steps)
           e == D!Snapshot(d, 5)
           f == [type |-> "hand_dealt", seat |-> D!Hero]
           g == [type |-> "table_status"]
<1>1. c \in D!Mock
  BY CopiedTyped DEF WithTimers
<1>2. stack \in [D!DemoSeats -> Int]
  BY DemoConstants DEF D!Dealt
<1>3. last \in [D!DemoSeats -> Int]
  <2>1. \A i \in D!DemoSeats : (CASE i = 3 -> D!SB [] i = 4 -> D!BB [] OTHER -> 0) \in Int
    BY DemoConstants
  <2>. QED BY <2>1
<1>4. pot \in Int /\ hand \in Nat
  BY <1>1, MockFields, DemoConstants
<1>5. D!DealHand(m) = [m |-> m2, ev |-> <<e, f, g>>]
  <2>1. d = [c EXCEPT !.hand = @ + 1, !.stack = stack, !.last = last,
                      !.out = FALSE, !.pot = D!SB + D!BB, !.street = "Preflop"]
    BY <1>1 DEF D!Mock
  <2>. QED BY <2>1 DEF D!DealHand, D!Gives
<1> HIDE DEF c, stack, last, hand, pot
<1>6. d \in D!Mock
  BY <1>1, <1>2, <1>3, <1>4 DEF D!Mock
<1> HIDE DEF d
<1>7. m2 \in WithTimers(d)
  <2>1. StepsTyped(steps, 3)
    BY ScriptOfDeal
  <2> HIDE DEF steps
  <2>. QED BY <1>6, <2>1, ScriptAdds
<1>8. e \in D!G!TableSnapshot /\ e.stack = d.stack /\ e.pot = d.pot
  <2>1. 5 \in D!G!SeatOrNone
    BY DemoTurns
  <2>. QED BY <1>6, <2>1, MockSnapshots
<1>9. f \in D!G!HandDealt /\ g \in D!G!TableStatus
  BY DemoConstants DEF D!G!HandDealt, D!G!TableStatus
<1> HIDE DEF m2, e, f, g
<1>10. e \in DemoEvents /\ f \in DemoEvents /\ g \in DemoEvents
  BY <1>8, <1>9 DEF DemoEvents
<1> DEFINE r == Told(s, <<e, f, g>>)
<1>11. /\ EventsTyped(<<e, f, g>>, 3)
       /\ \E a, b \in D!G!Store : /\ a = D!G!ApplyEvent(s, e) /\ b = D!G!ApplyEvent(a, f)
                                  /\ r = D!G!ApplyEvent(b, g)
  BY <1>10, ThreeTold
<1> HIDE DEF r
<1>12. PICK a \in D!G!Store, b \in D!G!Store :
         a = D!G!ApplyEvent(s, e) /\ b = D!G!ApplyEvent(a, f) /\ r = D!G!ApplyEvent(b, g)
  BY <1>11
<1>13. a.stack = d.stack /\ a.pot = d.pot /\ a.open = s.open
  BY <1>8, <1>12, DemoSnapshotShown
<1>14. b.stack = a.stack /\ b.pot = a.pot /\ b.open = a.open
  BY <1>9, <1>12, DemoHandShown
<1>15. r = b
  BY <1>9, <1>12, EventApplied
<1>16. Agrees(d, r)
  BY <1>13, <1>14, <1>15, AgreesNow
<1>17. Agrees(m2, r)
  BY <1>7, <1>16, AgreesWithMore
<1>18. m2 \in D!Mock
  BY <1>7 DEF WithTimers
<1>19. Serves(m2, <<e, f, g>>, 3, s)
  BY <1>11, <1>12, <1>13, <1>14, <1>15, <1>17, <1>18 DEF Serves, r
<1>. QED BY <1>5, <1>19

LEMMA BotServes ==
  ASSUME NEW m \in D!Mock, NEW s \in D!G!Store, Agrees(m, s),
         NEW i \in D!DemoSeats, NEW put \in Int
  PROVE  Serves(D!BotAction(m, i, put).m, D!BotAction(m, i, put).ev, 1, s)
<1> DEFINE left == m.stack[i] - put
           stack == [m.stack EXCEPT ![i] = left]
           last == [m.last EXCEPT ![i] = put]
           pot == m.pot + put
           n == [m EXCEPT !.stack = stack, !.pot = pot, !.last = last]
           ev == D!BetPlaced(n, i, put, n.stack[i], D!None)
<1>1. /\ left \in Int /\ pot \in Int /\ stack \in [D!DemoSeats -> Int] /\ stack[i] = left
      /\ last \in [D!DemoSeats -> Int]
  BY MockFields
<1>2. D!BotAction(m, i, put) = [m |-> n, ev |-> <<ev>>]
  BY DEF D!BotAction, D!Gives, D!Mock
<1> HIDE DEF left, last, pot
<1>3. n \in D!Mock /\ n.stack = stack /\ n.pot = pot /\ n.timers = m.timers
  <2> HIDE DEF stack
  <2>. QED BY <1>1 DEF D!Mock
<1> HIDE DEF n
<1>4. ev \in D!G!BetPlaced /\ ev.seat = i /\ ev.stack = left /\ ev.pot = pot
  <2> DEFINE x == n.stack[i]
             t == D!None
  <2>1. x \in Int /\ x = left /\ t \in D!G!SeatOrNone /\ ev = D!BetPlaced(n, i, put, x, t)
    BY <1>1, <1>3, DemoConstants, DemoTurns
  <2> HIDE DEF ev, x, t
  <2>2. ev \in D!G!BetPlaced /\ ev.seat = i /\ ev.stack = x /\ ev.pot = n.pot
    BY <1>3, <2>1, MockBets
  <2>. QED BY <1>3, <2>1, <2>2
<1> HIDE DEF ev
<1>5. ev \in DemoEvents
  BY <1>4 DEF DemoEvents
<1> DEFINE r == Told(s, <<ev>>)
<1>6. r = D!G!ApplyEvent(s, ev) /\ EventsTyped(<<ev>>, 1)
  BY <1>5, OneTold
<1> HIDE DEF r
<1>7. /\ r \in D!G!Store /\ r.stack = [s.stack EXCEPT ![i] = left]
      /\ r.pot = pot /\ r.open = s.open /\ r.running = s.running
  BY <1>4, <1>6, DemoBetShown
<1>8. ASSUME r.running PROVE BotsShown(r, n)
  <2>1. BotsShown(s, m)
    BY <1>7, <1>8 DEF Agrees
  <2>2. s.stack \in [D!DemoSeats -> Int] /\ m.stack \in [D!DemoSeats -> Int]
    BY MockFields, DemoStoreFields
  <2>. QED BY <1>3, <1>7, <2>1, <2>2 DEF BotsShown
<1>9. Agrees(n, r)
  BY <1>3, <1>7, <1>8 DEF Agrees
<1>10. Serves(n, <<ev>>, 1, s)
  BY <1>3, <1>6, <1>7, <1>9 DEF Serves, r
<1>. QED BY <1>2, <1>10

LEMMA ActorServes ==
  ASSUME NEW m \in D!Mock, NEW s \in D!G!Store
  PROVE  Serves(m, <<D!Snapshot(m, D!Hero)>>, 1, s)
<1> DEFINE e == D!Snapshot(m, D!Hero)
           r == Told(s, <<e>>)
<1>1. e \in D!G!TableSnapshot /\ e.stack = m.stack /\ e.pot = m.pot
  <2>1. D!Hero \in D!G!SeatOrNone
    BY DemoConstants, DemoTurns
  <2>. QED BY <2>1, MockSnapshots
<1> HIDE DEF e
<1>2. e \in DemoEvents
  BY <1>1 DEF DemoEvents
<1>3. r = D!G!ApplyEvent(s, e) /\ EventsTyped(<<e>>, 1)
  BY <1>2, OneTold
<1> HIDE DEF r
<1>4. r \in D!G!Store /\ r.stack = e.stack /\ r.pot = e.pot /\ r.open = s.open
  BY <1>1, <1>3, DemoSnapshotShown
<1>5. Agrees(m, r)
  BY <1>1, <1>4, AgreesNow
<1>6. Serves(m, <<e>>, 1, s)
  BY <1>3, <1>4, <1>5 DEF Serves, r
<1>. QED BY <1>6 DEF e

\* A bet that is confirmed: q is the mock before, with the timer.
LEMMA ConfirmServes ==
  ASSUME NEW m \in D!Mock, NEW q, NEW s \in D!G!Store, Agrees(q, s),
         m.stack = q.stack, NEW amount \in Int, NEW stack \in Int
  PROVE  Serves(m, <<D!BetPlaced(m, D!Hero, amount, stack, 1)>>, 1, s)
<1> DEFINE i == D!Hero
           t == 1
           ev == D!BetPlaced(m, i, amount, stack, t)
           r == Told(s, <<ev>>)
<1>0. i \in D!DemoSeats /\ t \in D!G!SeatOrNone
  BY DemoConstants, DemoTurns
<1> HIDE DEF i, t
<1>1. ev \in D!G!BetPlaced /\ ev.seat = i /\ ev.stack = stack /\ ev.pot = m.pot
  BY <1>0, MockBets
<1> HIDE DEF ev
<1>2. ev \in DemoEvents
  BY <1>1 DEF DemoEvents
<1>3. r = D!G!ApplyEvent(s, ev) /\ EventsTyped(<<ev>>, 1)
  BY <1>2, OneTold
<1> HIDE DEF r
<1>4. /\ r \in D!G!Store /\ r.stack = [s.stack EXCEPT ![i] = stack]
      /\ r.pot = m.pot /\ r.open = s.open /\ r.running = s.running
  BY <1>1, <1>3, DemoBetShown
<1>5. ASSUME r.running PROVE BotsShown(r, m)
  <2>1. BotsShown(s, q)
    BY <1>4, <1>5 DEF Agrees
  <2>2. s.stack \in [D!DemoSeats -> Int]
    BY DemoStoreFields
  <2>. QED BY <1>4, <2>1, <2>2 DEF BotsShown, i
<1>6. Agrees(m, r)
  BY <1>4, <1>5 DEF Agrees
<1>7. Serves(m, <<ev>>, 1, s)
  BY <1>3, <1>4, <1>6 DEF Serves, r
<1>. QED BY <1>7 DEF ev, i, t

LEMMA ShowdownServes ==
  ASSUME NEW m \in D!Mock, NEW s \in D!G!Store
  PROVE  Serves(D!Showdown(m).m, D!Showdown(m).ev, 1, s)
<1> DEFINE steps == << <<500, "reveal">>, <<2600, "deal">> >>
           n == D!Script(m, steps)
           won == [i \in D!DemoSeats |-> IF i = D!Hero THEN m.pot ELSE 0]
           ev == [type |-> "showdown", won |-> won]
           r == Told(s, <<ev>>)
<1>1. StepsTyped(steps, 2)
  BY ScriptOfShowdown
<1>2. D!Showdown(m) = [m |-> n, ev |-> <<ev>>]
  BY DEF D!Showdown, D!Gives
<1>3. won \in [D!DemoSeats -> Int]
  BY MockFields
<1> HIDE DEF steps, won
<1>4. n \in WithTimers(m)
  BY <1>1, ScriptAdds
<1>5. n \in D!Mock
  BY <1>4 DEF WithTimers
<1>6. ev \in D!G!Showdown
  BY <1>3 DEF D!G!Showdown
<1> HIDE DEF n, ev
<1>7. ev \in DemoEvents
  BY <1>6 DEF DemoEvents
<1>8. r = D!G!ApplyEvent(s, ev) /\ EventsTyped(<<ev>>, 1)
  BY <1>7, OneTold
<1> HIDE DEF r
<1>9. r \in D!G!Store /\ ~r.running /\ r.open = s.open
  BY <1>6, <1>8, DemoShowdownShown
<1>10. Serves(n, <<ev>>, 1, s)
  BY <1>5, <1>8, <1>9 DEF Serves, Agrees, r
<1>. QED BY <1>2, <1>10

LEMMA RevealServes ==
  ASSUME NEW m \in D!Mock, NEW s \in D!G!Store, Agrees(m, s)
  PROVE  Serves(m, <<[type |-> "fair_reveal", hand |-> m.hand]>>, 1, s)
<1> DEFINE ev == [type |-> "fair_reveal", hand |-> m.hand]
<1>1. ev \in D!G!FairReveal
  BY MockFields DEF D!G!FairReveal
<1> HIDE DEF ev
<1>2. ev \in DemoEvents
  BY <1>1 DEF DemoEvents
<1>3. Told(s, <<ev>>) = D!G!ApplyEvent(s, ev) /\ EventsTyped(<<ev>>, 1)
  BY <1>2, OneTold
<1>4. D!G!ApplyEvent(s, ev) = s
  BY <1>1, EventApplied
<1>5. Serves(m, <<ev>>, 1, s)
  BY <1>3, <1>4 DEF Serves
<1>. QED BY <1>5 DEF ev

LEMMA AdvanceServes ==
  ASSUME NEW m \in D!Mock, NEW s \in D!G!Store, Agrees(m, s),
         NEW street, street \in {"Flop", "Turn", "River"}
  PROVE  Serves(D!Advance(m, street).m, D!Advance(m, street).ev, 1, s)
<1> DEFINE c == D!Copied(m)
           last == [i \in D!DemoSeats |-> 0]
           n == [c EXCEPT !.street = street, !.last = last]
           ev == [type |-> "street_advanced", street |-> street, pot |-> n.pot, turn |-> D!Hero]
           r == Told(s, <<ev>>)
<1>1. c \in WithTimers(m)
  BY CopiedTyped
<1>2. c \in D!Mock /\ last \in [D!DemoSeats -> Int]
  BY <1>1 DEF WithTimers
<1>3. D!Advance(m, street) = [m |-> n, ev |-> <<ev>>]
  BY DEF D!Advance, D!Gives
<1> HIDE DEF c, last
<1>4. n \in D!Mock /\ n.stack = c.stack /\ n.pot = c.pot /\ n.timers = c.timers
  BY <1>2 DEF D!Mock
<1>5. n.stack = m.stack /\ n.pot = m.pot
  BY <1>1, <1>4 DEF WithTimers
<1> HIDE DEF n
<1>6. ev \in D!G!StreetAdvanced /\ ev.pot = m.pot
  <2>1. D!Hero \in D!G!SeatOrNone /\ n.pot \in Int /\ street \in D!G!Street
    BY <1>4, MockFields, DemoConstants, DemoTurns DEF D!G!Street
  <2>. QED BY <1>5, <2>1 DEF D!G!StreetAdvanced
<1> HIDE DEF ev
<1>7. ev \in DemoEvents
  BY <1>6 DEF DemoEvents
<1>8. r = D!G!ApplyEvent(s, ev) /\ EventsTyped(<<ev>>, 1)
  BY <1>7, OneTold
<1> HIDE DEF r
<1>9. /\ r \in D!G!Store /\ r.stack = s.stack /\ r.pot = ev.pot /\ r.open = s.open
      /\ r.running = s.running
  BY <1>6, <1>8, DemoStreetShown
<1>10. Agrees(n, r)
  BY <1>5, <1>6, <1>9 DEF Agrees, BotsShown
<1>11. Serves(n, <<ev>>, 1, s)
  BY <1>4, <1>8, <1>9, <1>10 DEF Serves, r
<1>. QED BY <1>3, <1>11

\* A timer that fires.
LEMMA FireServes ==
  ASSUME NEW m \in D!Mock, NEW s \in D!G!Store, Agrees(m, s), NEW i \in DOMAIN m.timers
  PROVE  \E n \in Nat : Serves(D!Fire(m, i).m, D!Fire(m, i).ev, n, s)
<1> DEFINE t == m.timers[i]
           n == [m EXCEPT !.timers = D!RemoveAt(@, i)]
<1>1. /\ n \in D!Mock /\ n.stack = m.stack /\ n.pot = m.pot
      /\ t \in D!TimerRecord
      /\ t.what # "confirm" /\ Confirming(m) => Confirming(n)
  BY TimerFired
<1>2. t.what # "confirm" => Agrees(n, s)
  BY <1>1 DEF Agrees, BotsShown
<1>3. t.what \in D!TimerKind /\ t.amount \in Int /\ t.stack \in Int
  BY <1>1, TimerFields
<1>4. D!Fire(m, i) =
        CASE t.what = "deal"     -> D!DealHand(n)
          [] t.what = "fold"     -> D!BotAction(n, 5, 0)
          [] t.what = "call"     -> D!BotAction(n, 1, D!BB)
          [] t.what = "actor"    -> D!Gives(n, <<D!Snapshot(n, D!Hero)>>)
          [] t.what = "confirm"  -> D!Gives(n, <<D!BetPlaced(n, D!Hero, t.amount, t.stack, 1)>>)
          [] t.what = "showdown" -> D!Showdown(n)
          [] t.what = "reveal"   -> D!Gives(n, <<[type |-> "fair_reveal", hand |-> n.hand]>>)
          [] OTHER               -> D!Advance(n, t.what)
  BY DEF D!Fire
<1> HIDE DEF t, n
<1>5. CASE t.what = "deal"
  <2>1. D!Fire(m, i) = D!DealHand(n)
    BY <1>4, <1>5
  <2>. QED BY <1>1, <2>1, DealServes
<1>6. CASE t.what = "fold"
  <2>1. D!Fire(m, i) = D!BotAction(n, 5, 0)
    BY <1>4, <1>6
  <2>2. 5 \in D!DemoSeats /\ Agrees(n, s)
    BY <1>2, <1>6, DemoConstants
  <2>. QED BY <1>1, <2>1, <2>2, BotServes
<1>7. CASE t.what = "call"
  <2>1. D!Fire(m, i) = D!BotAction(n, 1, D!BB)
    BY <1>4, <1>7
  <2>2. 1 \in D!DemoSeats /\ D!BB \in Int /\ Agrees(n, s)
    BY <1>2, <1>7, DemoConstants
  <2>. QED BY <1>1, <2>1, <2>2, BotServes
<1>8. CASE t.what = "actor"
  <2>1. D!Fire(m, i) = D!Gives(n, <<D!Snapshot(n, D!Hero)>>)
    BY <1>4, <1>8
  <2>2. /\ D!Fire(m, i).m = n
        /\ D!Fire(m, i).ev = <<D!Snapshot(n, D!Hero)>>
    BY <2>1 DEF D!Gives
  <2>. QED BY <1>1, <2>2, ActorServes
<1>9. CASE t.what = "confirm"
  <2>1. D!Fire(m, i) = D!Gives(n, <<D!BetPlaced(n, D!Hero, t.amount, t.stack, 1)>>)
    BY <1>4, <1>9
  <2>2. /\ D!Fire(m, i).m = n
        /\ D!Fire(m, i).ev = <<D!BetPlaced(n, D!Hero, t.amount, t.stack, 1)>>
    BY <2>1 DEF D!Gives
  <2>. QED BY <1>1, <1>3, <2>2, ConfirmServes
<1>10. CASE t.what = "showdown"
  <2>1. D!Fire(m, i) = D!Showdown(n)
    BY <1>4, <1>10
  <2>. QED BY <1>1, <2>1, ShowdownServes
<1>11. CASE t.what = "reveal"
  <2>1. D!Fire(m, i) = D!Gives(n, <<[type |-> "fair_reveal", hand |-> n.hand]>>)
    BY <1>4, <1>11
  <2>2. /\ D!Fire(m, i).m = n
        /\ D!Fire(m, i).ev = <<[type |-> "fair_reveal", hand |-> n.hand]>>
    BY <2>1 DEF D!Gives
  <2>. QED BY <1>1, <1>2, <1>11, <2>2, RevealServes
<1>12. CASE t.what \in {"Flop", "Turn", "River"}
  <2> DEFINE street == t.what
  <2>0. street \in {"Flop", "Turn", "River"}
    BY <1>12
  <2>1. D!Fire(m, i) = D!Advance(n, street)
    BY <1>4, <2>0
  <2>2. Agrees(n, s)
    BY <1>2, <1>12
  <2> HIDE DEF street
  <2>. QED BY <1>1, <2>0, <2>1, <2>2, AdvanceServes
<1>. QED BY <1>3, <1>5, <1>6, <1>7, <1>8, <1>9, <1>10, <1>11, <1>12 DEF D!TimerKind

\* The least and the most of two numbers, and the most of the seats'.
LEMMA LeastOfTwo ==
  ASSUME NEW a \in Int, NEW b \in Int
  PROVE  D!G!Min({a, b}) \in Int
<1> DEFINE P(z) == z \in {a, b} /\ \A y \in {a, b} : z <= y
<1>1. a <= b => P(a)
  OBVIOUS
<1>2. ~(a <= b) => P(b)
  OBVIOUS
<1>3. P(CHOOSE z : P(z))
  <2> HIDE DEF P
  <2>. QED BY <1>1, <1>2
<1>4. D!G!Min({a, b}) = CHOOSE z : P(z)
  BY DEF D!G!Min
<1>. QED BY <1>3, <1>4

LEMMA MostOfTwo ==
  ASSUME NEW a \in Int, NEW b \in Int
  PROVE  D!G!Max({a, b}) \in Int
<1> DEFINE P(z) == z \in {a, b} /\ \A y \in {a, b} : z >= y
<1>1. a >= b => P(a)
  OBVIOUS
<1>2. ~(a >= b) => P(b)
  OBVIOUS
<1>3. P(CHOOSE z : P(z))
  <2> HIDE DEF P
  <2>. QED BY <1>1, <1>2
<1>4. D!G!Max({a, b}) = CHOOSE z : P(z)
  BY DEF D!G!Max
<1>. QED BY <1>3, <1>4

LEMMA MostOfSeats ==
  ASSUME NEW f \in [D!DemoSeats -> Int]
  PROVE  D!G!Max({f[i] : i \in D!DemoSeats}) \in Int
<1> DEFINE S == {f[i] : i \in D!DemoSeats}
           P(z) == z \in S /\ \A y \in S : z >= y
           Top(i) == \A j \in D!DemoSeats : f[i] >= f[j]
<1>1. D!DemoSeats = {0, 1, 2, 3, 4, 5}
  BY DemoConstants
<1>2. \E i \in D!DemoSeats : Top(i)
  <2> DEFINE a == f[0]
             b == f[1]
             c == f[2]
             d == f[3]
             e == f[4]
             g == f[5]
  <2>1. a \in Int /\ b \in Int /\ c \in Int /\ d \in Int /\ e \in Int /\ g \in Int
    BY <1>1
  <2> HIDE DEF a, b, c, d, e, g
  <2>2. \/ a >= b /\ a >= c /\ a >= d /\ a >= e /\ a >= g
        \/ b >= a /\ b >= c /\ b >= d /\ b >= e /\ b >= g
        \/ c >= a /\ c >= b /\ c >= d /\ c >= e /\ c >= g
        \/ d >= a /\ d >= b /\ d >= c /\ d >= e /\ d >= g
        \/ e >= a /\ e >= b /\ e >= c /\ e >= d /\ e >= g
        \/ g >= a /\ g >= b /\ g >= c /\ g >= d /\ g >= e
    BY <2>1
  <2>3. a >= a /\ b >= b /\ c >= c /\ d >= d /\ e >= e /\ g >= g
    BY <2>1
  <2>4. Top(0) \/ Top(1) \/ Top(2) \/ Top(3) \/ Top(4) \/ Top(5)
    BY <1>1, <2>2, <2>3 DEF a, b, c, d, e, g
  <2> HIDE DEF Top
  <2>. QED BY <1>1, <2>4
<1>3. PICK i \in D!DemoSeats : Top(i)
  BY <1>2
<1>4. P(f[i])
  BY <1>3
<1>5. P(CHOOSE z : P(z))
  <2> HIDE DEF P
  <2>. QED BY <1>4
<1>6. D!G!Max(S) = CHOOSE z : P(z)
  BY DEF D!G!Max
<1>7. D!G!Max(S) \in S
  BY <1>5, <1>6
<1>. QED BY <1>7

\* The bar offers numbers.
LEMMA OfferedTyped ==
  ASSUME NEW s \in D!G!Store, D!G!MayTap(s), NEW bet \in D!G!Offered(s, D!BB)
  PROVE  s.mine \in D!DemoSeats /\ bet.amount \in Int
<1> DEFINE most == D!G!ShownBet(s)
           own  == s.last[s.mine]
           have == s.stack[s.mine]
           bb   == D!BB
<1>1. s.mine \in D!DemoSeats
  BY DemoStoreFields, DemoConstants DEF D!G!MayTap, D!G!SeatOrNone
<1>2. own \in Int /\ have \in Int /\ bb \in Int
  BY <1>1, DemoStoreFields, DemoConstants
<1>3. most \in Int
  BY DemoStoreFields, MostOfSeats DEF D!G!ShownBet
<1>4. D!G!ToCall(s) = D!G!Min({D!G!Max({0, most - own}), have})
  BY DEF D!G!ToCall
<1>5. D!G!BetBounds(s, bb) = {D!G!Min({have, D!G!Max({bb, most + bb})}), have}
  BY DEF D!G!BetBounds
<1> HIDE DEF most, own, have, bb
<1>6. D!G!Max({0, most - own}) \in Int /\ D!G!Max({bb, most + bb}) \in Int
  BY <1>2, <1>3, MostOfTwo
<1>7. D!G!ToCall(s) \in Int
  BY <1>2, <1>4, <1>6, LeastOfTwo
<1>8. D!G!BetBounds(s, bb) \subseteq Int
  BY <1>2, <1>5, <1>6, LeastOfTwo
<1>9. bet.amount \in {0, D!G!ToCall(s)} \cup D!G!BetBounds(s, bb)
  BY DEF D!G!Offered, bb
<1>. QED BY <1>1, <1>7, <1>8, <1>9

LEMMA DemoActShown ==
  ASSUME NEW s \in D!G!Store, s.mine \in D!DemoSeats, NEW bet, bet.amount \in Int,
         NEW r, r = D!G!Act(s, bet)
  PROVE  r \in D!G!Store /\ r.stack = s.stack /\ r.open = s.open /\ r.running = s.running
<1> DEFINE last == [s.last EXCEPT ![s.mine] = bet.amount]
<1>1. last \in [D!DemoSeats -> Int]
  BY DemoStoreFields
<1>2. r = [s EXCEPT !.pending = TRUE, !.timer = TRUE, !.turn = D!G!None, !.last = last]
  BY DEF D!G!Act, D!G!Store
<1> HIDE DEF last
<1>. QED BY <1>1, <1>2 DEF D!G!Store, D!G!SeatOrNone

\* A bet of the player: it is to be confirmed, and no bot's stack changes.
LEMMA BetServes ==
  ASSUME NEW m \in D!Mock, NEW s \in D!G!Store, s.running => BotsShown(s, m),
         NEW bet, bet.amount \in Int
  PROVE  Serves(D!PlaceBet(m, bet).m, D!PlaceBet(m, bet).ev, 0, s)
<1> DEFINE i == D!Hero
           more == bet.amount - m.last[i]
           put == CASE bet.kind \in {"fold", "check"} -> 0
                    [] bet.kind = "call"              -> D!BB
                    [] OTHER                          -> IF more > 0 THEN more ELSE 0
           shows == IF bet.kind = "call" THEN D!BB ELSE bet.amount
           stack == [m.stack EXCEPT ![i] = @ - put]
           last == [m.last EXCEPT ![i] = shows]
           pot == m.pot + put
           b == [m EXCEPT !.stack = stack, !.pot = pot, !.last = last]
           n == D!Reread(b)
           t == [ms |-> 140, what |-> "confirm", same |-> TRUE,
                 stack |-> n.stack[i], amount |-> n.last[i]]
           c == [n EXCEPT !.timers = Append(@, t)]
           steps == << <<900, "call">>, <<1500, "Flop">>, <<2600, "Turn">>,
                       <<3700, "River">>, <<4800, "showdown">> >>
           x == IF bet.kind = "fold" THEN D!After(c, 600, "deal") ELSE D!Script(c, steps)
<1>0. i \in D!DemoSeats /\ D!BB \in Int
  BY DemoConstants
<1>1. more \in Int /\ shows \in Int
  BY <1>0, MockFields
<1>2. put \in Int
  <2> HIDE DEF more
  <2>. QED BY <1>0, <1>1
<1>3. D!PlaceBet(m, bet) = [m |-> x, ev |-> <<>>]
  <2>1. b = [m EXCEPT !.stack[i] = @ - put, !.pot = @ + put, !.last[i] = shows]
    BY DEF D!Mock
  <2>. QED BY <2>1 DEF D!PlaceBet, D!Gives
<1> HIDE DEF more, put, shows
<1>4. /\ stack \in [D!DemoSeats -> Int] /\ last \in [D!DemoSeats -> Int] /\ pot \in Int
      /\ \A j \in D!DemoSeats \ {i} : stack[j] = m.stack[j]
  BY <1>0, <1>1, <1>2, MockFields
<1> HIDE DEF stack, last, pot
<1>5. b \in D!Mock /\ b.stack = stack
  BY <1>4 DEF D!Mock
<1> HIDE DEF b
<1>6. n \in WithTimers(b)
  BY <1>5, RereadTyped
<1>7. n \in D!Mock /\ n.stack = stack
  BY <1>5, <1>6 DEF WithTimers
<1> HIDE DEF n
<1>8. t \in D!TimerRecord /\ t.what = "confirm"
  BY <1>0, <1>7, MockFields DEF D!TimerRecord, D!TimerKind
<1> HIDE DEF t
<1>9. c \in WithTimers(n) /\ Confirming(c)
  BY <1>7, <1>8, TimerAdded
<1>10. c \in D!Mock
  BY <1>9 DEF WithTimers
<1> HIDE DEF c
<1>11. StepsTyped(steps, 5)
  BY ScriptOfBet
<1> HIDE DEF steps
<1>12. D!Script(c, steps) \in WithTimers(c)
  BY <1>10, <1>11, ScriptAdds
<1>13. D!After(c, 600, "deal") \in WithTimers(c)
  <2> DEFINE ms == 600
             what == "deal"
  <2>1. ms \in Nat /\ what \in D!TimerKind /\ c \in WithTimers(c)
    BY <1>10 DEF D!TimerKind, WithTimers
  <2> HIDE DEF ms, what
  <2>2. D!After(c, ms, what) \in WithTimers(c)
    BY <2>1, AfterAdds
  <2>. QED BY <2>2 DEF ms, what
<1>14. x \in WithTimers(c)
  BY <1>12, <1>13
<1> HIDE DEF x
<1>15. x \in D!Mock /\ Confirming(x) /\ x.stack = stack
  BY <1>7, <1>9, <1>14 DEF WithTimers
<1>16. Agrees(x, s)
  BY <1>4, <1>15 DEF Agrees, BotsShown, i
<1>17. Serves(x, <<>>, 0, s)
  BY <1>15, <1>16, NothingTold DEF Serves
<1>. QED BY <1>3, <1>17

LEMMA SeatsServe ==
  ASSUME NEW m \in D!Mock, NEW n \in D!Mock, n.pot = m.pot,
         Confirming(m) => Confirming(n),
         NEW s \in D!G!Store, Agrees(m, s)
  PROVE  Serves(n, <<D!SeatUpdate(n)>>, 1, s)
<1> DEFINE ev == D!SeatUpdate(n)
           r == Told(s, <<ev>>)
<1>1. ev \in D!G!SeatUpdate /\ ev.stack = n.stack
  BY MockSeats
<1> HIDE DEF ev
<1>2. ev \in DemoEvents
  BY <1>1 DEF DemoEvents
<1>3. r = D!G!ApplyEvent(s, ev) /\ EventsTyped(<<ev>>, 1)
  BY <1>2, OneTold
<1> HIDE DEF r
<1>4. /\ r \in D!G!Store /\ r.stack = ev.stack /\ r.pot = s.pot /\ r.open = s.open
      /\ r.running = s.running
  BY <1>1, <1>3, DemoSeatsShown
<1>5. Agrees(n, r)
  BY <1>1, <1>4 DEF Agrees, BotsShown
<1>6. Serves(n, <<ev>>, 1, s)
  BY <1>3, <1>4, <1>5 DEF Serves, r
<1>. QED BY <1>6 DEF ev

LEMMA SitOutServes ==
  ASSUME NEW m \in D!Mock, NEW s \in D!G!Store, Agrees(m, s), NEW away, away \in BOOLEAN
  PROVE  Serves(D!SitOut(m, away).m, D!SitOut(m, away).ev, 1, s)
<1> DEFINE n == [m EXCEPT !.out = away]
<1>1. n \in D!Mock /\ n.pot = m.pot /\ n.timers = m.timers
  BY DEF D!Mock
<1>2. D!SitOut(m, away) = [m |-> n, ev |-> <<D!SeatUpdate(n)>>]
  BY DEF D!SitOut, D!Gives
<1> HIDE DEF n
<1>3. Serves(n, <<D!SeatUpdate(n)>>, 1, s)
  BY <1>1, SeatsServe DEF Confirming
<1>. QED BY <1>2, <1>3

LEMMA RebuyServes ==
  ASSUME NEW m \in D!Mock, NEW s \in D!G!Store, Agrees(m, s), NEW amount \in Int
  PROVE  Serves(D!Rebuy(m, amount).m, D!Rebuy(m, amount).ev, 1, s)
<1> DEFINE stack == [m.stack EXCEPT ![D!Hero] = @ + amount]
           b == [m EXCEPT !.stack = stack, !.out = FALSE]
           n == D!Reread(b)
           e == [type |-> "error", code |-> "brief"]
<1>1. stack \in [D!DemoSeats -> Int]
  <2> DEFINE h == D!Hero
             x == m.stack[h] + amount
  <2>1. h \in D!DemoSeats /\ m.stack \in [D!DemoSeats -> Int]
    BY MockFields, DemoConstants
  <2> HIDE DEF h
  <2>2. x \in Int
    BY <2>1
  <2>3. stack = [m.stack EXCEPT ![h] = x]
    BY DEF h
  <2> HIDE DEF x
  <2>. QED BY <2>1, <2>2, <2>3
<1>2. D!Rebuy(m, amount) = IF amount \in D!BB .. 1000 * D!BB
                           THEN [m |-> n, ev |-> <<D!SeatUpdate(n)>>]
                           ELSE [m |-> m, ev |-> <<e>>]
  <2>1. b = [m EXCEPT !.stack[D!Hero] = @ + amount, !.out = FALSE]
    BY DEF D!Mock
  <2>. QED BY <2>1 DEF D!Rebuy, D!Gives
<1> HIDE DEF stack
<1>3. b \in D!Mock /\ b.pot = m.pot /\ b.timers = m.timers
  BY <1>1 DEF D!Mock
<1>4. n \in WithTimers(b)
  BY <1>3, RereadTyped
<1>5. n \in D!Mock /\ n.pot = m.pot
  BY <1>3, <1>4 DEF WithTimers
<1>6. Confirming(m) => Confirming(n)
  BY <1>3, <1>4 DEF WithTimers, Confirming
<1> HIDE DEF n
<1>7. Serves(n, <<D!SeatUpdate(n)>>, 1, s)
  BY <1>5, <1>6, SeatsServe
<1>8. Serves(m, <<e>>, 1, s)
  <2>1. e \in D!G!ErrorEvent
    BY DEF D!G!ErrorEvent
  <2> HIDE DEF e
  <2>2. e \in DemoEvents
    BY <2>1 DEF DemoEvents
  <2> DEFINE r == Told(s, <<e>>)
  <2>3. r = D!G!ApplyEvent(s, e) /\ EventsTyped(<<e>>, 1)
    BY <2>2, OneTold
  <2> HIDE DEF r
  <2>4. /\ r \in D!G!Store /\ r.stack = s.stack /\ r.pot = s.pot /\ r.open = s.open
        /\ r.running = s.running
    BY <2>1, <2>3, DemoErrorShown
  <2>. QED BY <2>3, <2>4 DEF Serves, Agrees, BotsShown, r
<1>. QED BY <1>2, <1>7, <1>8

-----------------------------------------------------------------------------
(* The demo: the invariant *)

\* Of the mock m, the store s, the fairness records f and the taps k so far: who is not at
\* the table is shown no hand and no seat of their own, and no timer is set.
DemoGood(m, s, f, k) ==
  /\ m \in D!Mock /\ s \in D!G!Store /\ f \in Seq(D!G!FairnessRecord) /\ k \in 0 .. MaxTaps
  /\ ~s.open => ~s.running /\ s.mine = D!G!None /\ m.timers = <<>>
  /\ Agrees(m, s)

DemoOK == DemoGood(core, view, sent, upsets)

DemoInv == game = "demo" => DemoOK

LEMMA TimersCleared ==
  ASSUME NEW m \in D!Mock, NEW r, r = [m EXCEPT !.timers = <<>>]
  PROVE  r \in D!Mock /\ r.timers = <<>>
<1> DEFINE e == <<>>
<1>1. e \in Seq(D!TimerRecord) /\ r = [m EXCEPT !.timers = e]
  OBVIOUS
<1> HIDE DEF e
<1>2. r \in D!Mock /\ r.timers = e
  BY <1>1 DEF D!Mock
<1>. QED BY <1>2 DEF e

LEMMA DemoOff ==
  ASSUME NEW n, n \in Nat
  PROVE  D!Connect(n) \in D!Mock /\ [D!Connect(n) EXCEPT !.timers = <<>>] \in D!Mock
<1> DEFINE m == [hand |-> n, stack |-> [i \in D!DemoSeats |-> 0],
                 last |-> [i \in D!DemoSeats |-> 0],
                 out |-> FALSE, pot |-> 0, street |-> "none", timers |-> <<>>]
           steps == << <<260, "deal">> >>
           c == D!Script(m, steps)
<1>1. m \in D!Mock
  BY DEF D!Mock
<1>2. StepsTyped(steps, 1)
  BY ScriptOfEnter
<1>3. D!Connect(n) = c
  BY DEF D!Connect
<1> HIDE DEF m, steps
<1>4. c \in D!Mock
  BY <1>1, <1>2, ScriptAdds DEF WithTimers
<1> HIDE DEF c
<1>5. [c EXCEPT !.timers = <<>>] \in D!Mock
  BY <1>4, TimersCleared
<1>. QED BY <1>3, <1>4, <1>5

\* A store that shows nothing.
LEMMA DemoEmpty ==
  /\ D!G!EmptyTable \in D!G!Store /\ ~D!G!EmptyTable.open /\ ~D!G!EmptyTable.running
  /\ D!G!EmptyTable.mine = D!G!None
<1> DEFINE zero == [i \in D!DemoSeats |-> 0]
           q == [stack |-> zero, last |-> zero, out |-> {}, pot |-> 0, street |-> "none",
                 turn |-> D!G!None, mine |-> D!G!None, running |-> FALSE,
                 pending |-> FALSE, timer |-> FALSE, rebuying |-> FALSE, refused |-> FALSE,
                 open |-> FALSE, replay |-> {}]
<1>1. zero \in [D!DemoSeats -> Int]
  OBVIOUS
<1>2. D!G!EmptyTable = q
  BY DEF D!G!EmptyTable
<1> HIDE DEF zero
<1>3. q \in D!G!Store
  BY <1>1 DEF D!G!Store, D!G!Street, D!G!SeatOrNone
<1>4. ~q.open /\ ~q.running /\ q.mine = D!G!None
  OBVIOUS
<1>. QED BY <1>2, <1>3, <1>4

LEMMA DemoBegins == StoreInit => DemoInv
<1> SUFFICES ASSUME StoreInit, game = "demo" PROVE DemoOK
  BY DEF DemoInv
<1>1. core = D!Off /\ view = D!G!EmptyTable /\ sent = <<>> /\ upsets = 0
  BY DEF StoreInit, D!Init
<1>2. core \in D!Mock
  BY <1>1, DemoOff DEF D!Off
<1>3. core.timers = <<>>
  <2> DEFINE c == D!Connect(0)
  <2>1. c \in D!Mock /\ core = [c EXCEPT !.timers = <<>>]
    BY <1>1, DemoOff DEF D!Off
  <2> HIDE DEF c
  <2>. QED BY <2>1 DEF D!Mock
<1>4. view \in D!G!Store /\ ~view.open /\ ~view.running /\ view.mine = D!G!None
  BY <1>1, DemoEmpty
<1>5. sent \in Seq(D!G!FairnessRecord) /\ upsets \in 0 .. MaxTaps
  BY <1>1, DemoConstants
<1>6. Agrees(core, view)
  BY <1>4 DEF Agrees
<1>. QED BY <1>2, <1>3, <1>4, <1>5, <1>6 DEF DemoOK, DemoGood

\* What an outcome of the mock that serves the store s makes of the whole.
LEMMA AppliedDemo ==
  ASSUME DemoOK, NEW s \in D!G!Store, s.open, NEW o, NEW n, Serves(o.m, o.ev, n, s),
         D!Apply(o, s), upsets' \in 0 .. MaxTaps
  PROVE  DemoOK'
<1>1. core' = o.m /\ view' = Told(s, o.ev) /\ sent' = D!FoldLeft(D!Reveals, sent, o.ev)
  BY DEF D!Apply, Told
<1>2. core' \in D!Mock /\ view' \in D!G!Store /\ view'.open /\ Agrees(core', view')
  BY <1>1 DEF Serves
<1>3. sent' \in Seq(D!G!FairnessRecord)
  BY <1>1, RecordsTyped DEF Serves, DemoOK, DemoGood
<1>. QED BY <1>2, <1>3 DEF DemoOK, DemoGood

LEMMA EntersDemo == ASSUME DemoOK, D!Enter PROVE DemoOK'
<1>1. /\ core \in D!Mock /\ view \in D!G!Store /\ ~view.open /\ ~view.running
      /\ sent \in Seq(D!G!FairnessRecord) /\ upsets \in 0 .. MaxTaps
  BY DEF DemoOK, DemoGood, D!Enter
<1>2. /\ core' = D!Connect(core.hand) /\ view' = [view EXCEPT !.open = TRUE, !.timer = FALSE]
      /\ sent' = sent /\ upsets' = upsets
  BY DEF D!Enter, D!G!Connected
<1>3. core' \in D!Mock
  BY <1>1, <1>2, MockFields, DemoOff
<1>4. view' \in D!G!Store /\ view'.open /\ ~view'.running
  BY <1>1, <1>2 DEF D!G!Store
<1>5. Agrees(core', view')
  BY <1>4 DEF Agrees
<1>. QED BY <1>1, <1>2, <1>3, <1>4, <1>5 DEF DemoOK, DemoGood

LEMMA LeavesDemo == ASSUME DemoOK, D!Leave PROVE DemoOK'
<1>1. /\ core \in D!Mock /\ view \in D!G!Store
      /\ sent \in Seq(D!G!FairnessRecord) /\ upsets \in 0 .. MaxTaps
  BY DEF DemoOK, DemoGood
<1>2. /\ core' = [core EXCEPT !.timers = <<>>]
      /\ view' = [D!G!EmptyTable EXCEPT !.pending = view.pending, !.replay = view.replay]
      /\ sent' = sent /\ upsets' = upsets + 1 /\ upsets < MaxTaps
  BY DEF D!Leave, D!G!Disconnected
<1>3. core' \in D!Mock /\ core'.timers = <<>>
  BY <1>1, <1>2, TimersCleared
<1>4. view' \in D!G!Store /\ ~view'.open /\ ~view'.running /\ view'.mine = D!G!None
  <2> DEFINE e == D!G!EmptyTable
             b == view.pending
             h == view.replay
  <2>1. e \in D!G!Store /\ ~e.open /\ ~e.running /\ e.mine = D!G!None
    BY DemoEmpty
  <2>2. b \in BOOLEAN /\ h \in SUBSET Nat
    BY <1>1, DemoStoreFields
  <2>3. view' = [e EXCEPT !.pending = b, !.replay = h]
    BY <1>2
  <2> HIDE DEF e, b, h
  <2>. QED BY <2>1, <2>2, <2>3 DEF D!G!Store
<1>5. upsets' \in 0 .. MaxTaps
  BY <1>1, <1>2, DemoConstants
<1>6. Agrees(core', view')
  BY <1>4 DEF Agrees
<1>. QED BY <1>1, <1>2, <1>3, <1>4, <1>5, <1>6 DEF DemoOK, DemoGood

LEMMA FiresDemo == ASSUME DemoOK, D!Timers PROVE DemoOK'
<1>1. /\ core \in D!Mock /\ view \in D!G!Store /\ upsets \in 0 .. MaxTaps
      /\ Agrees(core, view) /\ (~view.open => core.timers = <<>>)
  BY DEF DemoOK, DemoGood
<1>2. PICK i \in DOMAIN core.timers : D!Apply(D!Fire(core, i), view) /\ upsets' = upsets
  BY DEF D!Timers
<1>3. view.open
  BY <1>1, <1>2
<1>4. PICK n \in Nat : Serves(D!Fire(core, i).m, D!Fire(core, i).ev, n, view)
  BY <1>1, FireServes
<1> DEFINE o == D!Fire(core, i)
<1>5. Serves(o.m, o.ev, n, view) /\ D!Apply(o, view) /\ upsets' \in 0 .. MaxTaps
  BY <1>1, <1>2, <1>4
<1> HIDE DEF o
<1>. QED BY <1>1, <1>3, <1>5, AppliedDemo

LEMMA VerifiesDemo == ASSUME DemoOK, D!Verified PROVE DemoOK'
<1>1. /\ core' = core /\ view' = view /\ upsets' = upsets
      /\ \E i \in DOMAIN sent : sent' = D!G!OnVerified(sent, sent[i].hand)
  BY DEF D!Verified
<1>2. PICK i \in DOMAIN sent : sent' = D!G!OnVerified(sent, sent[i].hand)
  BY <1>1
<1> DEFINE h == sent[i].hand
           R == D!G!FairnessRecord
           k == Len(sent)
<1>3. sent \in Seq(R)
  BY DEF DemoOK, DemoGood
<1>4. k \in Nat /\ DOMAIN sent = 1 .. k /\ \A j \in 1 .. k : sent[j] \in R
  BY <1>3
<1>5. ASSUME NEW j \in 1 .. k
      PROVE  (IF sent[j].hand = h THEN [sent[j] EXCEPT !.verified = "yes"] ELSE sent[j]) \in R
  <2> DEFINE x == sent[j]
  <2>1. x \in R
    BY <1>4
  <2> HIDE DEF x, h
  <2>2. (IF x.hand = h THEN [x EXCEPT !.verified = "yes"] ELSE x) \in R
    BY <2>1 DEF D!G!FairnessRecord
  <2>. QED BY <2>2 DEF x
<1>6. sent' \in [1 .. k -> R]
  <2>1. sent' = [j \in DOMAIN sent |->
                   IF sent[j].hand = h THEN [sent[j] EXCEPT !.verified = "yes"] ELSE sent[j]]
    BY <1>2 DEF D!G!OnVerified
  <2> HIDE DEF R, h, k
  <2>. QED BY <1>4, <1>5, <2>1
<1> HIDE DEF k
<1>7. sent' \in Seq(R)
  BY <1>4, <1>6, IsASeq
<1>. QED BY <1>1, <1>7 DEF DemoOK, DemoGood

\* A command of the player, of an outcome o and the store s that shows it.
LEMMA SendsDemo ==
  ASSUME DemoOK, NEW o, NEW s \in D!G!Store, s.open, NEW n, Serves(o.m, o.ev, n, s),
         D!Sends(o, s)
  PROVE  DemoOK'
<1>1. upsets \in 0 .. MaxTaps /\ upsets < MaxTaps /\ upsets' = upsets + 1 /\ D!Apply(o, s)
  BY DEF D!Sends, DemoOK, DemoGood
<1>2. upsets' \in 0 .. MaxTaps
  BY <1>1, DemoConstants
<1>. QED BY <1>1, <1>2, AppliedDemo

LEMMA TapsDemo == ASSUME DemoOK, D!Tap PROVE DemoOK'
<1>1. PICK bet \in D!G!Offered(view, D!BB) : D!Sends(D!PlaceBet(core, bet), D!G!Act(view, bet))
  BY DEF D!Tap
<1>2. /\ core \in D!Mock /\ view \in D!G!Store /\ Agrees(core, view)
      /\ D!G!MayTap(view) /\ view.open
  BY DEF DemoOK, DemoGood, D!Tap, D!G!MayTap
<1>3. view.mine \in D!DemoSeats /\ bet.amount \in Int
  BY <1>2, OfferedTyped
<1> DEFINE s == D!G!Act(view, bet)
           o == D!PlaceBet(core, bet)
<1>4. s \in D!G!Store /\ s.stack = view.stack /\ s.open = view.open /\ s.running = view.running
  BY <1>2, <1>3, DemoActShown
<1>5. D!Sends(o, s)
  BY <1>1
<1> HIDE DEF s
<1>6. s.running => BotsShown(s, core)
  BY <1>2, <1>4 DEF Agrees, BotsShown
<1>7. Serves(o.m, o.ev, 0, s)
  BY <1>2, <1>3, <1>4, <1>6, BetServes
<1> HIDE DEF o
<1>. QED BY <1>2, <1>4, <1>5, <1>7, SendsDemo

LEMMA RebuysDemo == ASSUME DemoOK, D!TapRebuy PROVE DemoOK'
<1>1. PICK a \in D!G!RebuyAmounts(D!BB) : D!Sends(D!Rebuy(core, a), D!G!Rebuy(view))
  BY DEF D!TapRebuy
<1>2. a \in Int
  BY DemoConstants DEF D!G!RebuyAmounts
<1>3. core \in D!Mock /\ view \in D!G!Store /\ Agrees(core, view) /\ view.open
  BY DEF DemoOK, DemoGood, D!TapRebuy, D!G!MayRebuy
<1> DEFINE s == D!G!Rebuy(view)
           o == D!Rebuy(core, a)
<1>4. /\ s \in D!G!Store /\ s.stack = view.stack /\ s.pot = view.pot /\ s.open
      /\ s.running = view.running
  BY <1>3 DEF D!G!Rebuy, D!G!Store
<1>5. D!Sends(o, s)
  BY <1>1
<1> HIDE DEF s
<1>6. Agrees(core, s)
  BY <1>3, <1>4 DEF Agrees, BotsShown
<1>7. Serves(o.m, o.ev, 1, s)
  BY <1>2, <1>3, <1>4, <1>6, RebuyServes
<1> HIDE DEF o
<1>. QED BY <1>4, <1>5, <1>7, SendsDemo

LEMMA BreaksDemo ==
  ASSUME DemoOK, view.mine # D!G!None, NEW away \in BOOLEAN, D!Sends(D!SitOut(core, away), view)
  PROVE  DemoOK'
<1>1. core \in D!Mock /\ view \in D!G!Store /\ Agrees(core, view) /\ view.open
  BY DEF DemoOK, DemoGood
<1> DEFINE o == D!SitOut(core, away)
<1>2. Serves(o.m, o.ev, 1, view) /\ D!Sends(o, view)
  BY <1>1, SitOutServes
<1> HIDE DEF o
<1>. QED BY <1>1, <1>2, SendsDemo

LEMMA DemoSteps == DemoInv /\ [StoreNext]_storeVars => DemoInv'
<1> SUFFICES ASSUME DemoInv, [StoreNext]_storeVars, game' = "demo" PROVE DemoOK'
  BY DEF DemoInv
<1>1. CASE UNCHANGED storeVars
  <2>1. core' = core /\ view' = view /\ sent' = sent /\ upsets' = upsets /\ game' = game
    BY <1>1 DEF storeVars, vars
  <2>. QED BY <2>1 DEF DemoInv, DemoOK
<1>2. CASE PlayDemo
  <2>1. DemoOK /\ D!Next
    BY <1>2 DEF PlayDemo, DemoInv
  <2>2. CASE D!Enter
    BY <2>1, <2>2, EntersDemo
  <2>3. CASE D!Leave
    BY <2>1, <2>3, LeavesDemo
  <2>4. CASE D!Timers
    BY <2>1, <2>4, FiresDemo
  <2>5. CASE D!Verified
    BY <2>1, <2>5, VerifiesDemo
  <2>6. CASE D!Tap
    BY <2>1, <2>6, TapsDemo
  <2>7. CASE D!TapRebuy
    BY <2>1, <2>7, RebuysDemo
  <2>8. CASE D!TapSitOut
    <3> DEFINE away == TRUE
    <3>1. away \in BOOLEAN /\ view.mine # D!G!None /\ D!Sends(D!SitOut(core, away), view)
      BY <2>8 DEF D!TapSitOut, D!G!MaySitOut
    <3> HIDE DEF away
    <3>. QED BY <2>1, <3>1, BreaksDemo
  <2>9. CASE D!TapSitIn
    <3> DEFINE away == FALSE
    <3>1. away \in BOOLEAN /\ view.mine # D!G!None /\ D!Sends(D!SitOut(core, away), view)
      BY <2>9 DEF D!TapSitIn, D!G!MaySitIn
    <3> HIDE DEF away
    <3>. QED BY <2>1, <3>1, BreaksDemo
  <2>. QED BY <2>1, <2>2, <2>3, <2>4, <2>5, <2>6, <2>7, <2>8, <2>9 DEF D!Next
<1>3. CASE PlayNearby
  BY <1>3 DEF PlayNearby
<1>4. CASE PlayOnline
  BY <1>4 DEF PlayOnline
<1>. QED BY <1>1, <1>2, <1>3, <1>4 DEF StoreNext

\* At the demo table the mock, the store and the fairness records keep their types; before
\* and after a visit no hand is shown and no timer is set; and a felt with a hand on it shows
\* the mock's, for any number of deals, bets and timers that outlive their hand.
\* (client/src/net/mockServer.ts:39, the MockServer's fields and its handlers)
THEOREM StoreDemoInvariant == StoreSpec => []DemoInv
<1>. QED BY DemoBegins, DemoSteps, PTL DEF StoreSpec

\* The demo's part of StoreFollowsTable and FeltShowsTable: the types, and that the felt
\* shows the mock's pot, unless a bet of the player is still to be confirmed, and the stacks
\* of the bots, also where a callback of an older hand acts on the one that is shown.
\* (client/src/net/mockServer.ts:177 botAction, 239 send; client/src/store/gameStore.ts:446)
THEOREM DemoFelt ==
  StoreSpec => [](game = "demo" => StoreFollowsTable /\ FeltShowsTable)
<1>1. DemoInv => (game = "demo" => StoreFollowsTable /\ FeltShowsTable)
  <2> SUFFICES ASSUME DemoOK, game = "demo" PROVE StoreFollowsTable /\ FeltShowsTable
    BY DEF DemoInv
  <2>1. D!DemoTypes
    BY DEF DemoOK, DemoGood, D!DemoTypes
  <2>2. D!FeltShowsMock
    BY DEF DemoOK, DemoGood, Agrees, BotsShown, Confirming, D!FeltShowsMock
  <2>. QED BY <2>1, <2>2 DEF StoreFollowsTable, FeltShowsTable
<1>. QED BY <1>1, StoreDemoInvariant, PTL

=============================================================================
