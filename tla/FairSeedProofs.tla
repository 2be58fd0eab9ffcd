--------------------------- MODULE FairSeedProofs ---------------------------
(***************************************************************************)
(* The fair-seed round for any peers, coordinators and bounds: no honest   *)
(* peer is taken for a dishonest dealer, and every step is a step, or a    *)
(* stutter, of the service the mesh is written on.                         *)
(*                                                                         *)
(* A peer answers every request of one round key with its first share, 1;  *)
(* only the coordinator draws a new one in each attempt.  So the shares of *)
(* others are 1 wherever they are, a round, a frame or the peer's own      *)
(* memory, and the coordinator's commitment and share change together.     *)
(***************************************************************************)
EXTENDS FairSeed, TLAPS

Hands == 1 .. MaxRounds

RoundType ==
  [hand : 0 .. MaxRounds, members : SUBSET Peers, asked : BOOLEAN,
   opening : SUBSET (Peers \X Nat), commit : [Peers -> Nat], share : [Peers -> Nat]]

\* Shares and commitments as coordinator c can have collected them.
CollectedBy(c, commit, share) ==
  /\ commit[c] = share[c]
  /\ \A p \in Peers \ {c} : commit[p] \in {0, 1} /\ share[p] \in {0, 1}

\* A round of coordinator c, open or being combined.
RoundOK(c, r) ==
  /\ r \in RoundType
  /\ r.hand = 0 => r = NoRound
  /\ r.opening \subseteq (Peers \ {c}) \X {1}
  /\ CollectedBy(c, r.commit, r.share)
  /\ r.asked => AllCommitted(r)

MsgOK(m) ==
  /\ m.type \in {"commit", "reveal"} => m.from # m.to /\ m.share = 1
  /\ m.type = "seed" =>
       CollectedBy(m.from, m.commit, m.share) /\ \A p \in m.members : m.share[p] # NoShare

RoundsOK ==
  /\ round \in [Coordinators -> RoundType] /\ finishing \in [Coordinators -> RoundType]
  /\ rounds \in [Coordinators -> Nat]
  /\ \A c \in Coordinators :
       /\ RoundOK(c, round[c]) /\ RoundOK(c, finishing[c]) /\ AllRevealed(finishing[c])
       /\ round[c] = NoRound \/ finishing[c] = NoRound

StartingOK ==
  starting \in [Coordinators ->
    SUBSET [hand : Hands, members : SUBSET Peers, share : Nat \ {NoShare}]]

MineOK ==
  /\ mine \in [Peers -> [Keys -> Nat]]
  /\ \A p \in Peers, k \in Keys : k[1] # p => mine[p][k] \in {0, 1}

NetOK == net \subseteq FairMsg /\ \A m \in net : MsgOK(m)

AlarmsOK == alarms = [p \in Peers |-> {}]

FairInv == RoundsOK /\ StartingOK /\ MineOK /\ NetOK /\ AlarmsOK

-----------------------------------------------------------------------------
(* Rounds and frames *)

LEMMA KeyIsKey ==
  ASSUME NEW c \in Coordinators, NEW h \in Hands
  PROVE  RoundKey(c, h) \in Keys /\ RoundKey(c, h)[1] = c
  BY DEF RoundKey, Keys, Hands

LEMMA NewRoundOK ==
  ASSUME NEW c \in Coordinators, NEW h \in Hands, NEW M \in SUBSET Peers,
         NEW O \in SUBSET ((Peers \ {c}) \X {1})
  PROVE  RoundOK(c, NewRound(h, M, O)) /\ NewRound(h, M, O).hand = h
<1> DEFINE none == [p \in Peers |-> NoShare]
<1> c \in Peers /\ MaxRounds \in Nat  BY FairSeedAssumption
<1>1. none \in [Peers -> Nat] /\ CollectedBy(c, none, none)
  BY DEF NoShare, CollectedBy
<1> HIDE DEF none
<1>2. NewRound(h, M, O) = [hand |-> h, members |-> M, asked |-> FALSE, opening |-> O,
                           commit |-> none, share |-> none]
  BY DEF NewRound, none
<1>3. O \in SUBSET (Peers \X Nat)
  OBVIOUS
<1> QED  BY <1>1, <1>2, <1>3 DEF RoundOK, RoundType, Hands, AllCommitted

LEMMA NoRoundOK ==
  ASSUME NEW c \in Coordinators
  PROVE  RoundOK(c, NoRound) /\ AllRevealed(NoRound) /\ NoRound.hand = 0
<1> DEFINE none == [p \in Peers |-> NoShare]
<1> c \in Peers /\ MaxRounds \in Nat  BY FairSeedAssumption
<1>1. none \in [Peers -> Nat] /\ CollectedBy(c, none, none)
  BY DEF NoShare, CollectedBy
<1> HIDE DEF none
<1>2. NoRound = [hand |-> 0, members |-> {}, asked |-> FALSE, opening |-> {},
                 commit |-> none, share |-> none]
  BY DEF NewRound, NoRound, none
<1> QED  BY <1>1, <1>2 DEF RoundOK, RoundType, AllCommitted, AllRevealed

\* A round with an entry set: what OwnCommit, OnCommit, OnReveal, Opened and AskReveals do.
LEMMA OpenRound ==
  ASSUME NEW c \in Coordinators, NEW r, RoundOK(c, r), r.hand # 0
  PROVE  /\ r \in RoundType /\ r.hand \in Hands
         /\ AllCommitted(r) => RoundOK(c, [r EXCEPT !.asked = TRUE])
         /\ \A s \in Nat \ {NoShare} : RoundOK(c, [r EXCEPT !.commit[c] = s, !.share[c] = s])
         /\ \A p \in Peers \ {c} : RoundOK(c, [r EXCEPT !.commit[p] = 1])
         /\ \A x \in (Peers \ {c}) \X {1} : RoundOK(c, [r EXCEPT !.opening = @ \cup {x}])
         /\ \A x \in r.opening :
              RoundOK(c, [r EXCEPT !.opening = @ \ {x}, !.share[x[1]] = x[2]])
<1> c \in Peers /\ MaxRounds \in Nat  BY FairSeedAssumption
<1>1. r \in RoundType /\ r.hand \in Hands  BY DEF RoundOK, RoundType, Hands
<1>2. /\ r.opening \subseteq (Peers \ {c}) \X {1} /\ CollectedBy(c, r.commit, r.share)
      /\ r.asked => AllCommitted(r)
  BY DEF RoundOK
<1>3. ASSUME AllCommitted(r)
      PROVE  RoundOK(c, [r EXCEPT !.asked = TRUE])
  BY <1>1, <1>2, <1>3 DEF RoundOK, RoundType, Hands, AllCommitted, CollectedBy
<1>4. ASSUME NEW s \in Nat \ {NoShare}
      PROVE  RoundOK(c, [r EXCEPT !.commit[c] = s, !.share[c] = s])
  BY <1>1, <1>2 DEF RoundOK, RoundType, Hands, AllCommitted, CollectedBy
<1>5. ASSUME NEW p \in Peers \ {c}
      PROVE  RoundOK(c, [r EXCEPT !.commit[p] = 1])
  BY <1>1, <1>2 DEF RoundOK, RoundType, Hands, AllCommitted, CollectedBy, NoShare
<1>6. ASSUME NEW x \in (Peers \ {c}) \X {1}
      PROVE  RoundOK(c, [r EXCEPT !.opening = @ \cup {x}])
  <2>1. r.opening \cup {x} \in SUBSET (Peers \X Nat)  BY <1>1 DEF RoundType
  <2>2. r.opening \cup {x} \subseteq (Peers \ {c}) \X {1}  BY <1>2
  <2> QED  BY <1>1, <1>2, <2>1, <2>2 DEF RoundOK, RoundType, Hands, AllCommitted, CollectedBy
<1>7. ASSUME NEW x \in r.opening
      PROVE  RoundOK(c, [r EXCEPT !.opening = @ \ {x}, !.share[x[1]] = x[2]])
  <2>1. x[1] \in Peers \ {c} /\ x[2] = 1  BY <1>2
  <2>2. r.opening \ {x} \in SUBSET (Peers \X Nat)  BY <1>1 DEF RoundType
  <2>3. r.opening \ {x} \subseteq (Peers \ {c}) \X {1}  BY <1>2
  <2> QED  BY <1>1, <1>2, <2>1, <2>2, <2>3
           DEF RoundOK, RoundType, Hands, AllCommitted, CollectedBy
<1> QED  BY <1>1, <1>3, <1>4, <1>5, <1>6, <1>7

\* What a frame of each type carries.
LEMMA FrameFields ==
  ASSUME NEW m \in FairMsg
  PROVE  /\ m.from \in Peers /\ m.hand \in Hands
         /\ m.type \in {"commit_req", "reveal_req", "seed"} => m.from \in Coordinators
         /\ m.type \in {"commit_req", "seed"} => m.members \in SUBSET Peers
         /\ m.type \in {"commit", "reveal"} => m.to \in Coordinators /\ m.share \in Nat
  BY FairSeedAssumption DEF FairMsg, Hands

-----------------------------------------------------------------------------
(* The inductive invariant *)

LEMMA FairInvInit ==
  ASSUME Init
  PROVE  FairInv
<1> Coordinators \subseteq Peers /\ MaxRounds \in Nat  BY FairSeedAssumption
<1>1. RoundsOK
  <2>1. \A c \in Coordinators : RoundOK(c, NoRound) /\ AllRevealed(NoRound)
    BY NoRoundOK
  <2>2. Coordinators # {} => NoRound \in RoundType
    BY <2>1 DEF RoundOK
  <2> QED  BY <2>1, <2>2 DEF Init, RoundsOK
<1>2. StartingOK /\ NetOK /\ AlarmsOK
  BY DEF Init, StartingOK, NetOK, AlarmsOK
<1>3. MineOK
  BY DEF Init, MineOK, NoShare
<1> QED  BY <1>1, <1>2, <1>3 DEF FairInv

\* A coordinator's round becomes another one.
LEMMA RoundStep ==
  ASSUME RoundsOK, NEW c \in Coordinators, NEW r, RoundOK(c, r),
         finishing[c] = NoRound, round' = [round EXCEPT ![c] = r],
         UNCHANGED finishing, rounds' \in [Coordinators -> Nat]
  PROVE  RoundsOK'
<1>1. r \in RoundType  BY DEF RoundOK
<1>2. \A d \in Coordinators : round'[d] = IF d = c THEN r ELSE round[d]
  BY DEF RoundsOK
<1>3. round' \in [Coordinators -> RoundType]
  BY <1>1 DEF RoundsOK
<1>4. \A d \in Coordinators : RoundOK(d, round[d])' <=> RoundOK(d, round'[d])
  BY DEF RoundOK, AllCommitted
<1>5. \A d \in Coordinators :
        (RoundOK(d, finishing[d]) /\ AllRevealed(finishing[d]))' <=>
          RoundOK(d, finishing[d]) /\ AllRevealed(finishing[d])
  BY DEF RoundOK, AllCommitted, AllRevealed
<1> QED  BY <1>2, <1>3, <1>4, <1>5 DEF RoundsOK

\* An open round is well formed, and nothing is being combined.
LEMMA OpenRoundHere ==
  ASSUME RoundsOK, NEW c \in Coordinators, round[c].hand # 0 \/ round[c] # NoRound
  PROVE  /\ RoundOK(c, round[c]) /\ round[c] \in RoundType /\ round[c].hand \in Hands
         /\ finishing[c] = NoRound /\ round[c] # NoRound
<1>1. RoundOK(c, round[c]) /\ NoRound.hand = 0
  BY NoRoundOK DEF RoundsOK
<1>2. round[c].hand # 0 /\ round[c] # NoRound
  BY <1>1 DEF RoundOK
<1> QED  BY <1>1, <1>2, OpenRound DEF RoundsOK

\* A new share of the coordinator's own.
LEMMA StartCommitStep ==
  ASSUME MineOK, StartingOK, NEW c \in Coordinators, NEW h \in Hands, NEW M \in SUBSET Peers,
         StartCommit(c, h, M)
  PROVE  MineOK' /\ StartingOK'
<1> c \in Peers  BY FairSeedAssumption
<1> DEFINE k == RoundKey(c, h)
           n == mine[c][k] + 1
           f == [hand |-> h, members |-> M, share |-> n]
<1>1. k \in Keys /\ k[1] = c  BY KeyIsKey
<1>2. mine[c][k] \in Nat  BY <1>1 DEF MineOK
<1>3. n \in Nat \ {NoShare}  BY <1>2 DEF NoShare
<1>4. mine' = [mine EXCEPT ![c][k] = n] /\ starting' = [starting EXCEPT ![c] = @ \cup {f}]
  BY DEF StartCommit
<1> HIDE DEF k, n
<1>5. MineOK'  BY <1>1, <1>3, <1>4 DEF MineOK
<1>6. f \in [hand : Hands, members : SUBSET Peers, share : Nat \ {NoShare}]
  BY <1>3
<1> HIDE DEF f
<1>7. StartingOK'  BY <1>4, <1>6 DEF StartingOK
<1> QED  BY <1>5, <1>7

\* A frame is sent.
LEMMA SendStep ==
  ASSUME NetOK, NEW m \in FairMsg, MsgOK(m), net' = net \cup {m}
  PROVE  NetOK'
  BY DEF NetOK, MsgOK, CollectedBy, NoShare

LEMMA OpenInv ==
  ASSUME FairInv, NEW c \in Coordinators, Open(c)
  PROVE  FairInv'
<1> DEFINE h == rounds[c] + 1
<1>1. h \in Hands
  BY FairSeedAssumption DEF Open, FairInv, RoundsOK, Hands
<1>2. RoundOK(c, NewRound(h, Peers, {}))
  BY <1>1, NewRoundOK
<1>3. /\ round' = [round EXCEPT ![c] = NewRound(h, Peers, {})] /\ StartCommit(c, h, Peers)
      /\ rounds' = [rounds EXCEPT ![c] = h] /\ finishing[c] = NoRound
      /\ UNCHANGED <<finishing, alarms, net>>
  BY DEF Open
<1> HIDE DEF h
<1>4. rounds' \in [Coordinators -> Nat]
  BY <1>1, <1>3 DEF FairInv, RoundsOK, Hands
<1>5. RoundsOK'
  BY <1>2, <1>3, <1>4, RoundStep DEF FairInv
<1>6. MineOK' /\ StartingOK'
  BY <1>1, <1>3, StartCommitStep DEF FairInv
<1> QED  BY <1>3, <1>5, <1>6 DEF FairInv, NetOK, MsgOK, CollectedBy, AlarmsOK

LEMMA FinishInv ==
  ASSUME FairInv, NEW c \in Coordinators, Finish(c)
  PROVE  FairInv'
<1>1. RoundOK(c, round[c]) /\ AllRevealed(round[c]) /\ round[c] \in RoundType
  BY DEF FairInv, RoundsOK, Finish
<1>2. RoundOK(c, NoRound) /\ NoRound \in RoundType
  BY NoRoundOK DEF RoundOK
<1>3. /\ finishing' = [finishing EXCEPT ![c] = round[c]]
      /\ round' = [round EXCEPT ![c] = NoRound] /\ UNCHANGED <<rounds, starting, mine, alarms, net>>
  BY DEF Finish, peerVars
<1>4. RoundsOK'
  <2>1. round' \in [Coordinators -> RoundType] /\ finishing' \in [Coordinators -> RoundType]
    BY <1>1, <1>2, <1>3 DEF FairInv, RoundsOK
  <2>2. ASSUME NEW d \in Coordinators
        PROVE  /\ RoundOK(d, round'[d]) /\ RoundOK(d, finishing'[d])
               /\ AllRevealed(finishing'[d]) /\ (round'[d] = NoRound \/ finishing'[d] = NoRound)
    BY <1>1, <1>2, <1>3 DEF FairInv, RoundsOK
  <2>3. ASSUME NEW d \in Coordinators
        PROVE  /\ RoundOK(d, round[d])' <=> RoundOK(d, round'[d])
               /\ RoundOK(d, finishing[d])' <=> RoundOK(d, finishing'[d])
               /\ AllRevealed(finishing[d])' <=> AllRevealed(finishing'[d])
    BY DEF RoundOK, AllCommitted, AllRevealed
  <2> QED  BY <1>3, <2>1, <2>2, <2>3 DEF FairInv, RoundsOK
<1> QED  BY <1>3, <1>4
         DEF FairInv, StartingOK, MineOK, NetOK, MsgOK, CollectedBy, AlarmsOK

LEMMA AskRevealsInv ==
  ASSUME FairInv, NEW c \in Coordinators, AskReveals(c)
  PROVE  FairInv'
<1> DEFINE r == [round[c] EXCEPT !.asked = TRUE]
           m == [type |-> "reveal_req", from |-> c, hand |-> round[c].hand]
<1>1. /\ RoundOK(c, round[c]) /\ round[c].hand \in Hands /\ finishing[c] = NoRound
      /\ AllCommitted(round[c])
  BY OpenRoundHere DEF AskReveals, FairInv
<1>2. round[c].hand # 0
  BY <1>1, FairSeedAssumption DEF Hands
<1>3. RoundOK(c, r)
  BY <1>1, <1>2, OpenRound
<1>4. m \in FairMsg /\ MsgOK(m)
  BY <1>1 DEF FairMsg, Hands, MsgOK
<1>5. /\ round' = [round EXCEPT ![c] = r] /\ net' = net \cup {m}
      /\ UNCHANGED <<finishing, rounds, starting, mine, alarms>>
  BY DEF AskReveals, peerVars, FairInv, RoundsOK
<1> HIDE DEF r, m
<1>6. RoundsOK'
  BY <1>1, <1>3, <1>5, RoundStep DEF FairInv, RoundsOK
<1>7. NetOK'
  BY <1>4, <1>5, SendStep DEF FairInv
<1> QED  BY <1>5, <1>6, <1>7 DEF FairInv, StartingOK, MineOK, AlarmsOK

LEMMA ExcludeInv ==
  ASSUME FairInv, NEW c \in Coordinators, Exclude(c)
  PROVE  FairInv'
<1> DEFINE r == round[c]
           new == NewRound(r.hand, Kept(r), r.opening)
<1>1. RoundOK(c, r) /\ r \in RoundType /\ r.hand \in Hands /\ finishing[c] = NoRound
  BY OpenRoundHere DEF Exclude, FairInv
<1>2. Kept(r) \in SUBSET Peers /\ r.opening \in SUBSET ((Peers \ {c}) \X {1})
  BY <1>1 DEF RoundType, RoundOK, Kept
<1>3. RoundOK(c, new)
  BY <1>1, <1>2, NewRoundOK
<1>4. /\ round' = [round EXCEPT ![c] = new] /\ StartCommit(c, r.hand, Kept(r))
      /\ UNCHANGED <<finishing, rounds, alarms, net>>
  BY DEF Exclude
<1> HIDE DEF r, new
<1>5. RoundsOK'
  BY <1>1, <1>3, <1>4, RoundStep DEF FairInv, RoundsOK
<1>6. MineOK' /\ StartingOK'
  BY <1>1, <1>2, <1>4, StartCommitStep DEF FairInv
<1> QED  BY <1>4, <1>5, <1>6 DEF FairInv, NetOK, MsgOK, CollectedBy, AlarmsOK

LEMMA AbandonInv ==
  ASSUME FairInv, NEW c \in Coordinators, Abandon(c)
  PROVE  FairInv'
<1>1. finishing[c] = NoRound
  BY OpenRoundHere DEF Abandon, FairInv
<1>2. /\ round' = [round EXCEPT ![c] = NoRound]
      /\ UNCHANGED <<finishing, rounds, starting, mine, alarms, net>>
  BY DEF Abandon, peerVars
<1>3. RoundsOK'
  BY <1>1, <1>2, NoRoundOK, RoundStep DEF FairInv, RoundsOK
<1> QED  BY <1>2, <1>3 DEF FairInv, StartingOK, MineOK, NetOK, MsgOK, CollectedBy, AlarmsOK

LEMMA OwnCommitInv ==
  ASSUME FairInv, NEW c \in Coordinators, NEW f \in starting[c], OwnCommit(c, f)
  PROVE  FairInv'
<1> DEFINE m == [type |-> "commit_req", from |-> c, hand |-> f.hand, members |-> f.members]
<1>1. f \in [hand : Hands, members : SUBSET Peers, share : Nat \ {NoShare}]
  BY DEF FairInv, StartingOK
<1>2. m \in FairMsg /\ MsgOK(m)
  BY <1>1 DEF FairMsg, Hands, MsgOK
<1>3. /\ starting' = [starting EXCEPT ![c] = @ \ {f}] /\ net' = net \cup {m}
      /\ UNCHANGED <<finishing, rounds, mine, alarms>>
  BY DEF OwnCommit, peerVars
<1>4. RoundsOK'
  <2>1. CASE round[c].hand # f.hand
    <3>1. round' = round  BY <2>1 DEF OwnCommit
    <3> QED  BY <1>3, <3>1 DEF FairInv, RoundsOK, RoundOK, AllCommitted, AllRevealed
  <2>2. CASE round[c].hand = f.hand
    <3> DEFINE r == [round[c] EXCEPT !.commit[c] = f.share, !.share[c] = f.share]
    <3>1. round[c].hand # 0
      BY <1>1, <2>2, FairSeedAssumption DEF Hands
    <3>2. RoundOK(c, round[c]) /\ finishing[c] = NoRound /\ round[c] \in RoundType
      BY <3>1, OpenRoundHere DEF FairInv
    <3>3. RoundOK(c, r)
      BY <1>1, <3>1, <3>2, OpenRound
    <3>4. round' = [round EXCEPT ![c] = r]
      BY <2>2, <3>2 DEF OwnCommit, FairInv, RoundsOK, RoundType
    <3> HIDE DEF r
    <3> QED  BY <1>3, <3>2, <3>3, <3>4, RoundStep DEF FairInv, RoundsOK
  <2> QED  BY <2>1, <2>2
<1> HIDE DEF m
<1>5. NetOK'
  BY <1>2, <1>3, SendStep DEF FairInv
<1>6. StartingOK'
  BY <1>3 DEF FairInv, StartingOK
<1> QED  BY <1>3, <1>4, <1>5, <1>6 DEF FairInv, MineOK, AlarmsOK

LEMMA DeliverInv ==
  ASSUME FairInv, NEW c \in Coordinators, Deliver(c)
  PROVE  FairInv'
<1> DEFINE r == finishing[c]
           m == [type |-> "seed", from |-> c, hand |-> r.hand, members |-> r.members,
                 share |-> r.share, commit |-> r.commit]
<1>1. RoundOK(c, r) /\ AllRevealed(r) /\ r.hand # 0
  BY DEF FairInv, RoundsOK, RoundOK, Deliver
<1>2. r \in RoundType /\ r.hand \in Hands
  BY <1>1, OpenRound
<1>3. m \in FairMsg
  <2>1. r.members \in SUBSET Peers /\ r.share \in [Peers -> Nat] /\ r.commit \in [Peers -> Nat]
    BY <1>2 DEF RoundType
  <2> HIDE DEF r
  <2> QED  BY <1>2, <2>1 DEF FairMsg, Hands
<1>4. MsgOK(m)
  BY <1>1 DEF MsgOK, RoundOK, AllRevealed
<1>5. RoundOK(c, NoRound) /\ AllRevealed(NoRound) /\ NoRound \in RoundType
  BY NoRoundOK DEF RoundOK
<1>6. /\ finishing' = [finishing EXCEPT ![c] = NoRound] /\ net' = net \cup {m}
      /\ UNCHANGED <<round, rounds, starting, mine, alarms>>
  BY DEF Deliver, peerVars
<1>7. RoundsOK'
  <2>1. finishing' \in [Coordinators -> RoundType]
    BY <1>5, <1>6 DEF FairInv, RoundsOK
  <2>2. ASSUME NEW d \in Coordinators
        PROVE  RoundOK(d, finishing'[d]) /\ AllRevealed(finishing'[d])
               /\ (round[d] = NoRound \/ finishing'[d] = NoRound)
    BY <1>5, <1>6 DEF FairInv, RoundsOK
  <2>3. ASSUME NEW d \in Coordinators
        PROVE  /\ RoundOK(d, round[d])' <=> RoundOK(d, round'[d])
               /\ RoundOK(d, finishing[d])' <=> RoundOK(d, finishing'[d])
               /\ AllRevealed(finishing[d])' <=> AllRevealed(finishing'[d])
    BY DEF RoundOK, AllCommitted, AllRevealed
  <2> QED  BY <1>6, <2>1, <2>2, <2>3 DEF FairInv, RoundsOK
<1> HIDE DEF m
<1>8. NetOK'
  BY <1>3, <1>4, <1>6, SendStep DEF FairInv
<1> QED  BY <1>6, <1>7, <1>8 DEF FairInv, StartingOK, MineOK, AlarmsOK

\* An answer with the peer's own share.
LEMMA AnswerOK ==
  ASSUME NEW p \in Peers, NEW c \in Coordinators \ {p}, NEW h \in Hands,
         NEW t \in {"commit", "reveal"}
  PROVE  LET m == [type |-> t, from |-> p, to |-> c, hand |-> h, share |-> 1]
         IN  m \in FairMsg /\ MsgOK(m)
  BY DEF FairMsg, Hands, MsgOK

LEMMA OnCommitReqInv ==
  ASSUME FairInv, NEW p \in Peers, NEW m \in net, OnCommitReq(p, m)
  PROVE  FairInv'
<1> DEFINE k == RoundKey(m.from, m.hand)
           answer == [type |-> "commit", from |-> p, to |-> m.from, hand |-> m.hand, share |-> 1]
<1>1. m.from \in Coordinators \ {p} /\ m.hand \in Hands
  BY FrameFields DEF OnCommitReq, FairInv, NetOK
<1>2. k \in Keys /\ k[1] # p
  BY <1>1, KeyIsKey
<1>3. OwnShare(p, k) = 1
  BY <1>2 DEF OwnShare, FairInv, MineOK, NoShare
<1>4. /\ mine' = [mine EXCEPT ![p][k] = 1] /\ net' = net \cup {answer}
      /\ UNCHANGED <<round, finishing, rounds, starting, alarms>>
  BY <1>3 DEF OnCommitReq, roundVars
<1>5. answer \in FairMsg /\ MsgOK(answer)
  BY <1>1, AnswerOK
<1> HIDE DEF k, answer
<1>6. MineOK'
  BY <1>2, <1>4 DEF FairInv, MineOK
<1>7. NetOK'
  BY <1>4, <1>5, SendStep DEF FairInv
<1> QED  BY <1>4, <1>6, <1>7
         DEF FairInv, RoundsOK, RoundOK, AllCommitted, AllRevealed, StartingOK, AlarmsOK

LEMMA OnRevealReqInv ==
  ASSUME FairInv, NEW p \in Peers, NEW m \in net, OnRevealReq(p, m)
  PROVE  FairInv'
<1> DEFINE k == RoundKey(m.from, m.hand)
           answer == [type |-> "reveal", from |-> p, to |-> m.from, hand |-> m.hand, share |-> 1]
<1>1. m.from \in Coordinators \ {p} /\ m.hand \in Hands
  BY FrameFields DEF OnRevealReq, FairInv, NetOK
<1>2. k \in Keys /\ k[1] # p
  BY <1>1, KeyIsKey
<1>3. mine[p][k] = 1
  BY <1>2 DEF OnRevealReq, FairInv, MineOK, NoShare
<1>4. /\ net' = net \cup {answer}
      /\ UNCHANGED <<round, finishing, rounds, starting, mine, alarms>>
  BY <1>3 DEF OnRevealReq, roundVars, peerVars
<1>5. answer \in FairMsg /\ MsgOK(answer)
  BY <1>1, AnswerOK
<1> HIDE DEF k, answer
<1>6. NetOK'
  BY <1>4, <1>5, SendStep DEF FairInv
<1> QED  BY <1>4, <1>6
         DEF FairInv, RoundsOK, RoundOK, AllCommitted, AllRevealed, StartingOK, MineOK, AlarmsOK

LEMMA OnCommitInv ==
  ASSUME FairInv, NEW c \in Coordinators, NEW m \in net, OnCommit(c, m)
  PROVE  FairInv'
<1> DEFINE r == [round[c] EXCEPT !.commit[m.from] = 1]
<1>1. m.from \in Peers \ {c} /\ m.share = 1 /\ round[c].hand # 0
  BY FrameFields, FairSeedAssumption DEF OnCommit, ForRound, FairInv, NetOK, MsgOK, Hands
<1>2. RoundOK(c, round[c]) /\ finishing[c] = NoRound
  BY <1>1, OpenRoundHere DEF FairInv
<1>3. RoundOK(c, r)
  BY <1>1, <1>2, OpenRound
<1>4. /\ round' = [round EXCEPT ![c] = r]
      /\ UNCHANGED <<finishing, rounds, starting, mine, alarms, net>>
  BY <1>1 DEF OnCommit, peerVars, FairInv, RoundsOK
<1> HIDE DEF r
<1>5. RoundsOK'
  BY <1>2, <1>3, <1>4, RoundStep DEF FairInv, RoundsOK
<1> QED  BY <1>4, <1>5 DEF FairInv, StartingOK, MineOK, NetOK, MsgOK, CollectedBy, AlarmsOK

LEMMA OnRevealInv ==
  ASSUME FairInv, NEW c \in Coordinators, NEW m \in net, OnReveal(c, m)
  PROVE  FairInv'
<1> DEFINE x == <<m.from, m.share>>
           r == [round[c] EXCEPT !.opening = @ \cup {x}]
<1>1. x \in (Peers \ {c}) \X {1} /\ round[c].hand # 0
  BY FrameFields, FairSeedAssumption DEF OnReveal, ForRound, FairInv, NetOK, MsgOK, Hands
<1>2. RoundOK(c, round[c]) /\ finishing[c] = NoRound
  BY <1>1, OpenRoundHere DEF FairInv
<1>3. RoundOK(c, r)
  BY <1>1, <1>2, OpenRound
<1>4. /\ round' = [round EXCEPT ![c] = r]
      /\ UNCHANGED <<finishing, rounds, starting, mine, alarms, net>>
  BY DEF OnReveal, peerVars, FairInv, RoundsOK
<1> HIDE DEF x, r
<1>5. RoundsOK'
  BY <1>2, <1>3, <1>4, RoundStep DEF FairInv, RoundsOK
<1> QED  BY <1>4, <1>5 DEF FairInv, StartingOK, MineOK, NetOK, MsgOK, CollectedBy, AlarmsOK

LEMMA OpenedInv ==
  ASSUME FairInv, NEW c \in Coordinators, NEW x \in round[c].opening, Opened(c, x)
  PROVE  FairInv'
<1> DEFINE r == [round[c] EXCEPT !.opening = @ \ {x}, !.share[x[1]] = x[2]]
<1>1. round[c] # NoRound
  BY DEF NoRound, NewRound
<1>2. /\ RoundOK(c, round[c]) /\ round[c] \in RoundType /\ round[c].hand # 0
      /\ finishing[c] = NoRound
  BY <1>1, OpenRoundHere, FairSeedAssumption DEF FairInv, Hands
<1>3. RoundOK(c, r)
  BY <1>2, OpenRound
<1>4. /\ round' = [round EXCEPT ![c] = r]
      /\ UNCHANGED <<finishing, rounds, starting, mine, alarms, net>>
  BY <1>2 DEF Opened, peerVars, FairInv, RoundsOK, RoundType
<1> HIDE DEF r
<1>5. RoundsOK'
  BY <1>2, <1>3, <1>4, RoundStep DEF FairInv, RoundsOK
<1> QED  BY <1>4, <1>5 DEF FairInv, StartingOK, MineOK, NetOK, MsgOK, CollectedBy, AlarmsOK

\* Every seed that is sent is found honest.
LEMMA SeedsAreHonest ==
  ASSUME FairInv, NEW p \in Peers, NEW m \in net, m.type = "seed", p # m.from
  PROVE  SeedIsHonest(p, m)
<1> DEFINE own == mine[p][RoundKey(m.from, m.hand)]
<1>1. /\ m.from \in Coordinators /\ m.hand \in Hands /\ m.members \in SUBSET Peers
      /\ CollectedBy(m.from, m.commit, m.share) /\ \A q \in m.members : m.share[q] # NoShare
  BY FrameFields DEF FairInv, NetOK, MsgOK
<1>2. own \in {0, 1}
  BY <1>1, KeyIsKey DEF FairInv, MineOK
<1>3. \A q \in m.members : m.commit[q] \in {NoShare, m.share[q]}
  BY <1>1 DEF CollectedBy, NoShare
<1>4. own # NoShare /\ p \in m.members => m.share[p] = own
  BY <1>1, <1>2 DEF CollectedBy, NoShare
<1> QED  BY <1>3, <1>4 DEF SeedIsHonest

LEMMA FairInvStep ==
  ASSUME FairInv, [Next]_vars
  PROVE  FairInv'
<1>1. ASSUME NEW c \in Coordinators,
             \/ Open(c) \/ Finish(c) \/ AskReveals(c) \/ Exclude(c) \/ Abandon(c) \/ Deliver(c)
             \/ \E f \in starting[c] : OwnCommit(c, f)
             \/ \E x \in round[c].opening : Opened(c, x)
      PROVE  FairInv'
  BY <1>1, OpenInv, FinishInv, AskRevealsInv, ExcludeInv, AbandonInv, DeliverInv, OwnCommitInv,
     OpenedInv
<1>2. ASSUME NEW p \in Peers, NEW m \in net, Frame(p, m)
      PROVE  FairInv'
  <2>1. ~OnSeed(p, m)
    BY SeedsAreHonest DEF OnSeed
  <2> QED  BY <1>2, <2>1, OnCommitReqInv, OnRevealReqInv, OnCommitInv, OnRevealInv DEF Frame
<1>3. ASSUME UNCHANGED <<roundVars, peerVars, net>>
      PROVE  FairInv'
  BY <1>3 DEF FairInv, RoundsOK, RoundOK, AllCommitted, AllRevealed, StartingOK, MineOK, NetOK,
     MsgOK, CollectedBy, AlarmsOK, roundVars, peerVars
<1>4. ASSUME NEW c \in Coordinators, Moves(c) \/ HandOver(c)
      PROVE  UNCHANGED <<roundVars, peerVars, net>>
  BY <1>4 DEF Moves, HandOver
<1>5. UNCHANGED vars => UNCHANGED <<roundVars, peerVars, net>>
  BY DEF vars
<1> QED  BY <1>1, <1>2, <1>3, <1>4, <1>5 DEF Next

-----------------------------------------------------------------------------
(* Theorems *)

THEOREM FairInvAlways == Spec => []FairInv
<1>1. Init => FairInv  BY FairInvInit
<1>2. FairInv /\ [Next]_vars => FairInv'  BY FairInvStep
<1> QED  BY <1>1, <1>2, PTL DEF Spec

\* Peers that follow the protocol are never taken for dishonest ones (seedIsHonest,
\* meshseed.ts:168): whatever frames are lost, late or repeated, whoever coordinates, and
\* however often a round starts again without some peer.
THEOREM NoFalseAlarmEver == Spec => []NoFalseAlarm
<1>1. FairInv => NoFalseAlarm
  <2> SUFFICES ASSUME FairInv PROVE NoFalseAlarm
    OBVIOUS
  <2>1. TypeOK
    BY DEF FairInv, NetOK, RoundsOK, RoundOK, AllCommitted, TypeOK
  <2> QED  BY <2>1 DEF FairInv, AlarmsOK, NoFalseAlarm
<1> QED  BY <1>1, FairInvAlways, PTL

\* What the service sees of a step: the coordinator whose round changes.
LEMMA StateStep ==
  ASSUME FairInv, NEW c \in Coordinators,
         \A d \in Coordinators \ {c} : round'[d] = round[d] /\ finishing'[d] = finishing[d]
  PROVE  RoundStates' = [RoundStates EXCEPT ![c] = RoundOf(c)'] /\ RoundStates[c] = RoundOf(c)
  BY DEF RoundStates, RoundOf

\* A round that stays open, or absent, for the service.
LEMMA StateStutter ==
  ASSUME FairInv,
         \A d \in Coordinators :
           (round'[d] = NoRound <=> round[d] = NoRound) /\ finishing'[d] = finishing[d]
  PROVE  UNCHANGED RoundStates
  BY DEF RoundStates, RoundOf

LEMMA ServiceStep ==
  ASSUME FairInv, FairInv', [Next]_vars
  PROVE  [Service!Next]_RoundStates
<1>0. NoRound.hand = 0 /\ (\A c \in Coordinators : round[c].hand = 0 <=> round[c] = NoRound)
      /\ (\A c \in Coordinators : round'[c].hand = 0 <=> round'[c] = NoRound)
  BY NoRoundOK DEF FairInv, RoundsOK, RoundOK, NoRound, NewRound
<1>1. ASSUME NEW c \in Coordinators, Open(c)
      PROVE  Service!Open(c)
  <2>1. rounds[c] + 1 # 0 /\ finishing'[c] = NoRound /\ round'[c].hand = rounds[c] + 1
    BY <1>1 DEF Open, FairInv, RoundsOK, NewRound
  <2>2. RoundOf(c) = "none" /\ RoundOf(c)' = "open"
    BY <1>0, <1>1, <2>1 DEF Open, RoundOf
  <2>3. \A d \in Coordinators \ {c} : round'[d] = round[d] /\ finishing'[d] = finishing[d]
    BY <1>1 DEF Open, FairInv, RoundsOK
  <2> QED  BY <2>2, <2>3, StateStep DEF Service!Open, Service!Step
<1>2. ASSUME NEW c \in Coordinators, Finish(c)
      PROVE  Service!Complete(c)
  <2>1. finishing[c] = NoRound /\ finishing'[c] # NoRound /\ round[c] # NoRound
    BY <1>2 DEF Finish, FairInv, RoundsOK
  <2>2. RoundOf(c) = "open" /\ RoundOf(c)' = "complete"
    BY <2>1 DEF RoundOf
  <2>3. \A d \in Coordinators \ {c} : round'[d] = round[d] /\ finishing'[d] = finishing[d]
    BY <1>2 DEF Finish, FairInv, RoundsOK
  <2> QED  BY <2>2, <2>3, StateStep DEF Service!Complete, Service!Step
<1>3. ASSUME NEW c \in Coordinators, Deliver(c)
      PROVE  Service!Deliver(c)
  <2>1. finishing[c] # NoRound /\ finishing'[c] = NoRound /\ round'[c] = NoRound
    BY <1>3 DEF Deliver, FairInv, RoundsOK
  <2>2. RoundOf(c) = "complete" /\ RoundOf(c)' = "none"
    BY <2>1 DEF RoundOf
  <2>3. \A d \in Coordinators \ {c} : round'[d] = round[d] /\ finishing'[d] = finishing[d]
    BY <1>3 DEF Deliver, FairInv, RoundsOK
  <2> QED  BY <2>2, <2>3, StateStep DEF Service!Deliver, Service!Step
<1>4. ASSUME NEW c \in Coordinators, Abandon(c)
      PROVE  Service!Abandon(c)
  <2>1. finishing[c] = NoRound /\ finishing'[c] = NoRound
        /\ round[c] # NoRound /\ round'[c] = NoRound
    BY <1>4 DEF Abandon, FairInv, RoundsOK
  <2>2. RoundOf(c) = "open" /\ RoundOf(c)' = "none"
    BY <2>1 DEF RoundOf
  <2>3. \A d \in Coordinators \ {c} : round'[d] = round[d] /\ finishing'[d] = finishing[d]
    BY <1>4 DEF Abandon, FairInv, RoundsOK
  <2> QED  BY <2>2, <2>3, StateStep DEF Service!Abandon, Service!Step
<1>5. ASSUME \A d \in Coordinators : round'[d].hand = round[d].hand, UNCHANGED finishing
      PROVE  UNCHANGED RoundStates
  BY <1>0, <1>5, StateStutter
<1>6. ASSUME NEW c \in Coordinators,
             \/ AskReveals(c) \/ Exclude(c)
             \/ \E f \in starting[c] : OwnCommit(c, f)
             \/ \E x \in round[c].opening : Opened(c, x)
             \/ \E m \in net : OnCommit(c, m) \/ OnReveal(c, m)
      PROVE  UNCHANGED RoundStates
  <2>1. round \in [Coordinators -> RoundType]
    BY DEF FairInv, RoundsOK
  <2>2. CASE AskReveals(c)
    BY <1>5, <2>1, <2>2 DEF AskReveals, RoundType
  <2>3. CASE Exclude(c)
    BY <1>5, <2>1, <2>3 DEF Exclude, RoundType, NewRound
  <2>4. CASE \E f \in starting[c] : OwnCommit(c, f)
    BY <1>5, <2>1, <2>4 DEF OwnCommit, RoundType
  <2>5. CASE \E x \in round[c].opening : Opened(c, x)
    BY <1>5, <2>1, <2>5 DEF Opened, RoundType
  <2>6. CASE \E m \in net : OnCommit(c, m) \/ OnReveal(c, m)
    BY <1>5, <2>1, <2>6 DEF OnCommit, OnReveal, RoundType
  <2> QED  BY <1>6, <2>2, <2>3, <2>4, <2>5, <2>6
<1>7. ASSUME NEW p \in Peers, NEW m \in net, OnCommitReq(p, m) \/ OnRevealReq(p, m) \/ OnSeed(p, m)
      PROVE  UNCHANGED RoundStates
  BY <1>5, <1>7 DEF OnCommitReq, OnRevealReq, OnSeed, roundVars
<1>8. ASSUME NEW c \in Coordinators, Moves(c) \/ HandOver(c)
      PROVE  UNCHANGED RoundStates
  BY <1>5, <1>8 DEF Moves, HandOver, roundVars
<1>9. UNCHANGED vars => UNCHANGED RoundStates
  BY <1>5 DEF vars, roundVars
<1> QED  BY <1>1, <1>2, <1>3, <1>4, <1>6, <1>7, <1>8, <1>9 DEF Next, Frame, Service!Next

\* The safety part of ServesTheMesh: for the mesh a round only opens, gets complete, is
\* delivered once or is dropped (stepCoordinator, meshseed.ts:86), as Mesh takes it.
THEOREM RoundsServeTheMesh == Spec => Service!Init /\ [][Service!Next]_RoundStates
<1>1. Init => Service!Init
  BY NoRoundOK DEF Init, Service!Init, RoundStates, RoundOf
<1>2. FairInv /\ FairInv' /\ [Next]_vars => [Service!Next]_RoundStates
  BY ServiceStep
<1> QED  BY <1>1, <1>2, FairInvAlways, PTL DEF Spec
=============================================================================
