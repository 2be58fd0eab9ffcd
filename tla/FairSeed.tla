------------------------------ MODULE FairSeed ------------------------------
(***************************************************************************)
(* The commit-reveal round of nearby play (client/src/local/meshseed.ts,   *)
(* with the SeedRound of fairmp.ts and its calls in mesh.ts): the peers    *)
(* send hashes of random shares to the coordinator, then the shares, and   *)
(* the seed of the hand is the hash of all of them.                        *)
(*                                                                         *)
(* A share is a number, 0 for none, and the hash of a share is the share:  *)
(* nobody finds another one with the same hash.  A message stays in net:   *)
(* it may arrive late, more than once, out of order or never.  The two     *)
(* waits on WebCrypto that others can overtake, the own commitment and the *)
(* check of a reveal, are steps of their own.                              *)
(***************************************************************************)
EXTENDS Integers, FiniteSets, FiniteSetsExt

CONSTANTS
  Peers,
  Coordinators,    \* the peers that may get to coordinate
  MaxRounds,       \* bound: rounds of all coordinators
  MaxMoves         \* bound: times the role is gained or lost

ASSUME FairSeedAssumption ==
  Coordinators \subseteq Peers /\ MaxRounds \in Nat \ {0} /\ MaxMoves \in Nat

VARIABLES
  round,           \* [Coordinators -> the round it collects, or NoRound]
  finishing,       \* [Coordinators -> the round whose seed is being combined, or NoRound]
  rounds,          \* [Coordinators -> roundId]
  starting,        \* [Coordinators -> startCommit calls under way]
  mine,            \* [Peers -> [round keys -> the peer's own share]]
  net,             \* the messages sent
  leads,           \* the peers that take themselves for the coordinator
  dealing,         \* the peers that have logged a seed and wait for the end of its hand
  alarms,          \* [Peers -> seed messages it did not find honest]
  moves

roundVars == <<round, finishing, rounds, starting>>
peerVars  == <<mine, alarms>>
roleVars  == <<leads, dealing, moves>>
vars      == <<roundVars, peerVars, roleVars, net>>

NoShare == 0

\* roundKey.  The round number alone is the same for several coordinators.
Keys == Coordinators \X (1 .. MaxRounds)

\* Mutant: the round number alone.
RoundKeyNumber(c, hand) == <<CHOOSE d \in Coordinators : TRUE, hand>>

RoundKey(c, hand) == <<c, hand>>

\* A round may start with shares of an earlier attempt still being checked.
NewRound(hand, members, opening) ==
  [hand |-> hand, members |-> members, asked |-> FALSE, opening |-> opening,
   commit |-> [p \in Peers |-> NoShare], share |-> [p \in Peers |-> NoShare]]

NoRound == NewRound(0, {}, {})

AllCommitted(r) == \A p \in r.members : r.commit[p] # NoShare
AllRevealed(r)  == \A p \in r.members : r.share[p] # NoShare

Init ==
  /\ round = [c \in Coordinators |-> NoRound] /\ finishing = round
  /\ rounds = [c \in Coordinators |-> 0]
  /\ starting = [c \in Coordinators |-> {}]
  /\ mine = [p \in Peers |-> [k \in Keys |-> NoShare]]
  /\ net = {}
  /\ leads = {CHOOSE c \in Coordinators : TRUE} /\ dealing = {} /\ moves = 0
  /\ alarms = [p \in Peers |-> {}]

\* What the peers send each other; the seed itself is left out.
FairMsg ==
  LET Hand == 1 .. MaxRounds IN
  [type : {"commit_req"}, from : Coordinators, hand : Hand, members : SUBSET Peers]
  \cup [type : {"reveal_req"}, from : Coordinators, hand : Hand]
  \cup [type : {"commit", "reveal"}, from : Peers, to : Coordinators, hand : Hand, share : Nat]
  \cup [type : {"seed"}, from : Coordinators, hand : Hand, members : SUBSET Peers,
        share : [Peers -> Nat], commit : [Peers -> Nat]]

-----------------------------------------------------------------------------
(* The coordinator's beat (stepCoordinator) *)

\* startCommit up to its first wait: a new share of one's own in each attempt.
StartCommit(c, hand, members) ==
  LET n == mine[c][RoundKey(c, hand)] + 1
  IN  /\ mine' = [mine EXCEPT ![c][RoundKey(c, hand)] = n]
      /\ starting' = [starting EXCEPT ![c] =
                        @ \cup {[hand |-> hand, members |-> members, share |-> n]}]

Steps(c) == c \in leads \ dealing

\* The seed of a round that is over is combined long before the next beat.
Open(c) ==
  LET hand == rounds[c] + 1
  IN  /\ Steps(c) /\ round[c] = NoRound /\ finishing[c] = NoRound
      /\ hand <= MaxRounds /\ MapThenSumSet(LAMBDA d : rounds[d], Coordinators) < MaxRounds
      /\ rounds' = [rounds EXCEPT ![c] = hand]
      /\ round'  = [round EXCEPT ![c] = NewRound(hand, Peers, {})]
      /\ StartCommit(c, hand, Peers)
      /\ UNCHANGED <<finishing, alarms, roleVars, net>>

\* finishRound up to its wait.
Finish(c) ==
  /\ Steps(c) /\ round[c] # NoRound /\ AllRevealed(round[c])
  /\ finishing' = [finishing EXCEPT ![c] = round[c]]
  /\ round' = [round EXCEPT ![c] = NoRound]
  /\ UNCHANGED <<rounds, starting, peerVars, roleVars, net>>

AskReveals(c) ==
  LET r == round[c]
  IN  /\ Steps(c) /\ r # NoRound /\ ~AllRevealed(r) /\ AllCommitted(r) /\ ~r.asked
      /\ round' = [round EXCEPT ![c].asked = TRUE]
      /\ net' = net \cup {[type |-> "reveal_req", from |-> c, hand |-> r.hand]}
      /\ UNCHANGED <<finishing, rounds, starting, peerVars, roleVars>>

\* Mutant: who committed is not missing.
KeptCommitted(r) == {p \in r.members : r.commit[p] # NoShare}

Kept(r) == {p \in r.members : r.share[p] # NoShare}

\* The round timeout: who has not revealed is excluded, and the others start again under
\* the same round number.  By then the coordinator has opened its own share.
Exclude(c) ==
  LET r == round[c]
  IN  /\ Steps(c) /\ r # NoRound /\ ~AllRevealed(r) /\ (AllCommitted(r) => r.asked)
      /\ r.share[c] # NoShare /\ Kept(r) # r.members
      /\ round' = [round EXCEPT ![c] = NewRound(r.hand, Kept(r), r.opening)]
      /\ StartCommit(c, r.hand, Kept(r))
      /\ UNCHANGED <<finishing, rounds, alarms, roleVars, net>>

\* The beat of a peer that does not coordinate.
Abandon(c) ==
  /\ c \notin leads /\ round[c] # NoRound
  /\ round' = [round EXCEPT ![c] = NoRound]
  /\ UNCHANGED <<finishing, rounds, starting, peerVars, roleVars, net>>

\* startCommit after its wait; the round may have been abandoned meanwhile.
OwnCommit(c, f) ==
  /\ f \in starting[c]
  /\ starting' = [starting EXCEPT ![c] = @ \ {f}]
  /\ round' = IF round[c].hand # f.hand THEN round
              ELSE [round EXCEPT ![c].commit[c] = f.share, ![c].share[c] = f.share]
  /\ net' = net \cup {[type |-> "commit_req", from |-> c, hand |-> f.hand, members |-> f.members]}
  /\ UNCHANGED <<finishing, rounds, peerVars, roleVars>>

\* finishRound after its wait: the peers get all that goes into the seed, and the mesh
\* logs it (onSeedReady), whoever coordinates by then.
Deliver(c) ==
  LET r == finishing[c]
  IN  /\ r # NoRound
      /\ finishing' = [finishing EXCEPT ![c] = NoRound]
      /\ net' = net \cup {[type |-> "seed", from |-> c, hand |-> r.hand, members |-> r.members,
                           share |-> r.share, commit |-> r.commit]}
      /\ dealing' = dealing \cup {c}
      /\ UNCHANGED <<round, rounds, starting, peerVars, leads, moves>>

-----------------------------------------------------------------------------
(* Frames (handle) *)

\* A second request gets the share of the first one.
OwnShare(p, k) == IF mine[p][k] = NoShare THEN 1 ELSE mine[p][k]

OnCommitReq(p, m) ==
  LET k == RoundKey(m.from, m.hand)
  IN  /\ m \in net /\ m.type = "commit_req" /\ p \in m.members \ {m.from}
      /\ mine' = [mine EXCEPT ![p][k] = OwnShare(p, k)]
      /\ net' = net \cup {[type |-> "commit", from |-> p, to |-> m.from, hand |-> m.hand,
                           share |-> OwnShare(p, k)]}
      /\ UNCHANGED <<roundVars, alarms, roleVars>>

ForRound(c, m) == c \in leads /\ m.to = c /\ round[c].hand = m.hand

OnCommit(c, m) ==
  /\ m \in net /\ m.type = "commit" /\ ForRound(c, m) /\ m.from \in round[c].members
  /\ round' = [round EXCEPT ![c].commit[m.from] = m.share]
  /\ UNCHANGED <<finishing, rounds, starting, peerVars, roleVars, net>>

OnRevealReq(p, m) ==
  LET share == mine[p][RoundKey(m.from, m.hand)]
  IN  /\ m \in net /\ m.type = "reveal_req" /\ p # m.from /\ share # NoShare
      /\ net' = net \cup {[type |-> "reveal", from |-> p, to |-> m.from, hand |-> m.hand,
                           share |-> share]}
      /\ UNCHANGED <<roundVars, peerVars, roleVars>>

\* addReveal up to its wait: the share is checked against the commitment of now.
OnReveal(c, m) ==
  /\ m \in net /\ m.type = "reveal" /\ ForRound(c, m)
  /\ round[c].commit[m.from] = m.share
  /\ round' = [round EXCEPT ![c].opening = @ \cup {<<m.from, m.share>>}]
  /\ UNCHANGED <<finishing, rounds, starting, peerVars, roleVars, net>>

\* addReveal after its wait; the round may have started again meanwhile.
Opened(c, x) ==
  /\ x \in round[c].opening
  /\ round' = [round EXCEPT ![c].opening = @ \ {x}, ![c].share[x[1]] = x[2]]
  /\ UNCHANGED <<finishing, rounds, starting, peerVars, roleVars, net>>

\* seedIsHonest.  That the seed is the hash of the shares holds for every sender here.
SeedIsHonest(p, m) ==
  LET own == mine[p][RoundKey(m.from, m.hand)]
  IN  /\ \A q \in m.members : m.commit[q] \in {NoShare, m.share[q]}
      /\ own # NoShare /\ p \in m.members => m.share[p] = own

\* onDishonest.  A seed found honest changes nothing that matters here.
OnSeed(p, m) ==
  /\ m \in net /\ m.type = "seed" /\ p # m.from
  /\ ~SeedIsHonest(p, m)
  /\ alarms' = [alarms EXCEPT ![p] = @ \cup {m}]
  /\ UNCHANGED <<roundVars, mine, roleVars, net>>

-----------------------------------------------------------------------------
(* The mesh around it *)

\* The view or the heartbeats of a peer give it the role, or take it.
Moves(c) ==
  /\ moves < MaxMoves /\ moves' = moves + 1
  /\ leads' = IF c \in leads THEN leads \ {c} ELSE leads \cup {c}
  /\ UNCHANGED <<roundVars, peerVars, dealing, net>>

\* The hand of the seed is dealt and over, or void.
HandOver(c) ==
  /\ c \in dealing
  /\ dealing' = dealing \ {c}
  /\ UNCHANGED <<roundVars, peerVars, leads, moves, net>>

Frame(p, m) ==
  \/ OnCommitReq(p, m) \/ OnRevealReq(p, m) \/ OnSeed(p, m)
  \/ p \in Coordinators /\ (OnCommit(p, m) \/ OnReveal(p, m))

Next ==
  \/ \E c \in Coordinators :
       \/ Open(c) \/ Finish(c) \/ AskReveals(c) \/ Exclude(c) \/ Abandon(c) \/ Deliver(c)
       \/ \E f \in starting[c] : OwnCommit(c, f)
       \/ \E x \in round[c].opening : Opened(c, x)
       \/ Moves(c) \/ HandOver(c)
  \/ \E p \in Peers, m \in net : Frame(p, m)

\* Beats and timeouts come, and WebCrypto answers; no message need ever arrive.
Fairness ==
  \A c \in Coordinators :
    /\ WF_vars(Finish(c)) /\ WF_vars(AskReveals(c)) /\ WF_vars(Exclude(c)) /\ WF_vars(Abandon(c))
    /\ WF_vars(Deliver(c)) /\ WF_vars(\E f \in starting[c] : OwnCommit(c, f))

Spec == Init /\ [][Next]_vars /\ Fairness

-----------------------------------------------------------------------------
(* Properties *)

RoundOf(c) ==
  IF finishing[c] # NoRound THEN "complete" ELSE IF round[c] # NoRound THEN "open" ELSE "none"

RoundStates == [c \in Coordinators |-> RoundOf(c)]

Service == INSTANCE SeedService WITH round <- RoundStates

\* To the mesh a round with lost, late and repeated messages is one that opens and
\* completes; nobody's silence, and no lost message, keeps it open (meshseed.ts:5).
ServesTheMesh == Service!Spec

\* Frames have their types, and a share is committed before it is opened.
TypeOK ==
  /\ net \subseteq FairMsg
  /\ \A c \in Coordinators, p \in Peers :
       round[c].asked /\ p \in round[c].members => round[c].commit[p] # NoShare

\* Among peers that follow the protocol none is taken for a dishonest dealer, whatever
\* happens to messages and roles.
NoFalseAlarm == TypeOK /\ \A p \in Peers : alarms[p] = {}

\* "Our own committed share is present and byte-identical in the reveal set"
\* (meshseed.ts:176): who committed and finds the seed honest is part of it.  A seed
\* without its commitment is found honest, too, which breaks it (no run checks it).
HonestMeansIncluded ==
  \A p \in Peers, m \in net :
    m.type = "seed" /\ mine[p][RoundKey(m.from, m.hand)] # NoShare /\ SeedIsHonest(p, m) =>
      p \in m.members /\ m.share[p] = mine[p][RoundKey(m.from, m.hand)]

=============================================================================
