-------------------------------- MODULE Mesh --------------------------------
(***************************************************************************)
(* Nearby play (client/src/local): peers without a server replicate a log  *)
(* of inputs to their table cores.  The peer that the dealer button makes  *)
(* the coordinator numbers the inputs; the others run them and compare the *)
(* state hashes.                                                           *)
(*                                                                         *)
(* Peer p sits in seat p, and peer 0 is the host.  Logs are counted from   *)
(* after the sit-downs.  An entry that was broadcast may reach a peer at   *)
(* any time from then on, live or by gossip: the buffer of early entries   *)
(* and the requests for missing ones only delay that.  A message that is   *)
(* lost is one that never arrives.  The fair-seed round is reduced to its  *)
(* beginning and its end, and clocks to what may be due.                   *)
(***************************************************************************)
EXTENDS LocalCore

CONSTANTS
  MaxEntries,     \* bound: entries broadcast, in all forks of the log
  Kinds,          \* what players do: a subset of {"act", "sit_in", "sit_out", "rebuy"}
  MaxActions,     \* bound: actions of all players
  MaxTries,       \* MAX_ACTION_TRIES: 5 in the code
  MaxLosses       \* bound: crashes, and live peers taken for gone

ASSUME MeshAssumption ==
  /\ {MaxEntries, MaxActions, MaxLosses} \subseteq Nat /\ MaxTries \in Nat \ {0}
  /\ Kinds \subseteq {"act", "sit_in", "sit_out", "rebuy"}

Peers == Seats
Host  == 0

VARIABLES
  node,         \* [Peers -> [core, log, view, dealing]]
  resyncing,    \* the peers that wait for a snapshot
  queue,        \* [Peers -> requests to be sequenced]
  processed,    \* [Peers -> ids of requests it accepted, and acknowledged]
  pending,      \* [Peers -> own requests without acknowledgement, with their tries]
  round,        \* [Peers -> the fair-seed round: "none", "open" or "complete"]
  sees,         \* [Peers -> peers whose heartbeats are fresh]
  up,           \* the peers that run
  sent,         \* every entry broadcast so far
  wire,         \* every request sent, with the peer it was sent to
  actions,      \* bound's counter, which also numbers the requests
  losses,       \* bound's counter
  undelivered,  \* history: requests given up
  leftover      \* history: who beat in a hand it coordinates with a round from before it

nodeVars == <<node, resyncing, round, leftover>>
reqVars  == <<queue, processed, pending, wire, actions, undelivered>>
netVars  == <<sees, up, losses>>
vars     == <<nodeVars, reqVars, netVars, sent>>

-----------------------------------------------------------------------------
(* The view, and who coordinates by it *)

\* out: the seats shown sitting out or without chips.
NewView == [out |-> {}, button |-> Nobody, running |-> FALSE]

\* updateView: hand_dealt goes to the dealt players alone, and only a seat list tells who
\* has chips.
UpdateView(view, p, o) ==
  LET dealt == "hand_dealt" \in o.told /\ p \in o.core.dealt
  IN  [out     |-> IF "seat_update" \in o.told THEN o.list ELSE view.out,
       button  |-> IF dealt THEN o.core.button ELSE view.button,
       running |-> dealt \/ (view.running /\ "showdown" \notin o.told)]

EligibleIn(view, alive) == alive \ view.out

\* Mutant: between hands the button itself is asked first.
CoordinatorSeatOld(view, alive) == FirstAfter(view.button - 1, EligibleIn(view, alive))

\* During a hand the button, before the next one the seat after it, or the first
\* after those that is alive and playing; Nobody if there is none.
CoordinatorSeat(view, alive) ==
  FirstAfter(IF view.running THEN view.button - 1 ELSE view.button, EligibleIn(view, alive))

Alive(p) == sees[p] \cup {p}

\* coordinatorPeerId: the host, if no seat is eligible.
Coordinator(p) ==
  LET seat == CoordinatorSeat(node[p].view, Alive(p)) IN IF seat = Nobody THEN Host ELSE seat

\* Mutant: who sees another peer coordinates.
IsCoordinatorAny(p) == Cardinality(Alive(p)) >= 2

\* Nobody coordinates who sees no other peer.
IsCoordinator(p) == Coordinator(p) = p /\ Cardinality(Alive(p)) >= 2

-----------------------------------------------------------------------------
(* Frames *)

\* id is the reqId: what the players do is told apart by it.
ActionRequest == [actor : Peers, kind : Kinds, id : 1 .. MaxActions]

\* A seed is left out: it is known by its entry.  So is the clock.
LogEntry ==
  [seq : 1 .. MaxEntries, kind : Kinds \cup {"seed", "void", "timeout", "sit_in"},
   actor : Peers, by : Peers, id : 0 .. MaxActions, hash : LocalTable]

-----------------------------------------------------------------------------
(* The log *)

NewNode == [core |-> NewLocalTable, log |-> <<>>, view |-> NewView, dealing |-> FALSE]

Quiet(c) == [core |-> c, told |-> {}, list |-> {}]

\* runOnCore
RunOnCore(c, e) ==
  CASE e.kind = "seed"    -> Quiet([c EXCEPT !.seed = <<e.by, e.seq>>])
    [] e.kind = "void"    -> VoidHand(Quiet(c))
    [] e.kind = "timeout" -> HandleFoldOnTimeout(Quiet(c))
    [] e.kind = "act"     -> HandleBet(Quiet(c), e.actor)
    [] e.kind = "sit_in"  -> HandleSitIn(Quiet(c), e.actor)
    [] e.kind = "sit_out" -> HandleSitOut(Quiet(c), e.actor)
    [] e.kind = "rebuy"   -> HandleRebuy(Quiet(c), e.actor)

\* An entry takes its place in the log and in the view of peer p (projectView).
Committed(n, p, e, o) ==
  LET dealt == "hand_dealt" \in o.told /\ p \in o.core.dealt
      view  == UpdateView(n.view, p, o)
  IN  [core    |-> o.core,
       log     |-> Append(n.log, e),
       view    |-> [view EXCEPT !.running = @ /\ e.kind # "void"],
       dealing |-> n.dealing /\ ~dealt]

NextSeq(n) == Len(n.log) + 1

\* emit: the coordinator numbers an input, runs it and stamps the hash.
Emit(n, p, kind, actor, id) ==
  LET e == [seq |-> NextSeq(n), kind |-> kind, actor |-> actor, by |-> p, id |-> id, hash |-> ""]
      o == RunOnCore(n.core, e)
  IN  Committed(n, p, [e EXCEPT !.hash = StateHash(o.core)], o)

NoId == 0

EmitAll(n, p, reqs) == FoldLeft(LAMBDA m, r : Emit(m, p, r.kind, r.actor, r.id), n, reqs)

\* The entries of `n' that are not in `old': what was broadcast in between.
NewEntries(n, old) == {n.log[i] : i \in Len(old.log) + 1 .. Len(n.log)}

\* The log run on a new core, as adoptSnapshot does.
Replay(p, log, dealing) ==
  FoldLeft(LAMBDA n, e : Committed(n, p, e, RunOnCore(n.core, e)),
           [NewNode EXCEPT !.dealing = dealing], log)

-----------------------------------------------------------------------------
Init ==
  /\ node = [p \in Peers |-> NewNode]
  /\ resyncing = {}
  /\ queue = [p \in Peers |-> <<>>] /\ processed = [p \in Peers |-> {}]
  /\ pending = [p \in Peers |-> {}]
  /\ round = [p \in Peers |-> "none"]
  /\ sees = [p \in Peers |-> Peers \ {p}] /\ up = Peers
  /\ sent = {} /\ wire = {}
  /\ actions = 0 /\ losses = 0 /\ undelivered = {} /\ leftover = {}

-----------------------------------------------------------------------------
(* Requests *)

\* submitLocalAction
Submit(p, kind) ==
  LET id == actions + 1
      r  == [actor |-> p, kind |-> kind, id |-> id]
  IN  /\ p \in up /\ actions < MaxActions
      /\ actions' = id
      /\ IF Coordinator(p) = p
           THEN /\ queue' = [queue EXCEPT ![p] = Append(@, r)]
                /\ UNCHANGED <<pending, wire>>
           ELSE /\ pending' = [pending EXCEPT ![p] = @ \cup {[req |-> r, tries |-> 1]}]
                /\ wire' = wire \cup {[to |-> Coordinator(p), req |-> r]}
                /\ UNCHANGED queue
      /\ UNCHANGED <<nodeVars, netVars, processed, undelivered, sent>>

\* onRequest: only who takes itself for the coordinator accepts, and once.  It
\* acknowledges each time.
OnRequest(p, f) ==
  /\ p \in up /\ f \in wire /\ f.to = p
  /\ Coordinator(p) = p /\ f.req.id \notin processed[p]
  /\ processed' = [processed EXCEPT ![p] = @ \cup {f.req.id}]
  /\ queue' = [queue EXCEPT ![p] = Append(@, f.req)]
  /\ UNCHANGED <<nodeVars, netVars, pending, wire, actions, undelivered, sent>>

\* The acknowledgement of q.
OnAck(p, w, q) ==
  /\ p \in up /\ w \in pending[p] /\ w.req.id \in processed[q]
  /\ pending' = [pending EXCEPT ![p] = @ \ {w}]
  /\ UNCHANGED <<nodeVars, netVars, queue, processed, wire, actions, undelivered, sent>>

-----------------------------------------------------------------------------
(* The beat *)

\* What is left of the own requests when those of `due' are retried: some are given
\* up; a coordinator takes them itself; the others go out again.
GivenUp(due) == {w \in due : w.tries >= MaxTries}

RetriedAs(p, due) ==
  IF Coordinator(p) = p THEN {}
  ELSE {[w EXCEPT !.tries = @ + 1] : w \in due \ GivenUp(due)}

\* Mutant: a new coordinator forgets its own request.
TakenOverNot(p, due) == <<>>

\* Requests in the order in which they were made.
ById(R) ==
  [i \in 1 .. Cardinality(R) |-> CHOOSE r \in R : Cardinality({s \in R : s.id < r.id}) = i - 1]

TakenOver(p, due) ==
  IF Coordinator(p) # p THEN <<>> ELSE ById({w.req : w \in due \ GivenUp(due)})

\* stepCoordinator: opens a round, or finds that all have revealed.
NextRound(r, revealed) ==
  IF r = "none" THEN "open" ELSE IF revealed THEN "complete" ELSE r

\* coordinatorDuties, after the queue: void the hand of a dealer who is gone, time
\* out the turn, or bring forward the seed of the next hand.
Duties(n, p, alive, timer, revealed) ==
  LET lost == n.view.running /\ CoordinatorSeat(n.view, alive) # n.view.button
      idle == ~n.view.running /\ ~n.dealing /\ Cardinality(EligibleIn(n.view, alive)) >= 2
  IN  [node  |-> IF lost THEN [Emit(n, p, "void", p, NoId) EXCEPT !.dealing = FALSE]
                 ELSE IF n.view.running /\ timer THEN Emit(n, p, "timeout", p, NoId)
                 ELSE n,
       round |-> IF lost THEN "none" ELSE IF idle THEN NextRound(round[p], revealed) ELSE round[p]]

\* tick.  The seed of a complete round is combined before the next beat.
Tick(p, due, timer, revealed) ==
  LET todo == queue[p] \o TakenOver(p, due)
      done == Duties(EmitAll(node[p], p, todo), p, Alive(p), timer, revealed)
  IN  /\ p \in up /\ round[p] # "complete"
      /\ due \subseteq pending[p]
      /\ pending' = [pending EXCEPT ![p] = (@ \ due) \cup RetriedAs(p, due)]
      /\ undelivered' = undelivered \cup {w.req.id : w \in GivenUp(due)}
      /\ wire' = wire \cup {[to |-> Coordinator(p), req |-> w.req] : w \in RetriedAs(p, due)}
      /\ leftover' = IF IsCoordinator(p) /\ node[p].view.running /\ round[p] # "none"
                       THEN leftover \cup {p} ELSE leftover
      /\ IF IsCoordinator(p)
           THEN /\ sent'  = sent \cup NewEntries(done.node, node[p])
                /\ Cardinality(sent') <= MaxEntries
                /\ node'  = [node EXCEPT ![p] = done.node]
                /\ round' = [round EXCEPT ![p] = done.round]
                /\ queue' = [queue EXCEPT ![p] = <<>>]
           ELSE /\ ~timer /\ ~revealed      \* who follows asks for neither
                /\ round' = [round EXCEPT ![p] = "none"]
                /\ queue' = [queue EXCEPT ![p] = todo]
                /\ UNCHANGED <<node, sent>>
      /\ UNCHANGED <<resyncing, netVars, processed, actions>>

\* onSeedReady, whoever coordinates by then: the seed is logged, and a sit_in of this
\* peer deals.
SeedReady(p) ==
  LET seeded == Emit([node[p] EXCEPT !.dealing = TRUE], p, "seed", p, NoId)
      n      == Emit(seeded, p, "sit_in", p, NoId)
  IN  /\ p \in up /\ round[p] = "complete"
      /\ sent'  = sent \cup NewEntries(n, node[p])
      /\ Cardinality(sent') <= MaxEntries
      /\ round' = [round EXCEPT ![p] = "none"]
      /\ node'  = [node EXCEPT ![p] = n]
      /\ UNCHANGED <<resyncing, leftover, netVars, reqVars>>

-----------------------------------------------------------------------------
(* Following the log *)

\* apply: an entry that does not reproduce its hash has been run all the same; the
\* peer then waits for a snapshot.
Ingest(p, e) ==
  LET n == node[p]
      o == RunOnCore(n.core, e)
  IN  /\ p \in up \ resyncing
      /\ e \in sent /\ e.seq = NextSeq(n)
      /\ IF StateHash(o.core) = e.hash
           THEN /\ node' = [node EXCEPT ![p] = Committed(n, p, e, o)]
                /\ UNCHANGED resyncing
           ELSE /\ node' = [node EXCEPT ![p].core = o.core]
                /\ resyncing' = resyncing \cup {p}
      /\ UNCHANGED <<round, leftover, reqVars, netVars, sent>>

\* Mutant: the log is run on the old core.
AdoptOnOldCore(p, q, len) ==
  /\ p \in up /\ p \in resyncing /\ q \notin resyncing
  /\ len <= Len(node[q].log)
  /\ node' = [node EXCEPT ![p] =
       [Replay(p, SubSeq(node[q].log, 1, len), node[p].dealing) EXCEPT !.core = node[p].core]]
  /\ resyncing' = resyncing \ {p}
  /\ UNCHANGED <<round, leftover, reqVars, netVars, sent>>

\* adoptForResync: what was the log of a peer that is not resyncing when it answered,
\* run on a new core.
Adopt(p, q, len) ==
  /\ p \in up /\ p \in resyncing /\ q \notin resyncing
  /\ len <= Len(node[q].log)
  /\ node' = [node EXCEPT ![p] = Replay(p, SubSeq(node[q].log, 1, len), node[p].dealing)]
  /\ resyncing' = resyncing \ {p}
  /\ UNCHANGED <<round, leftover, reqVars, netVars, sent>>

-----------------------------------------------------------------------------
(* Peers that go, and peers that are thought to have gone *)

Crash(p) ==
  /\ p \in up /\ losses < MaxLosses
  /\ up' = up \ {p} /\ losses' = losses + 1
  /\ UNCHANGED <<nodeVars, reqVars, sees, sent>>

\* The grace period after q's last heartbeat ends.
Miss(p, q) ==
  /\ p \in up /\ q \in sees[p]
  /\ IF q \in up THEN losses < MaxLosses /\ losses' = losses + 1 ELSE UNCHANGED losses
  /\ sees' = [sees EXCEPT ![p] = @ \ {q}]
  /\ UNCHANGED <<nodeVars, reqVars, up, sent>>

Heartbeat(p, q) ==
  /\ {p, q} \subseteq up /\ q \notin Alive(p)
  /\ sees' = [sees EXCEPT ![p] = @ \cup {q}]
  /\ UNCHANGED <<nodeVars, reqVars, up, losses, sent>>

Beat(p) ==
  \E due \in SUBSET pending[p], timer, revealed \in BOOLEAN : Tick(p, due, timer, revealed)

Next ==
  \/ \E p \in Peers :
       \/ \E kind \in Kinds : Submit(p, kind)
       \/ \E f \in wire : OnRequest(p, f)
       \/ \E w \in pending[p], q \in Peers : OnAck(p, w, q)
       \/ Beat(p) \/ SeedReady(p)
       \/ \E e \in sent : Ingest(p, e)
       \/ Crash(p)
       \/ \E q \in Peers, len \in 0 .. MaxEntries : Adopt(p, q, len)
       \/ \E q \in Peers : Miss(p, q) \/ Heartbeat(p, q)

Spec == Init /\ [][Next]_vars

-----------------------------------------------------------------------------
(* Properties *)

\* The state is well formed: cores and frames have their types, logs are numbered from 1
\* without gaps and hold entries that were broadcast, and only a request of the mesh has been
\* given up.
TypeOK ==
  /\ resyncing \subseteq Peers
  /\ sent \subseteq LogEntry /\ wire \subseteq [to : Peers, req : ActionRequest]
  /\ queue \in [Peers -> Seq(ActionRequest)]
  /\ pending \in [Peers -> SUBSET [req : ActionRequest, tries : 1 .. MaxTries]]
  /\ round \in [Peers -> {"none", "open", "complete"}]
  /\ sees \in [Peers -> SUBSET Peers] /\ up \subseteq Peers
  /\ \A p \in Peers : node[p].core \in LocalTable /\ Len(node[p].log) <= MaxEntries
  /\ \A p \in Peers : \A i \in DOMAIN node[p].log :
       node[p].log[i] \in sent /\ node[p].log[i].seq = i
  /\ losses <= MaxLosses /\ undelivered \subseteq 1 .. actions /\ leftover \subseteq Peers

\* A request was numbered when the hand was over.
Overrun == \E d, e \in sent : e.seq = d.seq + 1 /\ e.id # NoId /\ d.hash.dealt = {}

\* Nobody went or was thought to have gone, nobody asked to sit out or in or for chips,
\* nothing was asked of a coordinator whose hand was over, and nobody kept a seed round
\* over the beats of a follower, which end it, into a later hand of its own.
Calm == /\ losses = 0
        /\ \A e \in sent : e.id # NoId => e.kind = "act"
        /\ ~Overrun /\ leftover = {}

\* A peer's core and view are what its log makes of a new core, unless it has run an
\* entry that it refused.
CoreIsLog ==
  \A p \in Peers \ resyncing :
    LET n == Replay(p, node[p].log, FALSE) IN node[p].core = n.core /\ node[p].view = n.view

\* Every entry in a peer's log leads to the hash that it carries, whoever numbered it.
LogReproduces ==
  \A p \in Peers \ resyncing : \A i \in DOMAIN node[p].log :
    node[p].log[i].hash = StateHash(Replay(p, SubSeq(node[p].log, 1, i), FALSE).core)

\* A peer that a resync has to serve can be served from its log alone: the log accounts for
\* core and view, and each of its entries for the hash the others checked it by.
LogIsEnough == CoreIsLog /\ LogReproduces

\* In a calm mesh no two peers have different entries in one place of their logs.
SamePrefix ==
  Calm => \A p, q \in Peers :
    \A i \in DOMAIN node[p].log \cap DOMAIN node[q].log : node[p].log[i] = node[q].log[i]

\* The logs are well formed, and one log in a calm mesh.
OneLog == TypeOK /\ SamePrefix

\* In a calm mesh an action is with its player, who may retry it, in the queue of a
\* coordinator or in the log; or the player was told that it failed.
ActionsKept ==
  Calm => \A id \in 1 .. actions \ undelivered :
    \E p \in Peers : \/ \E w \in pending[p] : w.req.id = id
                     \/ \E i \in DOMAIN queue[p] : queue[p][i].id = id
                     \/ \E i \in DOMAIN node[p].log : node[p].log[i].id = id

\* The coordinator that brought the seed has the button in the hand it deals, unless a
\* hand was voided before.  If it is broke, which no showdown says and the others learn
\* from the seat list of its deal, the next seat that is dealt in has the button.
DealerHasButton ==
  Calm => \A p \in Peers :
    LET c == node[p].core
    IN  Running(c) /\ (\A i \in DOMAIN node[p].log : node[p].log[i].kind # "void")
          => /\ c.deck[1] \in c.dealt \cup c.broke
             /\ c.button = FirstAfter(c.deck[1] - 1, c.dealt)

=============================================================================
