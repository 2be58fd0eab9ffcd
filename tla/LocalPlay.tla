------------------------------ MODULE LocalPlay ------------------------------
(***************************************************************************)
(* One player of a nearby game: the table core of the player's mesh node   *)
(* (LocalTable), the bridge that reshapes its events (StoreBridge) and the *)
(* store the table view is drawn from (GameStore), over several hands.     *)
(*                                                                         *)
(* The mesh is taken for what Mesh shows of it: the node runs one entry of *)
(* the log at a time.  Entries of other peers come as they like; the       *)
(* player's own requests are numbered any time after the tap, also hands   *)
(* later, or are given up.                                                 *)
(***************************************************************************)
EXTENDS StoreBridge

CONSTANTS
  Stack,          \* what each seat brings
  RaisesTo,       \* totals the other players raise to
  Strengths,      \* of the hands at a showdown, one function of the seats each
  MaxHands,       \* bound: hands
  MaxSent,        \* bound: the player's requests under way
  MaxUpsets       \* bound: raises and sit-outs of others, hands undone, overlapping deals

ASSUME LocalPlayAssumption ==
  /\ Stack \in Nat \ {0} /\ RaisesTo \subseteq Nat /\ Strengths \subseteq [Seats -> Nat]
  /\ MaxHands \in Nat /\ MaxSent \in Nat /\ MaxUpsets \in Nat

VARIABLES
  core,     \* the table core
  view,     \* the bridge b and the store s
  sent,     \* requests of the player that no entry holds yet, in the order of the taps
  upsets,   \* see MaxUpsets
  seen      \* history, see Noted

vars == <<core, view, sent, upsets, seen>>

(***************************************************************************)
(* What the properties need to know of the past:                           *)
(*   spoke  the seats that acted in this hand                              *)
(*   exact  the hand was dealt between hands and no seat list came since   *)
(***************************************************************************)
Noted(n, ev) ==
  CASE ev.type = "bet_placed"   -> [n EXCEPT !.spoke = @ \cup {ev.seat}]
    [] ev.type = "seat_update"  -> [n EXCEPT !.exact = FALSE]
    [] OTHER                    -> n

Init ==
  /\ core  = Seated([s \in Seats |-> Stack])
  /\ view  = OnApplied([b |-> NewBridge, s |-> Build(G!EmptyTable)], SeatUpdate(Quiet(core)))
  /\ sent  = <<>>
  /\ upsets = 0
  /\ seen  = [spoke |-> {}, exact |-> FALSE]

-----------------------------------------------------------------------------
(* Entries of the log *)

\* The node runs an entry on its core and hands the events to the bridge.
Apply(o) ==
  /\ core' = o.core
  /\ view' = OnApplied(view, o)
  /\ seen' = LET n == FoldLeft(Noted, seen, o.cast)
             IN  IF o.core.hands = core.hands THEN n
                 ELSE [n EXCEPT !.spoke = {}, !.exact = ~Running(core)]

\* The seed of a finished round and the sit_in with which the coordinator deals.
Deal(s) ==
  /\ core.hands < MaxHands /\ ~Running(core) /\ s \notin view.s.out
  /\ Apply(HandleSitIn([core EXCEPT !.seeded = TRUE], s))
  /\ UNCHANGED <<sent, upsets>>

\* The same from a second coordinator, numbered after the first one's: the next hand is
\* dealt in the step that ends this one.
DealAgain(s) ==
  /\ core.hands < MaxHands /\ Running(core) /\ ~core.seeded /\ s \notin view.s.out
  /\ upsets < MaxUpsets
  /\ upsets' = upsets + 1
  /\ Apply(HandleSitIn([core EXCEPT !.seeded = TRUE], s))
  /\ UNCHANGED sent

OtherBets == {[kind |-> k, amount |-> 0] : k \in {"fold", "check", "call"}}
             \cup {[kind |-> "raise", amount |-> a] : a \in RaisesTo}

\* A bet of another player.  Refused ones are told to that player alone.
OtherBet(s, bet) ==
  /\ s # Me /\ CanBet(core, s, bet)
  /\ upsets' = IF bet.kind = "raise" THEN upsets + 1 ELSE upsets
  /\ upsets' <= MaxUpsets
  /\ \E best \in Strengths : Apply(HandleBet(core, s, bet, best))
  /\ UNCHANGED sent

OtherSitsOut(s) ==
  /\ s \notin {Me} \cup core.out /\ upsets < MaxUpsets
  /\ upsets' = upsets + 1
  /\ \E best \in Strengths : Apply(HandleSitOut(core, s, best))
  /\ UNCHANGED sent

OtherSitsIn(s) ==
  /\ s # Me /\ s \in core.out /\ core.stack[s] > 0
  /\ Apply(HandleSitIn(core, s))
  /\ UNCHANGED <<sent, upsets>>

OtherRebuys(s) ==
  /\ s # Me /\ ~Running(core) /\ core.stack[s] = 0
  /\ Apply(HandleRebuy(core, s, Stack))
  /\ UNCHANGED <<sent, upsets>>

Timeout ==
  /\ Running(core)
  /\ \E best \in Strengths : Apply(HandleTimeout(core, best))
  /\ UNCHANGED <<sent, upsets>>

\* The dealer dropped out of the hand.
Void ==
  /\ Running(core) /\ upsets < MaxUpsets
  /\ upsets' = upsets + 1
  /\ Apply(VoidHand(core))
  /\ UNCHANGED sent

-----------------------------------------------------------------------------
(* The player *)

Send(req, s) ==
  /\ Len(sent) < MaxSent
  /\ sent' = Append(sent, req)
  /\ view' = [view EXCEPT !.s = s]
  /\ UNCHANGED <<core, upsets, seen>>

\* act, from a button of the action bar.
Tap == G!MayTap(view.s) /\ \E bet \in G!Offered(view.s, BigBlind) :
         Send([type |-> "place_bet", bet |-> bet], G!Act(view.s, bet))

TapRebuy == G!MayRebuy(view.s) /\ Send([type |-> "rebuy"], G!Rebuy(view.s))

TapSitOut == G!MaySitOut(view.s) /\ Send([type |-> "sit_out"], view.s)
TapSitIn  == G!MaySitIn(view.s) /\ Send([type |-> "sit_in"], view.s)

Handle(req, best) ==
  CASE req.type = "place_bet" -> HandleBet(core, Me, req.bet, best)
    [] req.type = "rebuy"     -> HandleRebuy(core, Me, Stack)
    [] req.type = "sit_out"   -> HandleSitOut(core, Me, best)
    [] OTHER                  -> HandleSitIn(core, Me)

\* A request of the player is numbered, in any order, and run.
Deliver(i) ==
  /\ \E best \in Strengths : Apply(Handle(sent[i], best))
  /\ sent' = RemoveAt(sent, i)
  /\ UNCHANGED upsets

\* The mesh gave the request up.
GiveUp(i) ==
  /\ sent' = RemoveAt(sent, i)
  /\ UNCHANGED <<core, view, upsets, seen>>

\* The resync the store asks for has no equivalent in the mesh.
PreviewTimesOut ==
  /\ view.s.timer
  /\ view' = [view EXCEPT !.s = G!PendingTimeout(@)]
  /\ UNCHANGED <<core, sent, upsets, seen>>

Next ==
  \/ \E s \in Seats : Deal(s) \/ DealAgain(s) \/ OtherSitsOut(s) \/ OtherSitsIn(s) \/ OtherRebuys(s)
  \/ \E s \in Seats, bet \in OtherBets : OtherBet(s, bet)
  \/ Timeout \/ Void
  \/ Tap \/ TapRebuy \/ TapSitOut \/ TapSitIn
  \/ \E i \in DOMAIN sent : Deliver(i) \/ GiveUp(i)
  \/ PreviewTimesOut

Spec == Init /\ [][Next]_vars /\ WF_vars(PreviewTimesOut)

-----------------------------------------------------------------------------
(* Properties *)

\* Types of the core, the bridge and the store.
TypeOK ==
  /\ core \in Core
  /\ view.b \in Bridge /\ view.s \in G!Store
  /\ sent \in Seq(G!Command)
  /\ upsets \in 0 .. MaxUpsets

Dealt2Me == Running(core) /\ Me \in InHand(core)

\* The stacks on the felt are those of the hand, though no event of the core carries
\* them: a seat that acted shows what it has left, another one what it started with.  It
\* is so in each hand dealt from a seat list and until one comes in the middle of it.
StacksShown ==
  Dealt2Me /\ seen.exact =>
    \A s \in InHand(core) :
      view.s.stack[s] = IF s \in seen.spoke THEN core.hand.stack[s] ELSE core.start[s]

\* Core, bridge and store keep their types, and the stacks agree.
StoreFollowsCore == TypeOK /\ StacksShown

\* From the first bet of a hand on the felt shows the hand's pot and street, and a turn
\* it shows is the real one.
FeltIsCurrent ==
  Dealt2Me /\ seen.spoke # {} =>
    /\ view.s.pot = core.hand.pot /\ view.s.street = core.hand.street
    /\ view.s.turn \in {G!None, core.hand.toAct}

\* The newest record of the hand history holds no bet of another hand, as long as the
\* player is dealt in.
ReplayIsOneHand == Dealt2Me => view.s.replay \subseteq {core.hands}

\* "Render an offline hand identically to an online one" (storeBridge.ts:2): the player
\* whom the hand waits for, and who sent nothing, is shown the turn.  No event of a local
\* hand says so to the first seat of a street, which breaks it (no run checks it).
TurnIsShown ==
  Dealt2Me /\ core.hand.toAct = Me /\ MayAct(core.hand, Me) /\ sent = <<>> /\ ~view.s.pending
    => view.s.turn = Me

=============================================================================
