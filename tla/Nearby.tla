------------------------------- MODULE Nearby -------------------------------
(***************************************************************************)
(* The sessions of a nearby game (client/src/components/nearby/session.ts) *)
(* and the WebRTC links between them (client/src/local/rtc.ts): the host   *)
(* shows an invite, a guest scans it and shows an answer, the host scans   *)
(* that, and each end waits for the channel on its own.  Links break; who  *)
(* is left alone keeps the session for a grace window and may be invited   *)
(* anew.                                                                   *)
(*                                                                         *)
(* People may pass a code or not, at any time.  A link that only falters   *)
(* ("disconnected") recovers or breaks, and is not modelled.               *)
(***************************************************************************)
EXTENDS Integers, FiniteSets, FiniteSetsExt

CONSTANTS
  Host,
  Guests,
  MaxLinks     \* bound: answers the guests make

Devices  == {Host} \cup Guests
Links    == 1 .. MaxLinks
Ends     == {"offerer", "answerer"}
NoDevice == "none"

ASSUME NearbyAssumption ==
  Host \notin Guests /\ NoDevice \notin Devices /\ MaxLinks \in Nat

VARIABLES
  screen,     \* the host's: "invite" (HostSetup), "table" or "sheet" (ReconnectSheet)
  offer,      \* the host's invite: its state, the answers to it and the one being dialled
  guestOf,    \* [Links -> the guest that made the answer]
  stage,      \* [Links \X Ends -> what the end waits for]
  broken,     \* links whose network path is gone
  told,       \* [Links \X Ends -> how often the end has reported its loss]
  sess        \* [Devices -> its NearbySession]

linkVars == <<guestOf, stage, broken, told>>
vars     == <<screen, offer, linkVars, sess>>

Other(e)     == CHOOSE f \in Ends : f # e
Device(l, e) == IF e = "offerer" THEN Host ELSE guestOf[l]
End(l, d)    == IF d = Host THEN "offerer" ELSE "answerer"
Peer(l, d)   == Device(l, Other(End(l, d)))

NearbySession ==
  [state  : {"none", "live", "ended", "timed out"},
   conns  : SUBSET Links,      \* every link that was attached
   closed : SUBSET Devices,    \* peers taken for gone
   timer  : {"none", "running"},
   shows  : {"connected", "connecting", "lost"}]

NoOffer == [state |-> "none", answers |-> {}, dial |-> 0]

NewSession(state) ==
  [state |-> state, conns |-> {}, closed |-> {}, timer |-> "none", shows |-> "connected"]

Init ==
  /\ screen = "invite" /\ offer = NoOffer
  /\ guestOf = [l \in Links |-> NoDevice]
  /\ stage = [x \in Links \X Ends |-> "none"] /\ told = [x \in Links \X Ends |-> 0]
  /\ broken = {}
  /\ sess = [d \in Devices |-> NewSession(IF d = Host THEN "live" ELSE "none")]

-----------------------------------------------------------------------------
(* A session's view of its links *)

\* Mutant: the links that closed count as well.
ParticipantCountAll(s, d) == 1 + Cardinality(s.conns)

\* Mutant: the session itself is left out.
ParticipantCountOthers(s, d) == Cardinality({l \in s.conns : Peer(l, d) \notin s.closed})

ParticipantCount(s, d) == 1 + Cardinality({l \in s.conns : Peer(l, d) \notin s.closed})

\* Mutant: the timer is not cleared.
AttachKeepsTimer(s, l, d) ==
  [s EXCEPT !.conns = @ \cup {l}, !.closed = @ \ {Peer(l, d)}, !.shows = "connected"]

\* attach: also the session that has ended meanwhile takes the link.
Attach(s, l, d) ==
  [s EXCEPT !.conns = @ \cup {l}, !.closed = @ \ {Peer(l, d)}, !.timer = "none",
            !.shows = "connected"]

\* onPeerGone with scheduleEndIfAlone.
PeerGone(s, l, d) ==
  LET t == [s EXCEPT !.closed = @ \cup {Peer(l, d)}]
  IN  IF ParticipantCount(t, d) < 2
        THEN [t EXCEPT !.shows = "lost", !.timer = "running"]
        ELSE t

\* Only a guest shows the state of the link itself (rtcOpts).
Indicate(s, d, what) == IF d = Host THEN s ELSE [s EXCEPT !.shows = what]

\* end and dispose with teardown: the links that are attached are closed.
Stop(d, how) ==
  /\ sess' = [sess EXCEPT ![d].state = how, ![d].timer = "none"]
  /\ stage' = [x \in Links \X Ends |->
                 IF x[1] \in sess[d].conns /\ x[2] = End(x[1], d) THEN "over" ELSE stage[x]]

EndSession(d) ==
  /\ sess[d].state = "live"
  /\ Stop(d, "ended")
  /\ UNCHANGED <<screen, offer, guestOf, broken, told>>

EndTimerFires(d) ==
  LET s == sess[d]
  IN  /\ s.timer = "running"
      /\ IF s.state = "live" /\ ParticipantCount(s, d) < 2
           THEN Stop(d, "timed out")
           ELSE sess' = [sess EXCEPT ![d].timer = "none"] /\ UNCHANGED stage
      /\ UNCHANGED <<screen, offer, guestOf, broken, told>>

-----------------------------------------------------------------------------
(* Invites *)

HostLive == sess[Host].state = "live"

NewInvite ==
  /\ HostLive /\ screen # "table" /\ offer.state = "none"
  /\ offer' = [NoOffer EXCEPT !.state = "shown"]
  /\ UNCHANGED <<screen, linkVars, sess>>

\* One friend has joined.
GoToTable ==
  /\ HostLive /\ screen = "invite" /\ sess[Host].conns # {}
  /\ screen' = "table" /\ offer' = NoOffer
  /\ UNCHANGED <<linkVars, sess>>

OpenSheet ==
  /\ HostLive /\ screen = "table" /\ sess[Host].shows = "lost"
  /\ screen' = "sheet" /\ offer' = NoOffer
  /\ UNCHANGED <<linkVars, sess>>

CloseSheet ==
  /\ HostLive /\ screen = "sheet"
  /\ screen' = "table" /\ offer' = NoOffer
  /\ UNCHANGED <<linkVars, sess>>

\* join, or acceptReconnectOffer while the banner of the lost link is up.
Answer(g) ==
  LET l == Min({k \in Links : guestOf[k] = NoDevice})
      s == sess[g]
  IN  /\ \E k \in Links : guestOf[k] = NoDevice
      /\ offer.state # "none"
      /\ s.state = "none" \/ (s.state = "live" /\ s.shows = "lost")
      /\ guestOf' = [guestOf EXCEPT ![l] = g]
      /\ stage' = [stage EXCEPT ![<<l, "answerer">>] = "waiting"]
      /\ offer' = [offer EXCEPT !.answers = @ \cup {l}]
      /\ sess' = [sess EXCEPT ![g] = [s EXCEPT !.state = "live", !.shows = "connecting"]]
      /\ UNCHANGED <<screen, broken, told>>

\* invite.accept up to its wait for the channel.  An invite serves one answer.
Accept(l) ==
  /\ HostLive /\ offer.state = "shown" /\ l \in offer.answers
  /\ offer' = [offer EXCEPT !.state = "dialing", !.dial = l]
  /\ stage' = [stage EXCEPT ![<<l, "offerer">>] = "dialing"]
  /\ UNCHANGED <<screen, guestOf, broken, told, sess>>

-----------------------------------------------------------------------------
(* The channel of a link *)

\* The two ends have found each other: ondatachannel fires at the answerer.
Meet(l) ==
  /\ stage[<<l, "offerer">>] = "dialing" /\ stage[<<l, "answerer">>] = "waiting"
  /\ l \notin broken
  /\ stage' = [stage EXCEPT ![<<l, "answerer">>] = "dialing"]
  /\ UNCHANGED <<screen, offer, guestOf, broken, told, sess>>

\* What the screen that waits for the dial does: the next invite, or the sheet closes.
AfterDial(l, e, ok) ==
  IF e = "answerer" \/ offer.dial # l
    THEN UNCHANGED <<screen, offer>>
    ELSE /\ offer'  = IF ok THEN NoOffer ELSE [offer EXCEPT !.state = "spent"]
         /\ screen' = IF ok /\ screen = "sheet" THEN "table" ELSE screen

\* The channel opens at one end.
Opens(l, e) ==
  LET d == Device(l, e)
  IN  /\ stage[<<l, e>>] = "dialing" /\ stage[<<l, Other(e)>>] \in {"dialing", "open"}
      /\ l \notin broken
      /\ stage' = [stage EXCEPT ![<<l, e>>] = "open"]
      /\ sess'  = [sess EXCEPT ![d] = Attach(@, l, d)]
      /\ AfterDial(l, e, TRUE)
      /\ UNCHANGED <<guestOf, broken, told>>

\* The dial is given up, also because it took too long.
GiveUp(l, e) ==
  LET d == Device(l, e)
  IN  /\ stage[<<l, e>>] = "dialing"
      /\ stage' = [stage EXCEPT ![<<l, e>>] = "over"]
      /\ sess'  = [sess EXCEPT ![d] = Indicate(@, d, "lost")]
      /\ AfterDial(l, e, FALSE)
      /\ UNCHANGED <<guestOf, broken, told>>

Break(l) ==
  /\ l \notin broken /\ \A e \in Ends : stage[<<l, e>>] \in {"dialing", "open"}
  /\ broken' = broken \cup {l}
  /\ UNCHANGED <<screen, offer, guestOf, stage, told, sess>>

Attached(l, e) == guestOf[l] # NoDevice /\ l \in sess[Device(l, e)].conns

\* An end notices the loss: its connection fails, its channel closes, or one after the other.
\* Each time the session is told that the peer is gone; one that has ended does not mind.
Report(l, e) ==
  LET d == Device(l, e)
  IN  /\ Attached(l, e) /\ sess[d].state = "live" /\ told[<<l, e>>] < 2
      /\ l \in broken \/ stage[<<l, Other(e)>>] = "over"
      /\ told'  = [told EXCEPT ![<<l, e>>] = @ + 1]
      /\ stage' = [stage EXCEPT ![<<l, e>>] = "over"]
      /\ sess'  = [sess EXCEPT ![d] = PeerGone(@, l, d)]
      /\ UNCHANGED <<screen, offer, guestOf, broken>>

Up(l) == l \notin broken /\ \A e \in Ends : stage[<<l, e>>] = "open"

-----------------------------------------------------------------------------
Next ==
  \/ NewInvite \/ GoToTable \/ OpenSheet \/ CloseSheet
  \/ \E d \in Devices : EndSession(d) \/ EndTimerFires(d)
  \/ \E g \in Guests : Answer(g)
  \/ \E l \in Links : Accept(l) \/ Meet(l) \/ Break(l)
  \/ \E l \in Links, e \in Ends : Opens(l, e) \/ GiveUp(l, e) \/ Report(l, e)

\* The browser reports what is lost, and timers fire.  Nobody needs to pass a code.
Fairness ==
  /\ \A d \in Devices : WF_vars(EndTimerFires(d))
  /\ \A l \in Links, e \in Ends : WF_vars(Report(l, e))

Spec == Init /\ [][Next]_vars /\ Fairness

-----------------------------------------------------------------------------
\* The variables have their types, and a screen that is busy has a dial under way.
TypeOK ==
  /\ offer.state = "dialing" => stage[<<offer.dial, "offerer">>] = "dialing"
  /\ screen \in {"invite", "table", "sheet"}
  /\ offer \in [state : {"none", "shown", "dialing", "spent"}, answers : SUBSET Links,
                dial : 0 .. MaxLinks]
  /\ guestOf \in [Links -> Guests \cup {NoDevice}] /\ broken \subseteq Links
  /\ stage \in [Links \X Ends -> {"none", "waiting", "dialing", "open", "over"}]
  /\ told \in [Links \X Ends -> 0 .. 2]
  /\ sess \in [Devices -> NearbySession]

\* The banner of the lost link is up at the host exactly while the grace window runs, with a
\* retry and a late report in whatever order.
BannerIsTimed ==
  sess[Host].state = "live" => (sess[Host].shows = "lost" <=> sess[Host].timer = "running")

\* The state of the sessions and links is well formed, and so is what the host is shown.
HostIsTold == TypeOK /\ BannerIsTimed

\* The grace window ends a session only when every link is gone, or was taken for gone: a peer
\* that is there can be struck out by the late report of another of its links, at a guest of an
\* earlier one (onPeerGone counts peers, not links).
TimesOutAlone ==
  [][\A d \in Devices : sess[d].state = "live" /\ sess'[d].state = "timed out" =>
       \A l \in sess[d].conns :
         Up(l) => \E k \in sess[d].conns :
                    Peer(k, d) = Peer(l, d) /\ ~Up(k) /\ (d # Host => k < l)]_vars

\* Who has lost every link does not sit there for ever: the session ends, or a link is back.
Alone(d) ==
  /\ sess[d].state = "live" /\ sess[d].conns # {}
  /\ \A l \in sess[d].conns : l \in broken \/ \E e \in Ends : stage[<<l, e>>] = "over"

AloneEnds == \A d \in Devices : Alone(d) ~> ~Alone(d)

=============================================================================
