---------------------------- MODULE NearbyProofs ----------------------------
(***************************************************************************)
(* Nearby play from both sides.                                            *)
(*                                                                         *)
(* What a session of a nearby game knows of its links is true, and its     *)
(* grace window ends it only with a reason (Nearby).  The session keeps    *)
(* the links that opened and the peers it takes for gone.  The argument is *)
(* about the order of a guest's links: it makes the next one only after    *)
(* one of the earlier ones was over at its own end, so a link that is      *)
(* still up when another one is made has an earlier one behind it that was *)
(* attached and is over.                                                   *)
(*                                                                         *)
(* The tab that starts and ends such sessions, and opens the cloud's       *)
(* tables besides, holds one transport, has a socket only with a table on  *)
(* the screen, and asks the cloud for nothing in nearby play (Shell).  The *)
(* argument goes by pages: a page is left for a tab that is bare, holding  *)
(* no socket and awaiting nothing that acts on a view, and the next one is *)
(* mounted on a bare tab; in between, a request's component is there only  *)
(* while its page is.                                                      *)
(***************************************************************************)
EXTENDS Nearby, Shell, FiniteSetTheorems, WellFoundedInduction, TLAPS

-----------------------------------------------------------------------------
(* The inductive invariant *)

\* Links are taken in order, and one that nobody has taken is untouched.
LinksInOrder ==
  \A l \in Links : guestOf[l] = NoDevice =>
    /\ \A k \in Links : k > l => guestOf[k] = NoDevice
    /\ \A e \in Ends : stage[<<l, e>>] = "none"
    /\ l \notin offer.answers
    /\ \A d \in Devices : l \notin sess[d].conns

\* Who has no session has made no link.
NoneWithoutSession ==
  \A g \in Guests, l \in Links : guestOf[l] = g => sess[g].state # "none"

\* An invite that still serves an answer has not been dialled on it.
AnswersAreNew ==
  /\ offer.state = "shown" => \A l \in offer.answers : stage[<<l, "offerer">>] = "none"
  /\ offer.state = "dialing" => offer.dial \in Links

\* A device's links are its own, and were open.
ConnsAreOwn ==
  \A d \in Devices : \A l \in sess[d].conns :
    (d = Host \/ guestOf[l] = d) /\ stage[<<l, End(l, d)>>] \in {"open", "over"}

\* While the grace window runs, every peer is taken for gone.
TimerMeansAlone ==
  \A d \in Devices : sess[d].timer = "running" =>
    \A l \in sess[d].conns : Peer(l, d) \in sess[d].closed

\* A peer that is taken for gone has lost a link.
ClosedHasLost ==
  \A d \in Devices : \A x \in sess[d].closed :
    \E k \in sess[d].conns : Peer(k, d) = x /\ stage[<<k, End(k, d)>>] = "over"

\* At guest g, link j is over, or an earlier link was attached and is over.
Passed(j, g) ==
  \/ stage[<<j, "answerer">>] = "over"
  \/ \E i \in sess[g].conns : i < j /\ stage[<<i, "answerer">>] = "over"

\* A guest that sees its link lost has passed all of its links.
LostHasPassed ==
  \A g \in Guests : sess[g].shows = "lost" =>
    \A j \in Links : guestOf[j] = g => Passed(j, g)

\* A guest has passed each of its links but the last.
EarlierPassed ==
  \A g \in Guests, j, k \in Links :
    j < k /\ guestOf[j] = g /\ guestOf[k] = g => Passed(j, g)

\* The window is announced, the links are in order, and what is taken for lost was lost.
NearbyInvariant ==
  /\ HostIsTold
  /\ LinksInOrder /\ NoneWithoutSession /\ AnswersAreNew /\ ConnsAreOwn
  /\ TimerMeansAlone /\ ClosedHasLost
  /\ LostHasPassed /\ EarlierPassed

USE DEF Ends

-----------------------------------------------------------------------------
(* Links and their ends *)

\* An end is named for its side, and each has one other.
LEMMA OtherEnd == Other("offerer") = "answerer" /\ Other("answerer") = "offerer"
  BY DEF Other

\* The host offers and its guests answer; they are each other's peers.
LEMMA Sides ==
  /\ \A l \in Links : End(l, Host) = "offerer" /\ Peer(l, Host) = guestOf[l]
  /\ \A g \in Guests : g # Host /\ \A l \in Links : End(l, g) = "answerer" /\ Peer(l, g) = Host
  /\ \A l \in Links : Device(l, "offerer") = Host /\ Device(l, "answerer") = guestOf[l]
  BY OtherEnd, NearbyAssumption DEF End, Peer, Device

\* Peers are told by who made the links.
LEMMA PeerStays ==
  ASSUME guestOf' = guestOf
  PROVE  \A l \in Links, d \in Devices : Peer(l, d)' = Peer(l, d)
  BY DEF Peer, Device, End

\* A session counts fewer than two participants when it takes every peer for gone.
LEMMA AloneByCount ==
  ASSUME NEW s, NEW d, s.conns \subseteq Links
  PROVE  (ParticipantCount(s, d) < 2) <=> (\A l \in s.conns : Peer(l, d) \in s.closed)
<1> DEFINE here == {l \in s.conns : Peer(l, d) \notin s.closed}
<1>1. IsFiniteSet(Links)
  BY NearbyAssumption, FS_Interval DEF Links
<1>2. IsFiniteSet(here)
  BY <1>1, FS_Subset
<1>3. Cardinality(here) \in Nat /\ (Cardinality(here) = 0 <=> here = {})
  BY <1>2, FS_CardinalityType, FS_EmptySet
<1>4. ParticipantCount(s, d) = 1 + Cardinality(here)
  BY DEF ParticipantCount
<1>5. here = {} <=> \A l \in s.conns : Peer(l, d) \in s.closed
  OBVIOUS
<1> QED
  BY <1>3, <1>4, <1>5

\* Where a session stands: its fields.
LEMMA SessFields ==
  ASSUME TypeOK, NEW d \in Devices
  PROVE  /\ sess[d] \in NearbySession
         /\ sess[d].state \in {"none", "live", "ended", "timed out"}
         /\ sess[d].conns \subseteq Links /\ sess[d].closed \subseteq Devices
         /\ sess[d].timer \in {"none", "running"}
         /\ sess[d].shows \in {"connected", "connecting", "lost"}
<1>1. sess[d] \in NearbySession
  BY DEF TypeOK
<1> QED
  BY <1>1 DEF NearbySession

\* A session that stops.
LEMMA StoppedFields ==
  ASSUME NEW s \in NearbySession, NEW how \in {"ended", "timed out"}
  PROVE  LET t == [s EXCEPT !.state = how, !.timer = "none"]
         IN  /\ t \in NearbySession /\ t.state = how /\ t.timer = "none"
             /\ t.conns = s.conns /\ t.closed = s.closed /\ t.shows = s.shows
  BY DEF NearbySession

\* A session whose timer has fired.
LEMMA FiredFields ==
  ASSUME NEW s \in NearbySession
  PROVE  LET u == [s EXCEPT !.timer = "none"]
         IN  /\ u \in NearbySession /\ u.state = s.state /\ u.timer = "none"
             /\ u.conns = s.conns /\ u.closed = s.closed /\ u.shows = s.shows
  BY DEF NearbySession

\* A session that takes a link.
LEMMA AttachFields ==
  ASSUME NEW s \in NearbySession, NEW l \in Links, NEW d
  PROVE  /\ Attach(s, l, d) \in NearbySession
         /\ Attach(s, l, d).state = s.state /\ Attach(s, l, d).conns = s.conns \cup {l}
         /\ Attach(s, l, d).closed = s.closed \ {Peer(l, d)}
         /\ Attach(s, l, d).timer = "none" /\ Attach(s, l, d).shows = "connected"
  BY DEF NearbySession, Attach

\* A guest that shows how its link is.
LEMMA IndicateFields ==
  ASSUME NEW s \in NearbySession, NEW d, NEW what \in {"connected", "connecting", "lost"}
  PROVE  /\ Indicate(s, d, what) \in NearbySession
         /\ Indicate(s, d, what).state = s.state /\ Indicate(s, d, what).conns = s.conns
         /\ Indicate(s, d, what).closed = s.closed /\ Indicate(s, d, what).timer = s.timer
         /\ Indicate(s, d, what).shows = IF d = Host THEN s.shows ELSE what
  BY DEF NearbySession, Indicate

\* A session that is told of a loss: the window starts with the last peer.
LEMMA GoneFields ==
  ASSUME NEW s \in NearbySession, NEW l \in Links, NEW d, Peer(l, d) \in Devices
  PROVE  /\ PeerGone(s, l, d) \in NearbySession
         /\ PeerGone(s, l, d).state = s.state /\ PeerGone(s, l, d).conns = s.conns
         /\ PeerGone(s, l, d).closed = s.closed \cup {Peer(l, d)}
         /\ \/ /\ PeerGone(s, l, d).shows = "lost" /\ PeerGone(s, l, d).timer = "running"
               /\ \A k \in s.conns : Peer(k, d) \in s.closed \cup {Peer(l, d)}
            \/ /\ PeerGone(s, l, d).shows = s.shows /\ PeerGone(s, l, d).timer = s.timer
               /\ ~(\A k \in s.conns : Peer(k, d) \in s.closed \cup {Peer(l, d)})
<1> DEFINE t == [s EXCEPT !.closed = @ \cup {Peer(l, d)}]
<1>1. /\ t \in NearbySession /\ t.state = s.state /\ t.conns = s.conns /\ t.timer = s.timer
      /\ t.closed = s.closed \cup {Peer(l, d)} /\ t.shows = s.shows /\ t.conns \subseteq Links
  BY DEF NearbySession
<1>2. ParticipantCount(t, d) < 2 <=> \A k \in s.conns : Peer(k, d) \in s.closed \cup {Peer(l, d)}
  <2>1. ParticipantCount(t, d) < 2 <=> \A k \in t.conns : Peer(k, d) \in t.closed
    BY <1>1, AloneByCount
  <2> QED
    BY <1>1, <2>1
<1>3. PeerGone(s, l, d) =
        IF ParticipantCount(t, d) < 2 THEN [t EXCEPT !.shows = "lost", !.timer = "running"] ELSE t
  BY DEF PeerGone
<1> HIDE DEF t
<1>4. LET u == [t EXCEPT !.shows = "lost", !.timer = "running"]
      IN  /\ u \in NearbySession /\ u.state = t.state /\ u.conns = t.conns
          /\ u.closed = t.closed /\ u.shows = "lost" /\ u.timer = "running"
  BY <1>1 DEF NearbySession
<1> QED
  BY <1>1, <1>2, <1>3, <1>4

-----------------------------------------------------------------------------
(* What most steps keep *)

\* Links that were made stay made, ends that are over stay over, and sessions keep links.
Onward ==
  /\ guestOf' = guestOf
  /\ \A l \in Links, e \in Ends : stage[<<l, e>>] = "over" => stage'[<<l, e>>] = "over"
  /\ \A d \in Devices : sess[d].conns \subseteq sess'[d].conns

\* What was passed stays passed.
LEMMA PassedStays ==
  ASSUME TypeOK, Onward, NEW g \in Guests, NEW j \in Links, Passed(j, g)
  PROVE  Passed(j, g)'
<1>1. sess[g].conns \subseteq Links
  BY SessFields DEF Devices
<1> QED
  BY <1>1 DEF Passed, Onward, Devices

LEMMA EarlierStaysPassed ==
  ASSUME TypeOK, EarlierPassed, Onward
  PROVE  EarlierPassed'
<1> SUFFICES ASSUME NEW g \in Guests, NEW j \in Links, NEW k \in Links,
                    j < k, guestOf'[j] = g, guestOf'[k] = g
             PROVE  Passed(j, g)'
  BY DEF EarlierPassed
<1> QED
  BY PassedStays DEF EarlierPassed, Onward

LEMMA LostStaysPassed ==
  ASSUME TypeOK, LostHasPassed, Onward,
         \A g \in Guests : sess'[g].shows = "lost" => sess[g].shows = "lost"
  PROVE  LostHasPassed'
<1> SUFFICES ASSUME NEW g \in Guests, sess'[g].shows = "lost", NEW j \in Links, guestOf'[j] = g
             PROVE  Passed(j, g)'
  BY DEF LostHasPassed
<1> QED
  BY PassedStays DEF LostHasPassed, Onward

-----------------------------------------------------------------------------
(* The steps keep the invariant *)

\* What a guest's and the host's screens show changes no link.
LEMMA ScreenKeeps ==
  ASSUME NearbyInvariant, NewInvite \/ GoToTable \/ OpenSheet \/ CloseSheet
  PROVE  NearbyInvariant'
<1>1. UNCHANGED <<linkVars, sess>> /\ screen' \in {"invite", "table", "sheet"}
  BY DEF NewInvite, GoToTable, OpenSheet, CloseSheet, NearbyInvariant, HostIsTold, TypeOK
<1>2. offer'.state \in {"none", "shown"} /\ offer'.answers = {} /\ offer'.dial = 0
      /\ offer' \in [state : {"none", "shown", "dialing", "spent"}, answers : SUBSET Links,
                     dial : 0 .. MaxLinks]
  BY NearbyAssumption DEF NewInvite, GoToTable, OpenSheet, CloseSheet, NoOffer
<1>3. HostIsTold'
  BY <1>1, <1>2 DEF linkVars, NearbyInvariant, HostIsTold, TypeOK, BannerIsTimed
<1>4. LinksInOrder' /\ NoneWithoutSession' /\ AnswersAreNew'
  BY <1>1, <1>2
     DEF linkVars, NearbyInvariant, LinksInOrder, NoneWithoutSession, AnswersAreNew
<1>5. ConnsAreOwn' /\ TimerMeansAlone' /\ ClosedHasLost'
  BY <1>1 DEF linkVars, NearbyInvariant, ConnsAreOwn, TimerMeansAlone, ClosedHasLost, Peer,
              Device, End
<1>6. LostHasPassed' /\ EarlierPassed'
  BY <1>1 DEF linkVars, NearbyInvariant, LostHasPassed, EarlierPassed, Passed
<1> QED
  BY <1>3, <1>4, <1>5, <1>6 DEF NearbyInvariant

\* A network path that is gone is no end's state yet.
LEMMA BreakKeeps ==
  ASSUME NearbyInvariant, NEW l \in Links, Break(l)
  PROVE  NearbyInvariant'
<1>1. UNCHANGED <<screen, offer, guestOf, stage, told, sess>> /\ broken' = broken \cup {l}
  BY DEF Break
<1>2. HostIsTold'
  BY <1>1 DEF NearbyInvariant, HostIsTold, TypeOK, BannerIsTimed
<1>3. LinksInOrder' /\ NoneWithoutSession' /\ AnswersAreNew'
  BY <1>1 DEF NearbyInvariant, LinksInOrder, NoneWithoutSession, AnswersAreNew
<1>4. ConnsAreOwn' /\ TimerMeansAlone' /\ ClosedHasLost'
  BY <1>1 DEF NearbyInvariant, ConnsAreOwn, TimerMeansAlone, ClosedHasLost, Peer, Device, End
<1>5. LostHasPassed' /\ EarlierPassed'
  BY <1>1 DEF NearbyInvariant, LostHasPassed, EarlierPassed, Passed
<1> QED
  BY <1>2, <1>3, <1>4, <1>5 DEF NearbyInvariant

\* A dial starts at an end that is in no session's links yet.
LEMMA DialKeeps ==
  ASSUME NearbyInvariant, NEW l \in Links, Accept(l) \/ Meet(l)
  PROVE  NearbyInvariant'
<1> USE DEF NearbyInvariant
<1>1. UNCHANGED <<screen, guestOf, broken, told, sess>>
  BY DEF Accept, Meet
<1>2. PICK e \in Ends : stage' = [stage EXCEPT ![<<l, e>>] = "dialing"]
                        /\ stage[<<l, e>>] \in {"none", "waiting"} /\ guestOf[l] # NoDevice
  BY DEF Accept, Meet, LinksInOrder, AnswersAreNew
<1>3. /\ offer'.answers = offer.answers /\ (offer'.state = "shown" => offer.state = "shown")
      /\ offer'.state = "shown" => stage'[<<l, "offerer">>] = stage[<<l, "offerer">>]
  BY DEF Accept, Meet, HostIsTold, TypeOK
<1>4. /\ \A k \in Links, f \in Ends : stage'[<<k, f>>] =
             IF k = l /\ f = e THEN "dialing" ELSE stage[<<k, f>>]
      /\ DOMAIN stage' = Links \X Ends
  BY <1>2 DEF HostIsTold, TypeOK
<1>5. HostIsTold'
  <2>1. stage' \in [Links \X Ends -> {"none", "waiting", "dialing", "open", "over"}]
    BY <1>2 DEF HostIsTold, TypeOK
  <2>2. offer' \in [state : {"none", "shown", "dialing", "spent"}, answers : SUBSET Links,
                    dial : 0 .. MaxLinks]
    <3>1. l \in 0 .. MaxLinks
      BY NearbyAssumption DEF Links
    <3>2. CASE Accept(l)
      BY <3>1, <3>2 DEF Accept, HostIsTold, TypeOK
    <3>3. CASE Meet(l)
      BY <3>3 DEF Meet, HostIsTold, TypeOK
    <3> QED
      BY <3>2, <3>3
  <2>3. offer'.state = "dialing" => stage'[<<offer'.dial, "offerer">>] = "dialing"
    <3>1. CASE Accept(l)
      BY <3>1 DEF Accept, HostIsTold, TypeOK
    <3>2. CASE Meet(l)
      BY <3>2, <1>4 DEF Meet, AnswersAreNew, HostIsTold, TypeOK
    <3> QED
      BY <3>1, <3>2
  <2> QED
    BY <1>1, <2>1, <2>2, <2>3 DEF HostIsTold, TypeOK, BannerIsTimed
<1>6. Onward
  BY <1>1, <1>2, <1>4 DEF Onward
<1>7. LinksInOrder' /\ NoneWithoutSession' /\ AnswersAreNew'
  <2>1. LinksInOrder'
    BY <1>1, <1>2, <1>3, <1>4 DEF LinksInOrder
  <2>2. AnswersAreNew'
    <3>1. ASSUME offer'.state = "shown", NEW k \in offer'.answers
          PROVE  stage'[<<k, "offerer">>] = "none"
      <4>1. k \in Links /\ stage[<<k, "offerer">>] = "none"
        BY <1>3, <3>1 DEF AnswersAreNew, HostIsTold, TypeOK
      <4> QED
        BY <1>3, <1>4, <3>1, <4>1
    <3>2. offer'.state = "dialing" => offer'.dial \in Links
      BY DEF Accept, Meet, AnswersAreNew, HostIsTold, TypeOK
    <3> QED
      BY <3>1, <3>2 DEF AnswersAreNew
  <2> QED
    BY <1>1, <2>1, <2>2 DEF NoneWithoutSession
<1>8. ConnsAreOwn' /\ TimerMeansAlone' /\ ClosedHasLost'
  <2> USE SessFields DEF HostIsTold
  <2>1. \A d \in Devices : \A k \in sess[d].conns :
          End(k, d) \in Ends /\ stage'[<<k, End(k, d)>>] = stage[<<k, End(k, d)>>]
    <3> SUFFICES ASSUME NEW d \in Devices, NEW k \in sess[d].conns
                 PROVE  End(k, d) \in Ends /\ stage'[<<k, End(k, d)>>] = stage[<<k, End(k, d)>>]
      OBVIOUS
    <3>1. End(k, d) \in Ends /\ k \in Links
      BY DEF End
    <3>2. stage[<<k, End(k, d)>>] \in {"open", "over"}
      BY DEF ConnsAreOwn
    <3> QED
      BY <1>2, <1>4, <3>1, <3>2
  <2>2. \A d \in Devices, k \in Links : Peer(k, d)' = Peer(k, d)
    BY <1>1, PeerStays
  <2>3. ConnsAreOwn'
    BY <1>1, <2>1 DEF ConnsAreOwn, End
  <2>4. TimerMeansAlone'
    BY <1>1, <2>2 DEF TimerMeansAlone
  <2>5. ClosedHasLost'
    <3> SUFFICES ASSUME NEW d \in Devices, NEW x \in sess'[d].closed
                 PROVE  \E k \in sess'[d].conns :
                          Peer(k, d)' = x /\ stage'[<<k, End(k, d)>>] = "over"
      BY DEF ClosedHasLost, End
    <3>1. PICK k \in sess[d].conns : Peer(k, d) = x /\ stage[<<k, End(k, d)>>] = "over"
      BY <1>1 DEF ClosedHasLost
    <3>2. k \in Links
      OBVIOUS
    <3> QED
      BY <1>1, <2>1, <2>2, <3>1, <3>2
  <2> QED
    BY <2>3, <2>4, <2>5
<1>9. LostHasPassed' /\ EarlierPassed'
  BY <1>1, <1>6, LostStaysPassed, EarlierStaysPassed DEF HostIsTold
<1> QED
  BY <1>5, <1>7, <1>8, <1>9

\* A session that stops closes its links, and none that is being dialled.
LEMMA StopKeeps ==
  ASSUME NearbyInvariant, NEW d \in Devices, NEW how \in {"ended", "timed out"},
         sess[d].state = "live", Stop(d, how), UNCHANGED <<screen, offer, guestOf, broken, told>>
  PROVE  NearbyInvariant'
<1> USE DEF NearbyInvariant
<1>0. TypeOK
  BY DEF HostIsTold
<1>1. /\ \A x \in Devices : /\ sess'[x].conns = sess[x].conns /\ sess'[x].closed = sess[x].closed
                            /\ sess'[x].shows = sess[x].shows
                            /\ sess'[x].state = IF x = d THEN how ELSE sess[x].state
                            /\ sess'[x].timer = IF x = d THEN "none" ELSE sess[x].timer
      /\ sess' \in [Devices -> NearbySession]
  <2>1. sess' = [sess EXCEPT ![d] = [@ EXCEPT !.state = how, !.timer = "none"]]
    BY <1>0 DEF Stop, TypeOK
  <2>2. sess[d] \in NearbySession
    BY <1>0, SessFields
  <2>3. DOMAIN sess = Devices /\ sess \in [Devices -> NearbySession]
    BY <1>0 DEF TypeOK
  <2> DEFINE t == [sess[d] EXCEPT !.state = how, !.timer = "none"]
  <2>4. sess' = [sess EXCEPT ![d] = t]
    BY <2>1
  <2>5. /\ t \in NearbySession /\ t.state = how /\ t.timer = "none"
        /\ t.conns = sess[d].conns /\ t.closed = sess[d].closed /\ t.shows = sess[d].shows
    BY <2>2, StoppedFields
  <2> HIDE DEF t
  <2> QED
    BY <2>3, <2>4, <2>5
<1>2. /\ \A l \in Links, e \in Ends :
           stage'[<<l, e>>] = IF l \in sess[d].conns /\ e = End(l, d) THEN "over"
                              ELSE stage[<<l, e>>]
      /\ stage' \in [Links \X Ends -> {"none", "waiting", "dialing", "open", "over"}]
  BY <1>0 DEF Stop, TypeOK
<1>3. \A l \in Links, e \in Ends : stage[<<l, e>>] \notin {"open", "over"} =>
        stage'[<<l, e>>] = stage[<<l, e>>]
  BY <1>2 DEF ConnsAreOwn
<1>4. Onward
  BY <1>1, <1>2 DEF Onward
<1>5. HostIsTold'
  <2>1. TypeOK'
    BY <1>0, <1>1, <1>2, <1>3 DEF TypeOK, AnswersAreNew
  <2>2. BannerIsTimed'
    BY <1>1 DEF HostIsTold, BannerIsTimed, Devices
  <2> QED
    BY <2>1, <2>2 DEF HostIsTold
<1>6. LinksInOrder'
  BY <1>1, <1>3 DEF LinksInOrder
<1>7. NoneWithoutSession'
  BY <1>1 DEF NoneWithoutSession, Devices
<1>8. AnswersAreNew'
  BY <1>0, <1>3 DEF AnswersAreNew, TypeOK
<1>9. ConnsAreOwn'
  <2> SUFFICES ASSUME NEW x \in Devices, NEW l \in sess[x].conns
               PROVE  stage'[<<l, End(l, x)>>] \in {"open", "over"}
    BY <1>1 DEF ConnsAreOwn, End
  <2>1. l \in Links /\ End(l, x) \in Ends /\ stage[<<l, End(l, x)>>] \in {"open", "over"}
    BY <1>0, SessFields DEF ConnsAreOwn, End
  <2> QED
    BY <1>2, <2>1
<1>10. TimerMeansAlone'
  <2> SUFFICES ASSUME NEW x \in Devices, sess'[x].timer = "running", NEW l \in sess'[x].conns
               PROVE  Peer(l, x)' \in sess'[x].closed
    BY DEF TimerMeansAlone
  <2>1. l \in sess[x].conns /\ l \in Links /\ sess[x].timer = "running"
    BY <1>0, <1>1, SessFields
  <2> QED
    BY <1>1, <2>1, PeerStays DEF TimerMeansAlone
<1>11. ClosedHasLost'
  <2> SUFFICES ASSUME NEW x \in Devices, NEW y \in sess'[x].closed
               PROVE  \E k \in sess'[x].conns :
                            Peer(k, x)' = y /\ stage'[<<k, End(k, x)>>] = "over"
    BY DEF ClosedHasLost, End
  <2>1. PICK k \in sess[x].conns : Peer(k, x) = y /\ stage[<<k, End(k, x)>>] = "over"
    BY <1>1 DEF ClosedHasLost
  <2>2. k \in Links /\ End(k, x) \in Ends
    BY <1>0, SessFields DEF End
  <2> QED
    BY <1>1, <1>2, <2>1, <2>2, PeerStays
<1>12. LostHasPassed' /\ EarlierPassed'
  BY <1>0, <1>1, <1>4, LostStaysPassed, EarlierStaysPassed DEF Devices
<1> QED
  BY <1>5, <1>6, <1>7, <1>8, <1>9, <1>10, <1>11, <1>12

\* The timer ends the session that is alone; one that is live and not alone has none.
LEMMA TimerKeeps ==
  ASSUME NearbyInvariant, NEW d \in Devices, EndTimerFires(d)
  PROVE  NearbyInvariant'
<1> DEFINE alone == sess[d].state = "live" /\ ParticipantCount(sess[d], d) < 2
<1>0. TypeOK
  BY DEF NearbyInvariant, HostIsTold
<1>1. CASE alone
  BY <1>1, StopKeeps DEF EndTimerFires
<1>2. CASE ~alone
  <2>1. /\ UNCHANGED <<screen, offer, guestOf, broken, told, stage>>
        /\ sess' = [sess EXCEPT ![d].timer = "none"] /\ sess[d].timer = "running"
    BY <1>2 DEF EndTimerFires
  <2>2. /\ \A x \in Devices : /\ sess'[x].conns = sess[x].conns
                              /\ sess'[x].closed = sess[x].closed
                              /\ sess'[x].shows = sess[x].shows
                              /\ sess'[x].state = sess[x].state
                              /\ sess'[x].timer = IF x = d THEN "none" ELSE sess[x].timer
        /\ sess' \in [Devices -> NearbySession]
    <3> DEFINE u == [sess[d] EXCEPT !.timer = "none"]
    <3>1. sess' = [sess EXCEPT ![d] = u]
      BY <2>1
    <3>2. sess[d] \in NearbySession
      BY <1>0, SessFields
    <3>3. DOMAIN sess = Devices /\ sess \in [Devices -> NearbySession]
      BY <1>0 DEF TypeOK
    <3>4. /\ u \in NearbySession /\ u.state = sess[d].state /\ u.timer = "none"
          /\ u.conns = sess[d].conns /\ u.closed = sess[d].closed /\ u.shows = sess[d].shows
      BY <3>2, FiredFields
    <3> HIDE DEF u
    <3> QED
      BY <3>1, <3>3, <3>4
  <2>3. sess[d].state # "live"
    BY <1>0, <1>2, <2>1, SessFields, AloneByCount DEF NearbyInvariant, TimerMeansAlone
  <2>4. HostIsTold'
    BY <1>0, <2>1, <2>2, <2>3
       DEF NearbyInvariant, HostIsTold, TypeOK, BannerIsTimed, Devices
  <2>5. LinksInOrder' /\ NoneWithoutSession' /\ AnswersAreNew'
    BY <2>1, <2>2
       DEF NearbyInvariant, LinksInOrder, NoneWithoutSession, AnswersAreNew, Devices
  <2>6. ConnsAreOwn' /\ TimerMeansAlone' /\ ClosedHasLost'
    <3>1. \A x \in Devices, l \in Links : Peer(l, x)' = Peer(l, x)
      BY <2>1, PeerStays
    <3>2. ConnsAreOwn'
      BY <2>1, <2>2 DEF NearbyInvariant, ConnsAreOwn, End
    <3>3. TimerMeansAlone'
      <4> SUFFICES ASSUME NEW x \in Devices, sess'[x].timer = "running", NEW l \in sess'[x].conns
                   PROVE  Peer(l, x)' \in sess'[x].closed
        BY DEF TimerMeansAlone
      <4>1. l \in sess[x].conns /\ l \in Links /\ sess[x].timer = "running"
        BY <1>0, <2>2, SessFields
      <4> QED
        BY <2>2, <3>1, <4>1 DEF NearbyInvariant, TimerMeansAlone
    <3>4. ClosedHasLost'
      <4> SUFFICES ASSUME NEW x \in Devices, NEW y \in sess'[x].closed
                   PROVE  \E k \in sess'[x].conns :
                            Peer(k, x)' = y /\ stage'[<<k, End(k, x)>>] = "over"
        BY DEF ClosedHasLost, End
      <4>1. PICK k \in sess[x].conns : Peer(k, x) = y /\ stage[<<k, End(k, x)>>] = "over"
        BY <2>2 DEF NearbyInvariant, ClosedHasLost
      <4>2. k \in Links
        BY <1>0, SessFields
      <4> QED
        BY <2>1, <2>2, <3>1, <4>1, <4>2
    <3> QED
      BY <3>2, <3>3, <3>4
  <2>7. LostHasPassed' /\ EarlierPassed'
    <3>1. Onward /\ \A g \in Guests : sess'[g].shows = "lost" => sess[g].shows = "lost"
      BY <2>1, <2>2 DEF Onward, Devices
    <3> QED
      BY <1>0, <3>1, LostStaysPassed, EarlierStaysPassed DEF NearbyInvariant
  <2> QED
    BY <2>4, <2>5, <2>6, <2>7 DEF NearbyInvariant
<1> QED
  BY <1>1, <1>2

\* The device at an end of a link that somebody made.
LEMMA EndDevice ==
  ASSUME TypeOK, LinksInOrder, NEW l \in Links, NEW e \in Ends, stage[<<l, e>>] # "none"
  PROVE  /\ guestOf[l] \in Guests
         /\ Device(l, e) \in Devices /\ e = End(l, Device(l, e))
         /\ Device(l, e) = Host \/ Device(l, e) = guestOf[l]
<1>1. guestOf[l] # NoDevice
  BY DEF LinksInOrder
<1>2. guestOf[l] \in Guests \cup {NoDevice}
  BY DEF TypeOK
<1> QED
  BY <1>1, <1>2, Sides DEF Device, End, Devices

\* An end of link l moves, and the session at that end with it: what that keeps.
LEMMA EndMoves ==
  ASSUME NearbyInvariant, NEW l \in Links, NEW e \in Ends,
         stage[<<l, e>>] \in {"dialing", "open", "over"},
         \/ stage'[<<l, e>>] = "over"
         \/ stage'[<<l, e>>] = "open" /\ stage[<<l, e>>] = "dialing",
         \A k \in Links, f \in Ends : k # l \/ f # e => stage'[<<k, f>>] = stage[<<k, f>>],
         stage' \in [Links \X Ends -> {"none", "waiting", "dialing", "open", "over"}],
         guestOf' = guestOf, broken' = broken,
         sess' \in [Devices -> NearbySession],
         \A x \in Devices :
           /\ sess'[x].state = sess[x].state /\ sess[x].conns \subseteq sess'[x].conns
           /\ \A k \in sess'[x].conns :
                k \in sess[x].conns \/ (k = l /\ x = Device(l, e) /\ stage'[<<l, e>>] = "open"),
         told' \in [Links \X Ends -> 0 .. 2],
         screen' \in {"invite", "table", "sheet"},
         offer' = offer \/ offer' = NoOffer \/ offer' = [offer EXCEPT !.state = "spent"],
         offer' = offer /\ offer.state = "dialing" => <<l, e>> # <<offer.dial, "offerer">>
  PROVE  /\ TypeOK' /\ LinksInOrder' /\ NoneWithoutSession' /\ AnswersAreNew' /\ ConnsAreOwn'
         /\ Onward
<1>0. TypeOK
  BY DEF NearbyInvariant, HostIsTold
<1>1. /\ guestOf[l] \in Guests /\ guestOf[l] # NoDevice /\ e = End(l, Device(l, e))
      /\ Device(l, e) = Host \/ Device(l, e) = guestOf[l]
  <2>1. stage[<<l, e>>] # "none" /\ LinksInOrder
    BY DEF NearbyInvariant
  <2>2. /\ guestOf[l] \in Guests /\ e = End(l, Device(l, e))
        /\ Device(l, e) = Host \/ Device(l, e) = guestOf[l]
    BY <1>0, <2>1, EndDevice
  <2> QED
    BY <2>2, NearbyAssumption DEF Devices
<1>2. TypeOK'
  <2>1. offer' \in [state : {"none", "shown", "dialing", "spent"}, answers : SUBSET Links,
                    dial : 0 .. MaxLinks]
    <3>1. offer \in [state : {"none", "shown", "dialing", "spent"}, answers : SUBSET Links,
                     dial : 0 .. MaxLinks]
      BY <1>0 DEF TypeOK
    <3>2. CASE offer' = [offer EXCEPT !.state = "spent"]
      BY <3>1, <3>2
    <3>3. CASE offer' = NoOffer
      BY <3>3, NearbyAssumption DEF NoOffer
    <3> QED
      BY <3>1, <3>2, <3>3
  <2>2. ASSUME offer'.state = "dialing"
        PROVE  stage'[<<offer'.dial, "offerer">>] = "dialing"
    <3>1. offer' = offer
      BY <1>0, <2>2 DEF TypeOK, NoOffer
    <3>2. offer.dial \in Links /\ stage[<<offer.dial, "offerer">>] = "dialing"
      BY <1>0, <2>2, <3>1 DEF NearbyInvariant, AnswersAreNew, TypeOK
    <3> QED
      BY <2>2, <3>1, <3>2
  <2> QED
    BY <1>0, <2>1, <2>2 DEF TypeOK
<1>3. /\ offer'.state \in {"shown", "dialing"} => offer' = offer
      /\ offer'.answers \subseteq offer.answers
  <2>1. offer \in [state : {"none", "shown", "dialing", "spent"}, answers : SUBSET Links,
                   dial : 0 .. MaxLinks]
    BY <1>0 DEF TypeOK
  <2> QED
    BY <2>1 DEF NoOffer
<1>4. LinksInOrder'
  <2> SUFFICES ASSUME NEW k \in Links, guestOf[k] = NoDevice
               PROVE  /\ \A j \in Links : j > k => guestOf[j] = NoDevice
                      /\ \A f \in Ends : stage'[<<k, f>>] = "none"
                      /\ k \notin offer'.answers
                      /\ \A x \in Devices : k \notin sess'[x].conns
    BY DEF LinksInOrder
  <2> QED
    BY <1>1, <1>3 DEF NearbyInvariant, LinksInOrder
<1>5. NoneWithoutSession'
  BY DEF NearbyInvariant, NoneWithoutSession, Devices
<1>6. AnswersAreNew'
  <2>1. ASSUME offer'.state = "shown", NEW k \in offer'.answers
        PROVE  stage'[<<k, "offerer">>] = "none"
    <3>1. k \in Links /\ stage[<<k, "offerer">>] = "none"
      BY <1>0, <1>3, <2>1 DEF NearbyInvariant, AnswersAreNew, TypeOK
    <3> QED
      BY <3>1
  <2>2. offer'.state = "dialing" => offer'.dial \in Links
    BY <1>3 DEF NearbyInvariant, AnswersAreNew
  <2> QED
    BY <2>1, <2>2 DEF AnswersAreNew
<1>7. ConnsAreOwn'
  <2> SUFFICES ASSUME NEW x \in Devices, NEW k \in sess'[x].conns
               PROVE  (x = Host \/ guestOf[k] = x) /\ stage'[<<k, End(k, x)>>] \in {"open", "over"}
    BY DEF ConnsAreOwn, End
  <2>1. CASE k \in sess[x].conns
    <3>1. (x = Host \/ guestOf[k] = x) /\ stage[<<k, End(k, x)>>] \in {"open", "over"}
      BY <2>1 DEF NearbyInvariant, ConnsAreOwn
    <3>2. k \in Links /\ End(k, x) \in Ends
      BY <1>0, <2>1, SessFields DEF End
    <3> QED
      BY <3>1, <3>2
  <2>2. CASE k = l /\ x = Device(l, e) /\ stage'[<<l, e>>] = "open"
    BY <1>1, <2>2
  <2> QED
    BY <2>1, <2>2
<1>8. Onward
  BY DEF Onward
<1> QED
  BY <1>2, <1>4, <1>5, <1>6, <1>7, <1>8

\* What the screens do when a dial has ended: the invite that was dialled is gone.
LEMMA DialEnds ==
  ASSUME TypeOK, NEW l \in Links, NEW e \in Ends, NEW ok \in BOOLEAN, AfterDial(l, e, ok)
  PROVE  /\ screen' \in {"invite", "table", "sheet"}
         /\ offer' = offer \/ offer' = NoOffer \/ offer' = [offer EXCEPT !.state = "spent"]
         /\ offer' = offer /\ offer.state = "dialing" => <<l, e>> # <<offer.dial, "offerer">>
<1>1. CASE e = "answerer" \/ offer.dial # l
  BY <1>1 DEF AfterDial, TypeOK
<1>2. CASE e = "offerer" /\ offer.dial = l
  <2>1. offer' = IF ok THEN NoOffer ELSE [offer EXCEPT !.state = "spent"]
    BY <1>2 DEF AfterDial
  <2>2. screen' \in {"invite", "table", "sheet"}
    BY <1>2 DEF AfterDial, TypeOK
  <2>3. offer' # offer \/ offer.state # "dialing"
    BY <2>1 DEF NoOffer, TypeOK
  <2> QED
    BY <2>1, <2>2, <2>3
<1> QED
  BY <1>1, <1>2

\* A link that opens ends the window: the peer is there.
LEMMA OpensKeeps ==
  ASSUME NearbyInvariant, NEW l \in Links, NEW e \in Ends, Opens(l, e)
  PROVE  NearbyInvariant'
<1> DEFINE d == Device(l, e)
           t == Attach(sess[d], l, d)
<1>0. TypeOK
  BY DEF NearbyInvariant, HostIsTold
<1>1. /\ stage[<<l, e>>] = "dialing" /\ stage' = [stage EXCEPT ![<<l, e>>] = "open"]
      /\ AfterDial(l, e, TRUE) /\ UNCHANGED <<guestOf, broken, told>>
      /\ sess' = [sess EXCEPT ![d] = t]
  BY DEF Opens
<1>2. d \in Devices /\ DOMAIN sess = Devices /\ sess \in [Devices -> NearbySession]
  BY <1>0, <1>1, EndDevice DEF NearbyInvariant, TypeOK
<1>3. /\ t \in NearbySession /\ t.state = sess[d].state /\ t.conns = sess[d].conns \cup {l}
      /\ t.closed = sess[d].closed \ {Peer(l, d)} /\ t.timer = "none" /\ t.shows = "connected"
  <2>1. sess[d] \in NearbySession
    BY <1>2
  <2> HIDE DEF d
  <2> QED
    BY <2>1, AttachFields
<1> HIDE DEF t
<1>4. /\ \A k \in Links, f \in Ends :
           stage'[<<k, f>>] = IF k = l /\ f = e THEN "open" ELSE stage[<<k, f>>]
      /\ stage' \in [Links \X Ends -> {"none", "waiting", "dialing", "open", "over"}]
  BY <1>0, <1>1 DEF TypeOK
<1>5. /\ \A x \in Devices : sess'[x] = IF x = d THEN t ELSE sess[x]
      /\ sess' \in [Devices -> NearbySession]
  BY <1>1, <1>2, <1>3
<1>6. /\ TypeOK' /\ LinksInOrder' /\ NoneWithoutSession' /\ AnswersAreNew' /\ ConnsAreOwn'
      /\ Onward
  <2>1. told' \in [Links \X Ends -> 0 .. 2]
    BY <1>0, <1>1 DEF TypeOK
  <2>2. /\ screen' \in {"invite", "table", "sheet"}
        /\ offer' = offer \/ offer' = NoOffer \/ offer' = [offer EXCEPT !.state = "spent"]
        /\ offer' = offer /\ offer.state = "dialing" => <<l, e>> # <<offer.dial, "offerer">>
    BY <1>0, <1>1, DialEnds
  <2>3. \A x \in Devices :
           /\ sess'[x].state = sess[x].state /\ sess[x].conns \subseteq sess'[x].conns
           /\ \A k \in sess'[x].conns :
                k \in sess[x].conns \/ (k = l /\ x = Device(l, e) /\ stage'[<<l, e>>] = "open")
    BY <1>3, <1>4, <1>5
  <2>4. /\ stage[<<l, e>>] \in {"dialing", "open", "over"}
        /\ stage'[<<l, e>>] = "open" /\ stage[<<l, e>>] = "dialing"
        /\ guestOf' = guestOf /\ broken' = broken
    BY <1>1, <1>4
  <2>5. \A k \in Links, f \in Ends : k # l \/ f # e => stage'[<<k, f>>] = stage[<<k, f>>]
    BY <1>4
  <2> QED
    BY ONLY NearbyInvariant, l \in Links, e \in Ends, <1>4, <1>5, <2>1, <2>2, <2>3, <2>4, <2>5,
            EndMoves
<1> HIDE DEF d
<1>7. BannerIsTimed'
  BY <1>3, <1>5 DEF NearbyInvariant, HostIsTold, BannerIsTimed, Devices
<1>8. \A x \in Devices, k \in Links : Peer(k, x)' = Peer(k, x)
  BY <1>1, PeerStays
<1>9. TimerMeansAlone'
  <2> SUFFICES ASSUME NEW x \in Devices, sess'[x].timer = "running", NEW k \in sess'[x].conns
               PROVE  Peer(k, x)' \in sess'[x].closed
    BY DEF TimerMeansAlone
  <2>1. sess'[x] = sess[x] /\ k \in Links
    BY <1>0, <1>3, <1>5, SessFields
  <2> QED
    BY <1>8, <2>1 DEF NearbyInvariant, TimerMeansAlone
<1>10. ClosedHasLost'
  <2> SUFFICES ASSUME NEW x \in Devices, NEW y \in sess'[x].closed
               PROVE  \E k \in sess'[x].conns :
                            Peer(k, x)' = y /\ stage'[<<k, End(k, x)>>] = "over"
    BY DEF ClosedHasLost, End
  <2>1. y \in sess[x].closed /\ sess[x].conns \subseteq sess'[x].conns
    BY <1>3, <1>5
  <2>2. PICK k \in sess[x].conns : Peer(k, x) = y /\ stage[<<k, End(k, x)>>] = "over"
    BY <2>1 DEF NearbyInvariant, ClosedHasLost
  <2>3. k \in Links /\ End(k, x) \in Ends
    BY <1>0, SessFields DEF End
  <2>4. stage'[<<k, End(k, x)>>] = "over"
    BY <1>1, <1>4, <2>2, <2>3
  <2> QED
    BY <1>8, <2>1, <2>2, <2>3, <2>4
<1>11. LostHasPassed' /\ EarlierPassed'
  <2>1. \A g \in Guests : sess'[g].shows = "lost" => sess[g].shows = "lost"
    BY <1>3, <1>5 DEF Devices
  <2> QED
    BY <1>0, <1>6, <2>1, LostStaysPassed, EarlierStaysPassed DEF NearbyInvariant
<1> QED
  BY <1>6, <1>7, <1>9, <1>10, <1>11 DEF NearbyInvariant, HostIsTold

\* A dial that was given up is over at that end: the guest may ask for another invite.
LEMMA GiveUpKeeps ==
  ASSUME NearbyInvariant, NEW l \in Links, NEW e \in Ends, GiveUp(l, e)
  PROVE  NearbyInvariant'
<1> DEFINE d == Device(l, e)
           t == Indicate(sess[d], d, "lost")
<1>0. TypeOK
  BY DEF NearbyInvariant, HostIsTold
<1>1. /\ stage[<<l, e>>] = "dialing" /\ stage' = [stage EXCEPT ![<<l, e>>] = "over"]
      /\ AfterDial(l, e, FALSE) /\ UNCHANGED <<guestOf, broken, told>>
      /\ sess' = [sess EXCEPT ![d] = t]
  BY DEF GiveUp
<1>2. d \in Devices /\ DOMAIN sess = Devices /\ sess \in [Devices -> NearbySession]
  BY <1>0, <1>1, EndDevice DEF NearbyInvariant, TypeOK
<1>3. /\ t \in NearbySession /\ t.state = sess[d].state /\ t.conns = sess[d].conns
      /\ t.closed = sess[d].closed /\ t.timer = sess[d].timer
      /\ t.shows = IF d = Host THEN sess[d].shows ELSE "lost"
  <2>1. sess[d] \in NearbySession
    BY <1>2
  <2> HIDE DEF d
  <2> QED
    BY <2>1, IndicateFields
<1> HIDE DEF t
<1>4. /\ \A k \in Links, f \in Ends :
           stage'[<<k, f>>] = IF k = l /\ f = e THEN "over" ELSE stage[<<k, f>>]
      /\ stage' \in [Links \X Ends -> {"none", "waiting", "dialing", "open", "over"}]
  BY <1>0, <1>1 DEF TypeOK
<1>5. /\ \A x \in Devices : sess'[x] = IF x = d THEN t ELSE sess[x]
      /\ sess' \in [Devices -> NearbySession]
  BY <1>1, <1>2, <1>3
<1>6. /\ TypeOK' /\ LinksInOrder' /\ NoneWithoutSession' /\ AnswersAreNew' /\ ConnsAreOwn'
      /\ Onward
  <2>1. told' \in [Links \X Ends -> 0 .. 2]
    BY <1>0, <1>1 DEF TypeOK
  <2>2. /\ screen' \in {"invite", "table", "sheet"}
        /\ offer' = offer \/ offer' = NoOffer \/ offer' = [offer EXCEPT !.state = "spent"]
        /\ offer' = offer /\ offer.state = "dialing" => <<l, e>> # <<offer.dial, "offerer">>
    BY <1>0, <1>1, DialEnds
  <2>3. \A x \in Devices :
           /\ sess'[x].state = sess[x].state /\ sess[x].conns \subseteq sess'[x].conns
           /\ \A k \in sess'[x].conns :
                k \in sess[x].conns \/ (k = l /\ x = Device(l, e) /\ stage'[<<l, e>>] = "open")
    BY <1>3, <1>5
  <2>4. /\ stage[<<l, e>>] \in {"dialing", "open", "over"} /\ stage'[<<l, e>>] = "over"
        /\ guestOf' = guestOf /\ broken' = broken
    BY <1>1, <1>4
  <2>5. \A k \in Links, f \in Ends : k # l \/ f # e => stage'[<<k, f>>] = stage[<<k, f>>]
    BY <1>4
  <2>6. /\ stage' \in [Links \X Ends -> {"none", "waiting", "dialing", "open", "over"}]
        /\ sess' \in [Devices -> NearbySession]
    BY <1>4, <1>5
  <2> QED
    BY ONLY NearbyInvariant, l \in Links, e \in Ends, <2>1, <2>2, <2>3, <2>4, <2>5, <2>6, EndMoves
<1>7. \A x \in Devices : /\ sess'[x].conns = sess[x].conns /\ sess'[x].closed = sess[x].closed
                         /\ sess'[x].timer = sess[x].timer /\ sess'[x].state = sess[x].state
                         /\ (x = Host \/ x # d => sess'[x].shows = sess[x].shows)
  BY <1>3, <1>5
<1>8. BannerIsTimed'
  BY <1>7 DEF NearbyInvariant, HostIsTold, BannerIsTimed, Devices
<1>9. \A x \in Devices, k \in Links : Peer(k, x)' = Peer(k, x)
  BY <1>1, PeerStays
<1>10. TimerMeansAlone'
  <2> SUFFICES ASSUME NEW x \in Devices, sess'[x].timer = "running", NEW k \in sess'[x].conns
               PROVE  Peer(k, x)' \in sess'[x].closed
    BY DEF TimerMeansAlone
  <2>1. k \in Links /\ k \in sess[x].conns
    BY <1>0, <1>7, SessFields
  <2> QED
    BY <1>7, <1>9, <2>1 DEF NearbyInvariant, TimerMeansAlone
<1>11. ClosedHasLost'
  <2> SUFFICES ASSUME NEW x \in Devices, NEW y \in sess'[x].closed
               PROVE  \E k \in sess'[x].conns :
                            Peer(k, x)' = y /\ stage'[<<k, End(k, x)>>] = "over"
    BY DEF ClosedHasLost, End
  <2>1. PICK k \in sess[x].conns : Peer(k, x) = y /\ stage[<<k, End(k, x)>>] = "over"
    BY <1>7 DEF NearbyInvariant, ClosedHasLost
  <2>2. k \in Links /\ End(k, x) \in Ends
    BY <1>0, SessFields DEF End
  <2>3. stage'[<<k, End(k, x)>>] = "over"
    BY <1>4, <2>1, <2>2
  <2> QED
    BY <1>7, <1>9, <2>1, <2>2, <2>3
<1>12. LostHasPassed'
  <2> SUFFICES ASSUME NEW g \in Guests, sess'[g].shows = "lost", NEW j \in Links, guestOf[j] = g
               PROVE  Passed(j, g)'
    BY <1>1 DEF LostHasPassed
  <2>1. CASE g # d
    <3>1. sess[g].shows = "lost"
      BY <1>7, <2>1 DEF Devices
    <3> QED
      BY <1>0, <1>6, <3>1, PassedStays DEF NearbyInvariant, LostHasPassed
  <2>2. CASE g = d
    <3>1. guestOf[l] = g /\ e = "answerer"
      BY <2>2, NearbyAssumption DEF Device
    <3>2. CASE j = l
      BY <1>4, <3>1, <3>2 DEF Passed
    <3>3. CASE j < l
      BY <1>0, <1>6, <3>1, <3>3, PassedStays DEF NearbyInvariant, EarlierPassed
    <3>4. CASE l < j
      <4>1. Passed(l, g) /\ stage[<<l, "answerer">>] # "over"
        BY <1>1, <3>1, <3>4 DEF NearbyInvariant, EarlierPassed
      <4>2. sess[g].conns \subseteq Links
        BY <1>0, SessFields DEF Devices
      <4>3. Passed(j, g)
        BY <3>4, <4>1, <4>2, NearbyAssumption DEF Passed, Links
      <4> QED
        BY <1>0, <1>6, <4>3, PassedStays
    <3> QED
      BY <3>2, <3>3, <3>4, NearbyAssumption DEF Links
  <2> QED
    BY <2>1, <2>2
<1>13. EarlierPassed'
  BY <1>0, <1>6, EarlierStaysPassed DEF NearbyInvariant
<1> QED
  BY <1>6, <1>8, <1>10, <1>11, <1>12, <1>13 DEF NearbyInvariant, HostIsTold

\* A loss that is reported is one of the session's own links, and over at that end.
LEMMA ReportKeeps ==
  ASSUME NearbyInvariant, NEW l \in Links, NEW e \in Ends, Report(l, e)
  PROVE  NearbyInvariant'
<1> DEFINE d == Device(l, e)
           t == PeerGone(sess[d], l, d)
<1>0. TypeOK
  BY DEF NearbyInvariant, HostIsTold
<1>1. /\ guestOf[l] # NoDevice /\ l \in sess[d].conns
      /\ stage' = [stage EXCEPT ![<<l, e>>] = "over"] /\ told' = [told EXCEPT ![<<l, e>>] = @ + 1]
      /\ told[<<l, e>>] < 2 /\ UNCHANGED <<screen, offer, guestOf, broken>>
      /\ sess' = [sess EXCEPT ![d] = t]
  BY DEF Report, Attached
<1>2. /\ d \in Devices /\ DOMAIN sess = Devices /\ sess \in [Devices -> NearbySession]
      /\ e = End(l, d) /\ Peer(l, d) \in Devices /\ (d = Host \/ guestOf[l] = d)
  <2>1. guestOf[l] \in Guests
    BY <1>0, <1>1 DEF TypeOK
  <2>2. d \in Devices /\ e = End(l, d) /\ (d = Host \/ guestOf[l] = d)
    BY <2>1, Sides DEF Device, Devices
  <2>3. Peer(l, d) \in Devices
    BY <2>1, <2>2, Sides DEF Devices
  <2> QED
    BY <1>0, <2>2, <2>3 DEF TypeOK
<1>3. /\ t \in NearbySession /\ t.state = sess[d].state /\ t.conns = sess[d].conns
      /\ t.closed = sess[d].closed \cup {Peer(l, d)}
      /\ \/ /\ t.shows = "lost" /\ t.timer = "running"
            /\ \A k \in sess[d].conns : Peer(k, d) \in sess[d].closed \cup {Peer(l, d)}
         \/ /\ t.shows = sess[d].shows /\ t.timer = sess[d].timer
            /\ ~(\A k \in sess[d].conns : Peer(k, d) \in sess[d].closed \cup {Peer(l, d)})
  <2>1. sess[d] \in NearbySession /\ Peer(l, d) \in Devices
    BY <1>2
  <2> HIDE DEF d
  <2> QED
    BY <2>1, GoneFields
<1> HIDE DEF t
<1>4. /\ \A k \in Links, f \in Ends :
           stage'[<<k, f>>] = IF k = l /\ f = e THEN "over" ELSE stage[<<k, f>>]
      /\ stage' \in [Links \X Ends -> {"none", "waiting", "dialing", "open", "over"}]
  BY <1>0, <1>1 DEF TypeOK
<1>5. /\ \A x \in Devices : sess'[x] = IF x = d THEN t ELSE sess[x]
      /\ sess' \in [Devices -> NearbySession]
  BY <1>1, <1>2, <1>3
<1>6. stage[<<l, e>>] \in {"open", "over"}
  BY <1>1, <1>2 DEF NearbyInvariant, ConnsAreOwn
<1>7. /\ TypeOK' /\ LinksInOrder' /\ NoneWithoutSession' /\ AnswersAreNew' /\ ConnsAreOwn'
      /\ Onward
  <2>1. told' \in [Links \X Ends -> 0 .. 2]
    BY <1>0, <1>1 DEF TypeOK
  <2>2. /\ screen' \in {"invite", "table", "sheet"} /\ offer' = offer
        /\ offer.state = "dialing" => <<l, e>> # <<offer.dial, "offerer">>
    BY <1>0, <1>1, <1>6 DEF TypeOK
  <2>3. \A x \in Devices :
           /\ sess'[x].state = sess[x].state /\ sess[x].conns \subseteq sess'[x].conns
           /\ \A k \in sess'[x].conns :
                k \in sess[x].conns \/ (k = l /\ x = Device(l, e) /\ stage'[<<l, e>>] = "open")
    BY <1>3, <1>5
  <2>4. /\ stage[<<l, e>>] \in {"dialing", "open", "over"} /\ stage'[<<l, e>>] = "over"
        /\ guestOf' = guestOf /\ broken' = broken
    BY <1>1, <1>4, <1>6
  <2>5. \A k \in Links, f \in Ends : k # l \/ f # e => stage'[<<k, f>>] = stage[<<k, f>>]
    BY <1>4
  <2> QED
    BY ONLY NearbyInvariant, l \in Links, e \in Ends, <1>4, <1>5, <2>1, <2>2, <2>3, <2>4, <2>5,
            EndMoves
<1> HIDE DEF d
<1>8. BannerIsTimed'
  BY <1>3, <1>5 DEF NearbyInvariant, HostIsTold, BannerIsTimed, Devices
<1>9. \A x \in Devices, k \in Links : Peer(k, x)' = Peer(k, x)
  BY <1>1, PeerStays
<1>10. TimerMeansAlone'
  <2> SUFFICES ASSUME NEW x \in Devices, sess'[x].timer = "running", NEW k \in sess'[x].conns
               PROVE  Peer(k, x)' \in sess'[x].closed
    BY DEF TimerMeansAlone
  <2>1. k \in sess[x].conns /\ k \in Links
    BY <1>0, <1>3, <1>5, SessFields
  <2>2. CASE x = d
    <3>1. CASE t.shows = "lost" /\ t.timer = "running"
               /\ \A i \in sess[d].conns : Peer(i, d) \in sess[d].closed \cup {Peer(l, d)}
      BY <1>3, <1>5, <1>9, <2>1, <2>2, <3>1
    <3>2. CASE t.timer = sess[d].timer
      BY <1>3, <1>5, <1>9, <2>1, <2>2, <3>2 DEF NearbyInvariant, TimerMeansAlone
    <3> QED
      BY <1>3, <3>1, <3>2
  <2>3. CASE x # d
    BY <1>5, <1>9, <2>1, <2>3 DEF NearbyInvariant, TimerMeansAlone
  <2> QED
    BY <2>2, <2>3
<1>11. ClosedHasLost'
  <2> SUFFICES ASSUME NEW x \in Devices, NEW y \in sess'[x].closed
               PROVE  \E k \in sess'[x].conns :
                            Peer(k, x)' = y /\ stage'[<<k, End(k, x)>>] = "over"
    BY DEF ClosedHasLost, End
  <2>1. CASE y \in sess[x].closed
    <3>1. PICK k \in sess[x].conns : Peer(k, x) = y /\ stage[<<k, End(k, x)>>] = "over"
      BY <2>1 DEF NearbyInvariant, ClosedHasLost
    <3>2. k \in Links /\ End(k, x) \in Ends /\ k \in sess'[x].conns
      BY <1>0, <1>3, <1>5, SessFields DEF End
    <3>3. stage'[<<k, End(k, x)>>] = "over"
      BY <1>4, <3>1, <3>2
    <3> QED
      BY <1>9, <3>1, <3>2, <3>3
  <2>2. CASE y \notin sess[x].closed
    <3>1. x = d /\ y = Peer(l, d)
      BY <1>3, <1>5, <2>2
    <3>2. l \in sess'[x].conns /\ stage'[<<l, End(l, x)>>] = "over"
      BY <1>1, <1>2, <1>3, <1>4, <1>5, <3>1 DEF d
    <3> QED
      BY <1>9, <3>1, <3>2
  <2> QED
    BY <2>1, <2>2
<1>12. LostHasPassed'
  <2> SUFFICES ASSUME NEW g \in Guests, sess'[g].shows = "lost", NEW j \in Links, guestOf[j] = g
               PROVE  Passed(j, g)'
    BY <1>1 DEF LostHasPassed
  <2>0. g \in Devices
    BY DEF Devices
  <2>1. CASE sess[g].shows = "lost"
    BY <1>0, <1>7, <2>1, PassedStays DEF NearbyInvariant, LostHasPassed
  <2>2. CASE sess[g].shows # "lost"
    <3>1. g = d
      BY <1>5, <2>0, <2>2
    <3>2. guestOf[l] = g /\ e = "answerer" /\ l \in sess'[g].conns
      BY <1>1, <1>2, <1>3, <1>5, <3>1, NearbyAssumption, Sides DEF d
    <3>3. CASE j = l
      BY <1>4, <3>2, <3>3 DEF Passed
    <3>4. CASE j < l
      BY <1>0, <1>7, <3>2, <3>4, PassedStays DEF NearbyInvariant, EarlierPassed
    <3>5. CASE l < j
      BY <1>4, <3>2, <3>5 DEF Passed
    <3> QED
      BY <3>3, <3>4, <3>5, NearbyAssumption DEF Links
  <2> QED
    BY <2>1, <2>2
<1>13. EarlierPassed'
  BY <1>0, <1>7, EarlierStaysPassed DEF NearbyInvariant
<1> QED
  BY <1>7, <1>8, <1>10, <1>11, <1>12, <1>13 DEF NearbyInvariant, HostIsTold

\* A non-empty set of natural numbers has a least element.
LEMMA LeastNat ==
  ASSUME NEW T \in SUBSET Nat, T # {}
  PROVE  \E x \in T : \A y \in T : x <= y
<1>1. PICK x \in T : \A y \in T : ~(<<y, x>> \in OpToRel(<, Nat))
  BY NatLessThanWellFounded, WFMin
<1>2. ASSUME NEW y \in T, y < x PROVE FALSE
  <2>1. <<y, x>> \in Nat \X Nat
    OBVIOUS
  <2>2. <<y, x>>[1] < <<y, x>>[2]
    BY <1>2
  <2>3. <<y, x>> \in OpToRel(<, Nat)
    BY <2>1, <2>2 DEF OpToRel
  <2>. QED BY <1>1, <2>3
<1>3. ASSUME NEW y \in T PROVE x <= y
  BY <1>2
<1>. QED BY <1>3

\* The next link to be made is the first that nobody has taken.
LEMMA NextLink ==
  ASSUME TypeOK, LinksInOrder, \E k \in Links : guestOf[k] = NoDevice
  PROVE  LET l == Min({k \in Links : guestOf[k] = NoDevice})
         IN  /\ l \in Links /\ guestOf[l] = NoDevice
             /\ \A k \in Links : guestOf[k] # NoDevice => k < l
             /\ \A k \in Links : guestOf[k] = NoDevice => l <= k
<1> DEFINE free == {k \in Links : guestOf[k] = NoDevice}
<1>1. free # {} /\ free \in SUBSET Nat
  BY NearbyAssumption DEF Links
<1> HIDE DEF free
<1>2. PICK n \in free : \A m \in free : n <= m
  BY <1>1, LeastNat
<1>3. Min(free) \in free /\ \A m \in free : Min(free) <= m
  BY <1>2 DEF Min
<1> USE DEF free
<1>4. \A k \in Links : guestOf[k] # NoDevice => k < Min(free)
  <2> SUFFICES ASSUME NEW k \in Links, guestOf[k] # NoDevice
               PROVE  k < Min(free)
    OBVIOUS
  <2>1. ~(k > Min(free)) /\ k # Min(free)
    BY <1>3 DEF LinksInOrder
  <2> QED
    BY <1>1, <1>3, <2>1, NearbyAssumption DEF Links
<1> QED
  BY <1>3, <1>4

\* A guest makes its next link when it has none, or sees its link lost: it has passed them all.
LEMMA AnswerKeeps ==
  ASSUME NearbyInvariant, NEW g \in Guests, Answer(g)
  PROVE  NearbyInvariant'
<1> DEFINE l == Min({k \in Links : guestOf[k] = NoDevice})
           t == [sess[g] EXCEPT !.state = "live", !.shows = "connecting"]
<1>0. TypeOK
  BY DEF NearbyInvariant, HostIsTold
<1>1. /\ \E k \in Links : guestOf[k] = NoDevice
      /\ sess[g].state = "none" \/ (sess[g].state = "live" /\ sess[g].shows = "lost")
      /\ guestOf' = [guestOf EXCEPT ![l] = g]
      /\ stage' = [stage EXCEPT ![<<l, "answerer">>] = "waiting"]
      /\ offer' = [offer EXCEPT !.answers = @ \cup {l}]
      /\ sess' = [sess EXCEPT ![g] = t]
      /\ UNCHANGED <<screen, broken, told>>
  BY DEF Answer
<1>2. /\ l \in Links /\ guestOf[l] = NoDevice
      /\ \A k \in Links : guestOf[k] # NoDevice => k < l
      /\ \A k \in Links : guestOf[k] = NoDevice => l <= k
  BY <1>0, <1>1, NextLink DEF NearbyInvariant
<1>3. g \in Devices /\ g # Host /\ g # NoDevice /\ sess[g] \in NearbySession
      /\ sess \in [Devices -> NearbySession]
  BY <1>0, NearbyAssumption, SessFields DEF Devices, TypeOK
<1>4. /\ t \in NearbySession /\ t.state = "live" /\ t.shows = "connecting"
      /\ t.conns = sess[g].conns /\ t.closed = sess[g].closed /\ t.timer = sess[g].timer
  BY <1>3 DEF NearbySession
<1> HIDE DEF l, t
<1>5. /\ \A x \in Devices : sess'[x] = IF x = g THEN t ELSE sess[x]
      /\ sess' \in [Devices -> NearbySession]
  BY <1>1, <1>3, <1>4
<1>6. /\ \A k \in Links : guestOf'[k] = IF k = l THEN g ELSE guestOf[k]
      /\ guestOf' \in [Links -> Guests \cup {NoDevice}]
  BY <1>0, <1>1, <1>2 DEF TypeOK
<1>7. /\ \A k \in Links, f \in Ends :
           stage'[<<k, f>>] = IF k = l /\ f = "answerer" THEN "waiting" ELSE stage[<<k, f>>]
      /\ stage' \in [Links \X Ends -> {"none", "waiting", "dialing", "open", "over"}]
  BY <1>0, <1>1, <1>2 DEF TypeOK
<1>8. /\ offer'.state = offer.state /\ offer'.answers = offer.answers \cup {l}
      /\ offer'.dial = offer.dial /\ offer.answers \subseteq Links
      /\ offer' \in [state : {"none", "shown", "dialing", "spent"}, answers : SUBSET Links,
                     dial : 0 .. MaxLinks]
  <2>1. offer \in [state : {"none", "shown", "dialing", "spent"}, answers : SUBSET Links,
                   dial : 0 .. MaxLinks]
    BY <1>0 DEF TypeOK
  <2> QED
    BY <1>1, <1>2, <2>1
<1>9. \A x \in Devices :
        /\ sess'[x].conns = sess[x].conns /\ sess'[x].closed = sess[x].closed
        /\ sess'[x].timer = sess[x].timer /\ sess[x].conns \subseteq Links
        /\ l \notin sess[x].conns
        /\ x # g => sess'[x].shows = sess[x].shows /\ sess'[x].state = sess[x].state
  BY <1>0, <1>2, <1>4, <1>5, SessFields DEF NearbyInvariant, LinksInOrder
<1>10. \A x \in Devices, k \in Links : k # l => Peer(k, x)' = Peer(k, x)
  BY <1>6, OtherEnd DEF Peer, Device, End
<1>11. HostIsTold'
  <2>1. offer'.state = "dialing" => stage'[<<offer'.dial, "offerer">>] = "dialing"
    BY <1>0, <1>7, <1>8 DEF NearbyInvariant, AnswersAreNew, TypeOK
  <2>2. TypeOK'
    BY <1>0, <1>1, <1>5, <1>6, <1>7, <1>8, <2>1 DEF TypeOK
  <2>3. BannerIsTimed'
    BY <1>3, <1>9 DEF NearbyInvariant, HostIsTold, BannerIsTimed, Devices
  <2> QED
    BY <2>2, <2>3 DEF HostIsTold
<1>12. LinksInOrder'
  <2> SUFFICES ASSUME NEW k \in Links, guestOf'[k] = NoDevice
               PROVE  /\ \A j \in Links : j > k => guestOf'[j] = NoDevice
                      /\ \A f \in Ends : stage'[<<k, f>>] = "none"
                      /\ k \notin offer'.answers
                      /\ \A x \in Devices : k \notin sess'[x].conns
    BY DEF LinksInOrder
  <2>1. k # l /\ guestOf[k] = NoDevice
    BY <1>3, <1>6
  <2>2. ~(l > k)
    BY <1>2, <2>1, NearbyAssumption DEF Links
  <2>3. \A j \in Links : j > k => guestOf'[j] = NoDevice
    BY <1>6, <2>1, <2>2, <1>2 DEF NearbyInvariant, LinksInOrder
  <2>4. \A f \in Ends : stage'[<<k, f>>] = "none"
    BY <1>7, <2>1 DEF NearbyInvariant, LinksInOrder
  <2>5. k \notin offer'.answers /\ \A x \in Devices : k \notin sess'[x].conns
    BY <1>8, <1>9, <2>1 DEF NearbyInvariant, LinksInOrder
  <2> QED
    BY <2>3, <2>4, <2>5
<1>13. NoneWithoutSession'
  BY <1>3, <1>4, <1>5, <1>6 DEF NearbyInvariant, NoneWithoutSession, Devices
<1>14. AnswersAreNew'
  <2>1. ASSUME offer'.state = "shown", NEW k \in offer'.answers
        PROVE  stage'[<<k, "offerer">>] = "none"
    BY <1>2, <1>7, <1>8, <2>1 DEF NearbyInvariant, AnswersAreNew, LinksInOrder
  <2>2. offer'.state = "dialing" => offer'.dial \in Links
    BY <1>8 DEF NearbyInvariant, AnswersAreNew
  <2> QED
    BY <2>1, <2>2 DEF AnswersAreNew
<1>15. ConnsAreOwn'
  <2> SUFFICES ASSUME NEW x \in Devices, NEW k \in sess'[x].conns
               PROVE  (x = Host \/ guestOf'[k] = x) /\ stage'[<<k, End(k, x)>>] \in {"open", "over"}
    BY DEF ConnsAreOwn, End
  <2>1. k \in sess[x].conns /\ k \in Links /\ k # l /\ End(k, x) \in Ends
    BY <1>9 DEF End
  <2> QED
    BY <1>6, <1>7, <2>1 DEF NearbyInvariant, ConnsAreOwn
<1>16. TimerMeansAlone'
  <2> SUFFICES ASSUME NEW x \in Devices, sess'[x].timer = "running", NEW k \in sess'[x].conns
               PROVE  Peer(k, x)' \in sess'[x].closed
    BY DEF TimerMeansAlone
  <2>1. k \in Links /\ k \in sess[x].conns /\ k # l /\ sess[x].timer = "running"
    BY <1>9
  <2> QED
    BY <1>9, <1>10, <2>1 DEF NearbyInvariant, TimerMeansAlone
<1>17. ClosedHasLost'
  <2> SUFFICES ASSUME NEW x \in Devices, NEW y \in sess'[x].closed
               PROVE  \E k \in sess'[x].conns :
                            Peer(k, x)' = y /\ stage'[<<k, End(k, x)>>] = "over"
    BY DEF ClosedHasLost, End
  <2>1. PICK k \in sess[x].conns : Peer(k, x) = y /\ stage[<<k, End(k, x)>>] = "over"
    BY <1>9 DEF NearbyInvariant, ClosedHasLost
  <2>2. k \in Links /\ End(k, x) \in Ends /\ k # l
    BY <1>9 DEF End
  <2>3. stage'[<<k, End(k, x)>>] = "over"
    BY <1>7, <2>1, <2>2
  <2> QED
    BY <1>9, <1>10, <2>1, <2>2, <2>3
<1>18. \A x \in Guests, j \in Links : Passed(j, x) /\ j # l => Passed(j, x)'
  <2> SUFFICES ASSUME NEW x \in Guests, NEW j \in Links, Passed(j, x), j # l
               PROVE  Passed(j, x)'
    OBVIOUS
  <2>1. x \in Devices /\ sess'[x].conns = sess[x].conns
    BY <1>9 DEF Devices
  <2> QED
    BY <1>7, <1>9, <2>1 DEF Passed
<1>19. LostHasPassed'
  <2> SUFFICES ASSUME NEW x \in Guests, sess'[x].shows = "lost", NEW j \in Links, guestOf'[j] = x
               PROVE  Passed(j, x)'
    BY DEF LostHasPassed
  <2>1. x # g /\ x \in Devices
    BY <1>4, <1>5 DEF Devices
  <2>2. j # l /\ guestOf[j] = x /\ sess[x].shows = "lost"
    BY <1>6, <1>9, <2>1
  <2> QED
    BY <1>18, <2>2 DEF NearbyInvariant, LostHasPassed
<1>20. EarlierPassed'
  <2> SUFFICES ASSUME NEW x \in Guests, NEW j \in Links, NEW k \in Links, j < k,
                      guestOf'[j] = x, guestOf'[k] = x
               PROVE  Passed(j, x)'
    BY DEF EarlierPassed
  <2>1. j # l /\ guestOf[j] = x
    <3>1. CASE k = l
      BY <1>6, <3>1, NearbyAssumption DEF Links
    <3>2. CASE k # l
      <4>1. guestOf[k] # NoDevice
        BY <1>6, <3>2, NearbyAssumption DEF Devices
      <4>2. k < l
        BY <1>2, <4>1
      <4> QED
        BY <1>2, <1>6, <4>2, NearbyAssumption DEF Links
    <3> QED
      BY <3>1, <3>2
  <2>2. CASE k # l
    BY <1>6, <1>18, <2>1, <2>2 DEF NearbyInvariant, EarlierPassed
  <2>3. CASE k = l
    <3>1. x = g /\ sess[g].shows = "lost"
      BY <1>1, <1>6, <2>1, <2>3 DEF NearbyInvariant, NoneWithoutSession
    <3> QED
      BY <1>18, <2>1, <3>1 DEF NearbyInvariant, LostHasPassed
  <2> QED
    BY <2>2, <2>3
<1> QED
  BY <1>11, <1>12, <1>13, <1>14, <1>15, <1>16, <1>17, <1>19, <1>20 DEF NearbyInvariant

-----------------------------------------------------------------------------
(* Theorems *)

LEMMA NearbyStarts == Init => NearbyInvariant
<1> SUFFICES ASSUME Init
             PROVE  NearbyInvariant
  OBVIOUS
<1>1. \A d \in Devices : /\ sess[d] \in NearbySession
                         /\ sess[d].conns = {} /\ sess[d].closed = {} /\ sess[d].timer = "none"
                         /\ sess[d].shows = "connected"
  BY DEF Init, NewSession, NearbySession
<1>2. NoOffer \in [state : {"none", "shown", "dialing", "spent"}, answers : SUBSET Links,
                   dial : 0 .. MaxLinks]
  BY NearbyAssumption DEF NoOffer
<1>3. TypeOK
  <2>1. sess \in [Devices -> NearbySession]
    BY <1>1 DEF Init
  <2>2. offer = NoOffer /\ offer.state = "none"
    BY DEF Init, NoOffer
  <2> QED
    BY <1>2, <2>1, <2>2 DEF Init, TypeOK
<1>4. BannerIsTimed
  BY <1>1 DEF BannerIsTimed, Devices
<1>5. LinksInOrder
  BY <1>1 DEF Init, LinksInOrder, NoOffer
<1>6. NoneWithoutSession /\ LostHasPassed /\ EarlierPassed
  BY <1>1, NearbyAssumption DEF Init, NoneWithoutSession, LostHasPassed, EarlierPassed, Devices
<1>7. AnswersAreNew
  BY DEF Init, NoOffer, AnswersAreNew
<1>8. ConnsAreOwn /\ TimerMeansAlone /\ ClosedHasLost
  BY <1>1 DEF ConnsAreOwn, TimerMeansAlone, ClosedHasLost
<1> QED
  BY <1>3, <1>4, <1>5, <1>6, <1>7, <1>8 DEF NearbyInvariant, HostIsTold

LEMMA NearbyContinues == NearbyInvariant /\ [Next]_vars => NearbyInvariant'
<1> SUFFICES ASSUME NearbyInvariant, [Next]_vars
             PROVE  NearbyInvariant'
  OBVIOUS
<1>1. CASE NewInvite \/ GoToTable \/ OpenSheet \/ CloseSheet
  BY <1>1, ScreenKeeps
<1>2. ASSUME NEW d \in Devices, EndSession(d)
      PROVE  NearbyInvariant'
  BY <1>2, StopKeeps DEF EndSession
<1>3. ASSUME NEW d \in Devices, EndTimerFires(d)
      PROVE  NearbyInvariant'
  BY <1>3, TimerKeeps
<1>4. ASSUME NEW g \in Guests, Answer(g)
      PROVE  NearbyInvariant'
  BY <1>4, AnswerKeeps
<1>5. ASSUME NEW l \in Links, Accept(l) \/ Meet(l)
      PROVE  NearbyInvariant'
  BY <1>5, DialKeeps
<1>6. ASSUME NEW l \in Links, Break(l)
      PROVE  NearbyInvariant'
  BY <1>6, BreakKeeps
<1>7. ASSUME NEW l \in Links, NEW e \in Ends, Opens(l, e)
      PROVE  NearbyInvariant'
  BY <1>7, OpensKeeps
<1>8. ASSUME NEW l \in Links, NEW e \in Ends, GiveUp(l, e)
      PROVE  NearbyInvariant'
  BY <1>8, GiveUpKeeps
<1>9. ASSUME NEW l \in Links, NEW e \in Ends, Report(l, e)
      PROVE  NearbyInvariant'
  BY <1>9, ReportKeeps
<1>10. CASE UNCHANGED vars
  <2>1. HostIsTold' /\ LinksInOrder' /\ NoneWithoutSession' /\ AnswersAreNew'
    BY <1>10 DEF vars, linkVars, NearbyInvariant, HostIsTold, TypeOK, BannerIsTimed, LinksInOrder,
                 NoneWithoutSession, AnswersAreNew
  <2>2. ConnsAreOwn' /\ TimerMeansAlone' /\ ClosedHasLost'
    BY <1>10 DEF vars, linkVars, NearbyInvariant, ConnsAreOwn, TimerMeansAlone, ClosedHasLost,
                 Peer, Device, End
  <2>3. LostHasPassed' /\ EarlierPassed'
    BY <1>10 DEF vars, linkVars, NearbyInvariant, LostHasPassed, EarlierPassed, Passed
  <2> QED
    BY <2>1, <2>2, <2>3 DEF NearbyInvariant
<1> QED
  BY <1>1, <1>2, <1>3, <1>4, <1>5, <1>6, <1>7, <1>8, <1>9, <1>10 DEF Next

\* The inductive invariant of the sessions and their links.
THEOREM NearbyIsSafe == Spec => []NearbyInvariant
<1>1. Spec => Init /\ [][Next]_vars
  BY DEF Spec
<1> QED
  BY <1>1, NearbyStarts, NearbyContinues, PTL

\* For every number of guests and links: what the host is shown of its peers is what its session
\* knows, and the banner of the lost link is up exactly while the grace window runs.
THEOREM HostIsAlwaysTold == Spec => []HostIsTold
<1>1. NearbyInvariant => HostIsTold
  BY DEF NearbyInvariant
<1> QED
  BY <1>1, NearbyIsSafe, PTL

\* Nothing but its timer times a session out.
LEMMA OnlyTheTimer ==
  ASSUME NearbyInvariant, [Next]_vars, NEW d \in Devices,
         sess[d].state = "live", sess'[d].state = "timed out"
  PROVE  EndTimerFires(d)
<1>0. TypeOK /\ DOMAIN sess = Devices /\ sess \in [Devices -> NearbySession]
  BY DEF NearbyInvariant, HostIsTold, TypeOK
<1> SUFFICES ASSUME ~EndTimerFires(d)
             PROVE  FALSE
  OBVIOUS
<1>1. CASE UNCHANGED sess
  BY <1>1
<1>2. ASSUME NEW x \in Devices, EndSession(x) \/ EndTimerFires(x)
      PROVE  FALSE
  <2>1. CASE EndSession(x)
    <3>1. sess' = [sess EXCEPT ![x] = [sess[x] EXCEPT !.state = "ended", !.timer = "none"]]
      BY <2>1 DEF EndSession, Stop
    <3>2. [sess[x] EXCEPT !.state = "ended", !.timer = "none"].state = "ended"
      <4>1. sess[x] \in NearbySession
        BY <1>0
      <4> QED
        BY <4>1, StoppedFields
    <3> QED
      BY <1>0, <3>1, <3>2
  <2>2. CASE EndTimerFires(x) /\ x # d
    BY <1>0, <2>2 DEF EndTimerFires, Stop
  <2> QED
    BY <1>2, <2>1, <2>2
<1>3. ASSUME NEW g \in Guests, Answer(g)
      PROVE  FALSE
  <2>1. sess' = [sess EXCEPT ![g] = [sess[g] EXCEPT !.state = "live", !.shows = "connecting"]]
    BY <1>3 DEF Answer
  <2>2. [sess[g] EXCEPT !.state = "live", !.shows = "connecting"].state = "live"
    BY <1>0 DEF NearbySession, Devices
  <2> QED
    BY <1>0, <2>1, <2>2 DEF Devices
<1>4. ASSUME NEW l \in Links, NEW e \in Ends, Opens(l, e) \/ GiveUp(l, e) \/ Report(l, e)
      PROVE  FALSE
  <2> DEFINE x == Device(l, e)
  <2>1. stage[<<l, e>>] # "none"
    <3>1. CASE Opens(l, e) \/ GiveUp(l, e)
      BY <3>1 DEF Opens, GiveUp
    <3>2. CASE Report(l, e)
      <4>1. guestOf[l] # NoDevice /\ l \in sess[x].conns
        BY <3>2 DEF Report, Attached
      <4>2. guestOf[l] \in Guests
        BY <1>0, <4>1 DEF TypeOK
      <4>3. x \in Devices /\ e = End(l, x)
        BY <4>2, Sides DEF Device, Devices
      <4> HIDE DEF x
      <4> QED
        BY <4>1, <4>3 DEF NearbyInvariant, ConnsAreOwn
    <3> QED
      BY <1>4, <3>1, <3>2
  <2>2. x \in Devices /\ sess[x] \in NearbySession /\ Peer(l, x) \in Devices
    <3>1. guestOf[l] \in Guests /\ x \in Devices /\ e = End(l, x)
      BY <1>0, <2>1, EndDevice DEF NearbyInvariant
    <3>2. Peer(l, x) \in Devices
      BY <3>1, Sides DEF Devices, End
    <3> QED
      BY <1>0, <3>1, <3>2
  <2> HIDE DEF x
  <2>3. /\ Attach(sess[x], l, x).state = sess[x].state
        /\ Indicate(sess[x], x, "lost").state = sess[x].state
        /\ PeerGone(sess[x], l, x).state = sess[x].state
    <3>1. Attach(sess[x], l, x).state = sess[x].state
      BY ONLY <2>2, l \in Links, AttachFields
    <3>2. Indicate(sess[x], x, "lost").state = sess[x].state
      BY ONLY <2>2, l \in Links, IndicateFields
    <3>3. PeerGone(sess[x], l, x).state = sess[x].state
      BY ONLY <2>2, l \in Links, GoneFields
    <3> QED
      BY <3>1, <3>2, <3>3
  <2>4. \/ sess' = [sess EXCEPT ![x] = Attach(sess[x], l, x)]
        \/ sess' = [sess EXCEPT ![x] = Indicate(sess[x], x, "lost")]
        \/ sess' = [sess EXCEPT ![x] = PeerGone(sess[x], l, x)]
    BY <1>4 DEF x, Opens, GiveUp, Report
  <2> QED
    BY <1>0, <2>2, <2>3, <2>4
<1>5. CASE NewInvite \/ GoToTable \/ OpenSheet \/ CloseSheet
  BY <1>5 DEF NewInvite, GoToTable, OpenSheet, CloseSheet
<1>6. ASSUME NEW l \in Links, Accept(l) \/ Meet(l) \/ Break(l)
      PROVE  FALSE
  BY <1>6 DEF Accept, Meet, Break
<1> QED
  BY <1>1, <1>2, <1>3, <1>4, <1>5, <1>6 DEF Next, vars

\* A session that times out takes every peer for gone, and only for a link that is over.
LEMMA TimeoutHasReason ==
  ASSUME NearbyInvariant, NEW d \in Devices, EndTimerFires(d),
         sess[d].state = "live", sess'[d].state = "timed out", NEW l \in sess[d].conns, Up(l)
  PROVE  \E k \in sess[d].conns : Peer(k, d) = Peer(l, d) /\ ~Up(k) /\ (d # Host => k < l)
<1>0. TypeOK
  BY DEF NearbyInvariant, HostIsTold
<1>1. sess[d].conns \subseteq Links /\ l \in Links
  BY <1>0, SessFields
<1>2. Peer(l, d) \in sess[d].closed
  <2>1. sess[d].timer = "running"
    BY DEF EndTimerFires
  <2> QED
    BY <2>1 DEF NearbyInvariant, TimerMeansAlone
<1>3. PICK k \in sess[d].conns : Peer(k, d) = Peer(l, d) /\ stage[<<k, End(k, d)>>] = "over"
  BY <1>2 DEF NearbyInvariant, ClosedHasLost
<1>4. ~Up(k) /\ k # l
  <2>1. End(k, d) \in Ends
    BY DEF End
  <2>2. ~Up(k)
    BY <1>3, <2>1 DEF Up
  <2> QED
    BY <2>2
<1>5. CASE d = Host
  BY <1>3, <1>4, <1>5
<1>6. CASE d # Host /\ k < l
  BY <1>3, <1>4, <1>6
<1>7. CASE d # Host /\ l < k
  <2>1. d \in Guests /\ guestOf[l] = d /\ guestOf[k] = d
    BY <1>7 DEF Devices, NearbyInvariant, ConnsAreOwn
  <2>2. Passed(l, d)
    BY <1>1, <1>7, <2>1 DEF NearbyInvariant, EarlierPassed
  <2>3. PICK i \in sess[d].conns : i < l /\ stage[<<i, "answerer">>] = "over"
    BY <2>2 DEF Passed, Up
  <2>4. ~Up(i) /\ Peer(i, d) = Peer(l, d)
    BY <1>1, <2>1, <2>3, Sides DEF Up
  <2> QED
    BY <2>3, <2>4
<1>8. k < l \/ l < k
  <2>1. k \in Links /\ l \in Links /\ k # l
    BY <1>1, <1>4
  <2>2. Links \subseteq Int
    BY ONLY NearbyAssumption DEF Links
  <2> QED
    BY ONLY <2>1, <2>2
<1> QED
  BY <1>5, <1>6, <1>7, <1>8

\* For every number of guests and links: the grace window ends no session that has company, but
\* for a peer one of whose links was lost, and at a guest an earlier one than the link that is up.
THEOREM TimesOutOnlyAlone == Spec => TimesOutAlone
<1>1. NearbyInvariant /\ [Next]_vars =>
        [\A d \in Devices : sess[d].state = "live" /\ sess'[d].state = "timed out" =>
           \A l \in sess[d].conns :
             Up(l) => \E k \in sess[d].conns :
                        Peer(k, d) = Peer(l, d) /\ ~Up(k) /\ (d # Host => k < l)]_vars
  <2> SUFFICES ASSUME NearbyInvariant, [Next]_vars, NEW d \in Devices,
                      sess[d].state = "live", sess'[d].state = "timed out",
                      NEW l \in sess[d].conns, Up(l)
               PROVE  \E k \in sess[d].conns :
                        Peer(k, d) = Peer(l, d) /\ ~Up(k) /\ (d # Host => k < l)
    OBVIOUS
  <2>1. EndTimerFires(d)
    BY OnlyTheTimer
  <2> QED
    BY <2>1, TimeoutHasReason
<1> QED
  BY <1>1, NearbyIsSafe, PTL DEF Spec, TimesOutAlone

-----------------------------------------------------------------------------
(* The tab: what pages, requests and sessions leave behind *)

Requests == [op : Ops, arg : Nat, here : BOOLEAN, page : BOOLEAN]

\* The tabs with view v.
TabsWith(v) ==
  [route : Routes, view : {v}, offline : BOOLEAN, calls : SUBSET Requests,
   transport : {None, Cloud} \cup Sessions, sockets : Int, attached : SUBSET Sessions,
   phase : {"setup", "host", "join", "table", "summary"}, ref : {None} \cup Sessions,
   running : SUBSET Sessions, peers : SUBSET Sessions, core : {"none", "loading", "ready"},
   chunk : [Lazy -> {"none", "loading", "ready", "failed"}], token : BOOLEAN,
   flagged : SUBSET Lazy]

\* The page whose component makes a request.
Home(op) ==
  CASE op \in EstablishOps \cup {"upgrade"}     -> "auth"
    [] op \in LobbyOps \cup {"listFriends"}     -> "lobby"
    [] op \in HandsOps                          -> "history"
    [] op \in NearbyOps                         -> "nearby"
    [] op \in SocialOps \ {"listFriends"}       -> "friends"

\* Requests that are given up with their component, and have a say in its view.
HereOps == {"friendTable", "listFriends", "myHands", "invite"}

\* A request's component is there only while its page is.
InPlace(t, c) ==
  /\ c.here => c.page /\ t.route = Home(c.op) /\ Shown(t)
  /\ c.op \in HereOps => c.here
  /\ c.op = "friendTable" => c.arg # None

\* One transport at most, the store's, and it is the cloud's or a session's that runs.
Wired(t) ==
  /\ t.sockets = IF t.transport = Cloud THEN 1 ELSE 0
  /\ t.attached = {t.transport} \cap Sessions
  /\ t.attached \subseteq t.running /\ t.peers \subseteq t.running

\* The views that are read when something is done to them.
Viewed(t) ==
  Shown(t) =>
    /\ t.route = "friends" => t.view \in [kind : {"friends"}, shown : Int, rail : Nat]
    /\ t.route = "history" =>
         t.view \in [kind : {"history"}, limit : Nat, hands : Nat, error : BOOLEAN]

HasTable(t) == Shown(t) /\ (t.route = "table" \/ (t.route = "friends" /\ t.view.rail # None))

\* A tab between two steps.
TabOK(t) ==
  /\ t \in TabsWith(t.view)
  /\ Wired(t) /\ Viewed(t) /\ \A c \in t.calls : InPlace(t, c)
  /\ t.transport = Cloud => HasTable(t)
  /\ t.offline <=> t.route = "nearby" /\ Shown(t)

\* Between two pages.
Bare(t) ==
  /\ t \in TabsWith(t.view)
  /\ Wired(t) /\ t.transport # Cloud /\ ~t.offline
  /\ \A c \in t.calls : ~c.here /\ c.op \notin HereOps

ShellInv ==
  /\ TabOK(tab)
  /\ storage \in BOOLEAN /\ friends \in 0 .. MaxChanges
  /\ tab.flagged # {} \/ tab.token => storage

\* Nothing asks for what api.ts would send.
Silent(t, u) == t.offline /\ u.offline => \A c \in u.calls \ t.calls : c.op \notin ApiOps

\* The same page, and the same as to what the browser stores.
SamePage(t, u) ==
  /\ u.route = t.route /\ u.chunk = t.chunk /\ u.offline = t.offline
  /\ u.token = t.token /\ u.flagged = t.flagged

USE TabAssumption, ShellAssumption

\* The cloud is no session, and neither is nothing.
LEMMA Transports == None \notin Sessions /\ Cloud \notin Sessions /\ None # Cloud
  BY DEF None, Cloud, Sessions

LEMMA OpHome ==
  /\ \A op \in Ops : Home(op) \in Routes
  /\ \A op \in EstablishOps \cup {"upgrade"} : Home(op) = "auth" /\ op \in Ops
  /\ \A op \in LobbyOps \cup {"listFriends"} : Home(op) = "lobby" /\ op \in Ops
  /\ \A op \in HandsOps : Home(op) = "history" /\ op \in Ops
  /\ \A op \in NearbyOps : Home(op) = "nearby" /\ op \in Ops
  /\ \A op \in SocialOps \ {"listFriends"} : Home(op) = "friends" /\ op \in Ops
  BY DEF Home, Ops, ApiOps, EstablishOps, LobbyOps, SocialOps, HandsOps, NearbyOps, Routes

\* What an operator on the store's transport changes.
LEMMA Closes ==
  ASSUME NEW t, t \in TabsWith(t.view), Wired(t), NEW r \in {None, Cloud}
  PROVE  LET u == [Closed(t) EXCEPT !.transport = r] IN
         /\ u \in TabsWith(t.view) /\ u.view = t.view /\ u.transport = r
         /\ u.sockets = 0 /\ u.attached = {}
         /\ SamePage(t, u) /\ u.calls = t.calls /\ u.ref = t.ref
         /\ u.running = t.running /\ u.peers = t.peers
<1> DEFINE k == IF t.transport = Cloud THEN t.sockets - 1 ELSE t.sockets
           b == t.attached \ {t.transport}
           u == [t EXCEPT !.sockets = k, !.attached = b, !.transport = r]
<1>1. k = 0 /\ b = {}
  BY Transports DEF Wired
<1>2. [Closed(t) EXCEPT !.transport = r] = u
  BY DEF Closed
<1> HIDE DEF k, b
<1>0. k \in Int /\ b \in SUBSET Sessions /\ r \in {None, Cloud} \cup Sessions
  BY <1>1
<1>3. u \in TabsWith(t.view)
  BY <1>0 DEF TabsWith
<1>5. u.view = t.view /\ u.transport = r /\ u.sockets = k /\ u.attached = b
  BY DEF TabsWith
<1>4. /\ SamePage(t, u) /\ u.calls = t.calls /\ u.ref = t.ref
      /\ u.running = t.running /\ u.peers = t.peers
  BY DEF TabsWith, SamePage
<1> HIDE DEF u
<1>. QED BY <1>1, <1>2, <1>3, <1>4, <1>5

LEMMA Disconnects ==
  ASSUME NEW t, t \in TabsWith(t.view), Wired(t)
  PROVE  LET u == Disconnect(t) IN
         /\ u \in TabsWith(t.view) /\ u.view = t.view /\ Wired(u) /\ u.transport = None
         /\ SamePage(t, u) /\ u.calls = t.calls /\ u.ref = t.ref
         /\ u.running = t.running /\ u.peers = t.peers
<1> DEFINE u == [Closed(t) EXCEPT !.transport = None]
<1>1. /\ u \in TabsWith(t.view) /\ u.view = t.view /\ u.transport = None
      /\ u.sockets = 0 /\ u.attached = {}
      /\ SamePage(t, u) /\ u.calls = t.calls /\ u.ref = t.ref
      /\ u.running = t.running /\ u.peers = t.peers
  BY Closes
<1>2. Disconnect(t) = u
  BY DEF Disconnect
<1> HIDE DEF u
<1>3. Wired(u)
  BY <1>1, Transports DEF Wired
<1>. QED BY <1>1, <1>2, <1>3

LEMMA Connects ==
  ASSUME NEW t, t \in TabsWith(t.view), Wired(t)
  PROVE  LET u == Connect(t) IN
         /\ u \in TabsWith(t.view) /\ u.view = t.view /\ Wired(u) /\ u.transport = Cloud
         /\ SamePage(t, u) /\ u.calls = t.calls /\ u.ref = t.ref
<1> DEFINE d == [Closed(t) EXCEPT !.transport = Cloud]
           u == [d EXCEPT !.sockets = @ + 1]
<1>1. /\ d \in TabsWith(t.view) /\ d.view = t.view /\ d.transport = Cloud
      /\ d.sockets = 0 /\ d.attached = {}
      /\ SamePage(t, d) /\ d.calls = t.calls /\ d.ref = t.ref
      /\ d.running = t.running /\ d.peers = t.peers
  BY Closes
<1>2. Connect(t) = u
  BY DEF Connect
<1> HIDE DEF d
<1>3. /\ u \in TabsWith(t.view) /\ u.view = t.view /\ u.transport = Cloud
      /\ u.sockets = 1 /\ u.attached = {}
      /\ u.running = t.running /\ u.peers = t.peers
  BY <1>1 DEF TabsWith
<1>4. SamePage(t, u) /\ u.calls = t.calls /\ u.ref = t.ref
  BY <1>1 DEF TabsWith, SamePage
<1> HIDE DEF u
<1>5. Wired(u)
  BY <1>3, Transports DEF Wired
<1>. QED BY <1>2, <1>3, <1>4, <1>5

LEMMA TearsDown ==
  ASSUME NEW t, t \in TabsWith(t.view), Wired(t), NEW s
  PROVE  LET u == Teardown(t, s) IN
         /\ u \in TabsWith(t.view) /\ u.view = t.view /\ Wired(u) /\ u.transport = None
         /\ SamePage(t, u) /\ u.calls = t.calls /\ u.ref = t.ref
<1> DEFINE d == Disconnect(t)
           u == [d EXCEPT !.running = @ \ {s}, !.peers = @ \ {s}]
<1>1. /\ d \in TabsWith(t.view) /\ d.view = t.view /\ Wired(d) /\ d.transport = None
      /\ SamePage(t, d) /\ d.calls = t.calls /\ d.ref = t.ref
  BY Disconnects
<1>2. Teardown(t, s) = u
  BY DEF Teardown
<1> HIDE DEF d
<1>3. d.attached = {}
  BY <1>1, Transports DEF Wired
<1>4. /\ u \in TabsWith(t.view) /\ u.view = t.view /\ u.transport = None
      /\ u.sockets = d.sockets /\ u.attached = d.attached
      /\ u.running = d.running \ {s} /\ u.peers = d.peers \ {s}
  BY <1>1 DEF TabsWith
<1>5. SamePage(t, u) /\ u.calls = t.calls /\ u.ref = t.ref
  BY <1>1 DEF TabsWith, SamePage
<1> HIDE DEF u
<1>6. Wired(u)
  BY <1>1, <1>3, <1>4 DEF Wired
<1>. QED BY <1>2, <1>4, <1>5, <1>6

LEMMA Disposes ==
  ASSUME NEW t, t \in TabsWith(t.view), Wired(t)
  PROVE  LET u == Dispose(t) IN
         /\ u \in TabsWith(t.view) /\ u.view = t.view /\ Wired(u)
         /\ u.transport \in {None, t.transport}
         /\ SamePage(t, u) /\ u.calls = t.calls
<1> DEFINE d == IF t.ref = None THEN t ELSE Teardown(t, t.ref)
           u == [d EXCEPT !.ref = None]
<1>1. /\ d \in TabsWith(t.view) /\ d.view = t.view /\ Wired(d)
      /\ d.transport \in {None, t.transport}
      /\ SamePage(t, d) /\ d.calls = t.calls /\ d.ref = t.ref
  BY TearsDown DEF SamePage
<1>2. Dispose(t) = u
  BY DEF Dispose
<1> HIDE DEF d
<1>3. /\ u \in TabsWith(t.view) /\ u.view = t.view /\ u.transport = d.transport
      /\ u.sockets = d.sockets /\ u.attached = d.attached
      /\ u.running = d.running /\ u.peers = d.peers
  BY <1>1 DEF TabsWith
<1>4. SamePage(t, u) /\ u.calls = t.calls
  BY <1>1 DEF TabsWith, SamePage
<1> HIDE DEF u
<1>5. Wired(u)
  BY <1>1, <1>3 DEF Wired
<1>. QED BY <1>1, <1>2, <1>3, <1>4, <1>5

-----------------------------------------------------------------------------
(* Views and requests *)

\* A change of the view.
LEMMA Looks ==
  ASSUME NEW t, TabOK(t), NEW v,
         Shown(t) /\ t.route = "friends" =>
           /\ v \in [kind : {"friends"}, shown : Int, rail : Nat]
           /\ t.transport = Cloud => v.rail # None,
         Shown(t) /\ t.route = "history" =>
           v \in [kind : {"history"}, limit : Nat, hands : Nat, error : BOOLEAN]
  PROVE  LET u == [t EXCEPT !.view = v] IN
         TabOK(u) /\ SamePage(t, u) /\ u.calls = t.calls /\ u.view = v /\ u.transport = t.transport
<1> DEFINE u == [t EXCEPT !.view = v]
<1>1. t \in TabsWith(t.view)
  BY DEF TabOK
<1>2. u \in TabsWith(v) /\ u.view = v /\ SamePage(t, u) /\ u.calls = t.calls
  BY <1>1 DEF TabsWith, SamePage
<1>3. /\ u.transport = t.transport /\ u.sockets = t.sockets /\ u.attached = t.attached
      /\ u.running = t.running /\ u.peers = t.peers
  BY <1>1 DEF TabsWith
<1> HIDE DEF u
<1>4. Shown(u) <=> Shown(t)
  BY <1>2 DEF Shown, SamePage
<1>5. Wired(u) /\ Viewed(u) /\ \A c \in u.calls : InPlace(u, c)
  BY <1>2, <1>3, <1>4 DEF TabOK, Wired, Viewed, InPlace, SamePage
<1>6. /\ u.transport = Cloud => HasTable(u)
      /\ u.offline <=> u.route = "nearby" /\ Shown(u)
  BY <1>2, <1>3, <1>4 DEF TabOK, HasTable, SamePage
<1>. QED BY <1>2, <1>3, <1>5, <1>6 DEF TabOK, u

\* A change of what is awaited.
LEMMA Awaits ==
  ASSUME NEW t, TabOK(t), NEW S \in SUBSET Requests, \A c \in S : InPlace(t, c)
  PROVE  LET u == [t EXCEPT !.calls = S] IN
         TabOK(u) /\ SamePage(t, u) /\ u.calls = S /\ u.view = t.view /\ u.transport = t.transport
<1> DEFINE u == [t EXCEPT !.calls = S]
<1>1. t \in TabsWith(t.view)
  BY DEF TabOK
<1>2. u \in TabsWith(t.view) /\ u.view = t.view /\ SamePage(t, u) /\ u.calls = S
  BY <1>1 DEF TabsWith, SamePage
<1>3. /\ u.transport = t.transport /\ u.sockets = t.sockets /\ u.attached = t.attached
      /\ u.running = t.running /\ u.peers = t.peers
  BY <1>1 DEF TabsWith
<1> HIDE DEF u
<1>4. Shown(u) <=> Shown(t)
  BY <1>2 DEF Shown, SamePage
<1>5. Wired(u) /\ Viewed(u) /\ \A c \in u.calls : InPlace(u, c)
  BY <1>2, <1>3, <1>4 DEF TabOK, Wired, Viewed, InPlace, SamePage
<1>6. /\ u.transport = Cloud => HasTable(u)
      /\ u.offline <=> u.route = "nearby" /\ Shown(u)
  BY <1>2, <1>3, <1>4 DEF TabOK, HasTable, SamePage
<1>. QED BY <1>2, <1>3, <1>5, <1>6 DEF TabOK, u

LEMMA Sends ==
  ASSUME NEW t, TabOK(t), Shown(t), NEW op \in Ops, t.route = Home(op), NEW a \in Nat,
         op = "friendTable" => a # None
  PROVE  LET u == Send(t, op, a) IN
         /\ TabOK(u) /\ SamePage(t, u) /\ u.view = t.view /\ u.transport = t.transport
         /\ Silent(t, u)
<1> DEFINE S == t.calls \cup {Call(op, a)}
           u == [t EXCEPT !.calls = S]
<1>1. t.calls \in SUBSET Requests
  BY DEF TabOK, TabsWith
<1>2. Call(op, a) \in Requests /\ InPlace(t, Call(op, a)) /\ Call(op, a).op = op
  BY DEF Call, Requests, InPlace
<1>3. S \in SUBSET Requests /\ \A c \in S : InPlace(t, c)
  BY <1>1, <1>2 DEF TabOK
<1>4. S \ t.calls \subseteq {Call(op, a)}
  OBVIOUS
<1> HIDE DEF S
<1>5. TabOK(u) /\ SamePage(t, u) /\ u.calls = S /\ u.view = t.view /\ u.transport = t.transport
  BY <1>3, Awaits
<1>6. Send(t, op, a) = IF Blocked(t, op) THEN t ELSE u
  BY DEF Send, S
<1> HIDE DEF u
<1>7. CASE Blocked(t, op)
  BY <1>6, <1>7 DEF Silent, SamePage
<1>8. CASE ~Blocked(t, op)
  <2>1. Silent(t, u)
    BY <1>2, <1>4, <1>5, <1>8 DEF Silent, Blocked
  <2>. QED BY <1>5, <1>6, <1>8, <2>1
<1>. QED BY <1>7, <1>8

LEMMA SendsNext ==
  ASSUME NEW t, TabOK(t), NEW c \in Requests, InPlace(t, c), NEW op \in Ops, NEW a \in Nat,
         Home(op) = Home(c.op), op \notin HereOps
  PROVE  LET u == SendNext(t, c, op, a) IN
         TabOK(u) /\ SamePage(t, u) /\ u.view = t.view /\ u.transport = t.transport
         /\ Silent(t, u)
<1> DEFINE d == [c EXCEPT !.op = op, !.arg = a]
           S == t.calls \cup {d}
           u == [t EXCEPT !.calls = S]
<1>1. t.calls \in SUBSET Requests
  BY DEF TabOK, TabsWith
<1>2. d \in Requests /\ d.op = op /\ d.arg = a /\ d.here = c.here /\ d.page = c.page
  BY DEF Requests
<1>3. SendNext(t, c, op, a) = IF Blocked(t, op) THEN t ELSE u
  BY DEF SendNext
<1> HIDE DEF d
<1>4. InPlace(t, d)
  BY <1>2 DEF InPlace, HereOps
<1>5. S \in SUBSET Requests /\ \A e \in S : InPlace(t, e)
  BY <1>1, <1>2, <1>4 DEF TabOK
<1>6. S \ t.calls \subseteq {d}
  OBVIOUS
<1> HIDE DEF S
<1>7. TabOK(u) /\ SamePage(t, u) /\ u.calls = S /\ u.view = t.view /\ u.transport = t.transport
  BY <1>5, Awaits
<1> HIDE DEF u
<1>8. CASE Blocked(t, op)
  BY <1>3, <1>8 DEF Silent, SamePage
<1>9. CASE ~Blocked(t, op)
  <2>1. Silent(t, u)
    BY <1>2, <1>6, <1>7, <1>9 DEF Silent, Blocked
  <2>. QED BY <1>3, <1>7, <1>9, <2>1
<1>. QED BY <1>8, <1>9

-----------------------------------------------------------------------------
(* Pages *)

LEMMA StaysInPlace ==
  ASSUME NEW t, NEW c, c.op \in Continues \/ c.op \notin HereOps, ~c.here
  PROVE  InPlace(t, c)
  BY DEF InPlace, HereOps, Continues, EstablishOps

LEMMA Phases ==
  ASSUME NEW t, t \in TabsWith(t.view), Wired(t),
         NEW p \in {"setup", "host", "join", "table", "summary"}
  PROVE  LET u == [t EXCEPT !.phase = p] IN
         /\ u \in TabsWith(t.view) /\ Wired(u) /\ SamePage(t, u)
         /\ u.view = t.view /\ u.calls = t.calls /\ u.transport = t.transport
<1> DEFINE u == [t EXCEPT !.phase = p]
<1>1. u \in TabsWith(t.view) /\ SamePage(t, u)
  BY DEF TabsWith, SamePage
<1>2. /\ u.transport = t.transport /\ u.sockets = t.sockets /\ u.attached = t.attached
      /\ u.running = t.running /\ u.peers = t.peers /\ u.calls = t.calls /\ u.view = t.view
  BY DEF TabsWith
<1> HIDE DEF u
<1>3. Wired(u)
  BY <1>2 DEF Wired
<1>. QED BY <1>1, <1>2, <1>3 DEF u

\* What TabOK asks of a tab whose page and view stay and that has no new transport.
LEMMA StaysOK ==
  ASSUME NEW t, TabOK(t), NEW u, u \in TabsWith(u.view), u.view = t.view, Wired(u),
         SamePage(t, u), u.transport \in {t.transport} \cup ({None} \cup Sessions),
         \A c \in u.calls : InPlace(t, c)
  PROVE  TabOK(u)
<1>1. Shown(u) <=> Shown(t)
  BY DEF Shown, SamePage
<1>2. Viewed(u) /\ \A c \in u.calls : InPlace(u, c)
  BY <1>1 DEF TabOK, Viewed, InPlace, SamePage
<1>3. /\ u.transport = Cloud => HasTable(u)
      /\ u.offline <=> u.route = "nearby" /\ Shown(u)
  BY <1>1, Transports DEF TabOK, HasTable, SamePage
<1>. QED BY <1>2, <1>3 DEF TabOK

LEMMA SetsPhase ==
  ASSUME NEW t, TabOK(t), NEW p \in {"setup", "host", "join", "table", "summary"}
  PROVE  LET u == SetPhase(t, p) IN
         /\ TabOK(u) /\ SamePage(t, u) /\ u.transport = t.transport /\ Silent(t, u)
         /\ t.route # "nearby" => u.view = t.view
<1> DEFINE a == [t EXCEPT !.phase = p]
           S == {[c EXCEPT !.here = FALSE] : c \in {d \in t.calls : d.op \in Continues}}
           b == [a EXCEPT !.view = Setup]
           e == [b EXCEPT !.calls = S]
<1>1. t \in TabsWith(t.view) /\ Wired(t) /\ \A c \in t.calls : InPlace(t, c)
  BY DEF TabOK
<1>2. /\ a \in TabsWith(t.view) /\ Wired(a) /\ SamePage(t, a)
      /\ a.view = t.view /\ a.calls = t.calls /\ a.transport = t.transport
  BY <1>1, Phases
<1>3. SetPhase(t, p) = IF t.route # "nearby" THEN a ELSE e
  BY DEF SetPhase
<1>4. ASSUME NEW c \in S
      PROVE  /\ c \in Requests /\ ~c.here /\ c.op \in Continues
             /\ \E d \in t.calls : c.op = d.op /\ (~d.here => c = d)
  <2>1. PICK d \in t.calls : c = [d EXCEPT !.here = FALSE] /\ d.op \in Continues
    OBVIOUS
  <2>2. d \in Requests
    BY <1>1 DEF TabsWith
  <2>3. c \in Requests /\ ~c.here /\ c.op = d.op
    BY <2>1, <2>2 DEF Requests
  <2>4. ASSUME ~d.here PROVE c = d
    <3>1. d.here = FALSE
      BY <2>2, <2>4 DEF Requests
    <3>. QED BY <2>1, <2>2, <3>1 DEF Requests
  <2>. QED BY <2>1, <2>3, <2>4
<1> HIDE DEF a, S
<1>5. TabOK(a)
  BY <1>1, <1>2, StaysOK
<1>6. CASE t.route # "nearby"
  BY <1>2, <1>3, <1>5, <1>6 DEF Silent
<1>7. CASE t.route = "nearby"
  <2>1. a.route = "nearby"
    BY <1>2, <1>7 DEF SamePage
  <2>2. TabOK(b) /\ SamePage(a, b) /\ b.transport = a.transport /\ b.calls = a.calls
    BY <1>5, <2>1, Looks
  <2> HIDE DEF b
  <2>3. S \in SUBSET Requests /\ \A c \in S : InPlace(b, c)
    BY <1>4, StaysInPlace
  <2>4. TabOK(e) /\ SamePage(b, e) /\ e.calls = S /\ e.transport = b.transport
    BY <2>2, <2>3, Awaits
  <2> HIDE DEF e
  <2>5. ASSUME NEW c \in S \ t.calls PROVE c.op \notin ApiOps
    <3>1. PICK d \in t.calls : c.op = d.op /\ (~d.here => c = d)
      BY <1>4
    <3>2. d.here /\ d \in Requests
      BY <1>1, <3>1, <2>5 DEF TabsWith
    <3>3. Home(d.op) = "nearby" /\ d.op \in Ops
      BY <1>1, <1>7, <3>2 DEF InPlace, Requests
    <3>4. d.op \notin ApiOps
      BY <3>3, OpHome DEF ApiOps
    <3>. QED BY <3>1, <3>4
  <2>6. SamePage(t, e)
    BY <1>2, <2>2, <2>4 DEF SamePage
  <2>. QED BY <1>2, <1>3, <1>7, <2>2, <2>4, <2>5, <2>6 DEF Silent
<1>. QED BY <1>6, <1>7

\* A tab without a page.
LEMMA NotShown ==
  ASSUME NEW t, TabOK(t), ~Shown(t)
  PROVE  Bare(t)
<1>1. ASSUME NEW c \in t.calls PROVE ~c.here /\ c.op \notin HereOps
  BY DEF TabOK, InPlace
<1>. QED BY <1>1 DEF TabOK, Bare, HasTable

LEMMA Unmounts ==
  ASSUME NEW t, TabOK(t)
  PROVE  LET u == Unmount(t) IN
         /\ Bare(u) /\ u.route = t.route /\ u.chunk = t.chunk
         /\ u.token = t.token /\ u.flagged = t.flagged
<1> DEFINE S == {[c EXCEPT !.here = FALSE, !.page = FALSE] :
                   c \in {d \in t.calls : d.op \in Continues}}
           u == [t EXCEPT !.calls = S]
           left == IF ~Shown(t) THEN u
                   ELSE CASE t.route = "table"   -> Disconnect(u)
                          [] t.route = "friends" -> LeaveFriends(u)
                          [] t.route = "nearby"  -> LeaveNearby(u)
                          [] OTHER               -> u
           n == [left EXCEPT !.view = NoView]
<1>1. t \in TabsWith(t.view) /\ Wired(t) /\ \A c \in t.calls : InPlace(t, c)
  BY DEF TabOK
<1>2. ASSUME NEW c \in S PROVE c \in Requests /\ ~c.here /\ c.op \in Continues
  <2>1. PICK d \in t.calls :
          c = [d EXCEPT !.here = FALSE, !.page = FALSE] /\ d.op \in Continues
    OBVIOUS
  <2>2. d \in Requests
    BY <1>1 DEF TabsWith
  <2>. QED BY <2>1, <2>2 DEF Requests
<1>3. Unmount(t) = n
  BY DEF Unmount
<1> HIDE DEF S
<1>4. S \in SUBSET Requests /\ \A c \in S : InPlace(t, c)
  BY <1>2, StaysInPlace
<1>5. TabOK(u) /\ SamePage(t, u) /\ u.calls = S /\ u.view = t.view /\ u.transport = t.transport
  BY <1>4, Awaits
<1> HIDE DEF u
<1>6. u \in TabsWith(u.view) /\ Wired(u) /\ (Shown(u) <=> Shown(t))
  BY <1>5 DEF TabOK, Shown, SamePage
<1>7. /\ left \in TabsWith(left.view) /\ Wired(left) /\ left.transport # Cloud /\ ~left.offline
      /\ left.calls = S /\ left.route = t.route /\ left.chunk = t.chunk
      /\ left.token = t.token /\ left.flagged = t.flagged
  <2>1. CASE ~Shown(t) \/ t.route \notin {"table", "friends", "nearby"}
    <3>1. left = u
      BY <2>1
    <3>2. u.transport # Cloud /\ ~u.offline
      BY <1>5, <1>6, <2>1 DEF TabOK, HasTable, SamePage
    <3>. QED BY <1>5, <1>6, <3>1, <3>2 DEF SamePage
  <2>2. CASE Shown(t) /\ t.route = "table"
    <3>1. left = Disconnect(u)
      BY <2>2
    <3>2. ~u.offline
      BY <1>5, <2>2 DEF TabOK, SamePage
    <3> HIDE DEF left
    <3>. QED BY <1>5, <1>6, <3>1, <3>2, Disconnects, Transports DEF SamePage
  <2>3. CASE Shown(t) /\ t.route = "friends"
    <3>1. left = IF u.view.rail = None THEN u ELSE Disconnect(u)
      BY <2>3 DEF LeaveFriends
    <3>2. ~u.offline /\ (u.transport = Cloud => u.view.rail # None)
      BY <1>5, <2>3 DEF TabOK, SamePage, HasTable
    <3> HIDE DEF left
    <3>. QED BY <1>5, <1>6, <3>1, <3>2, Disconnects, Transports DEF SamePage
  <2>4. CASE Shown(t) /\ t.route = "nearby"
    <3> DEFINE a == [u EXCEPT !.offline = FALSE]
               b == Dispose(a)
               d == [b EXCEPT !.phase = "setup"]
    <3>1. left = d
      BY <2>4 DEF LeaveNearby
    <3>2. u.transport # Cloud
      BY <1>5, <1>6, <2>4 DEF TabOK, SamePage, HasTable
    <3>3. /\ a \in TabsWith(a.view) /\ a.calls = u.calls /\ a.route = u.route
          /\ a.chunk = u.chunk /\ a.token = u.token /\ a.flagged = u.flagged /\ ~a.offline
      BY <1>6 DEF TabsWith
    <3>4. /\ a.transport = u.transport /\ a.sockets = u.sockets /\ a.attached = u.attached
          /\ a.running = u.running /\ a.peers = u.peers
      BY <1>6 DEF TabsWith
    <3> HIDE DEF a, left
    <3>5. Wired(a)
      BY <1>6, <3>4 DEF Wired
    <3>6. /\ b \in TabsWith(a.view) /\ b.view = a.view /\ Wired(b)
          /\ b.transport \in {None, a.transport} /\ SamePage(a, b) /\ b.calls = a.calls
      BY <3>3, <3>5, Disposes
    <3> HIDE DEF b
    <3>7. /\ d \in TabsWith(b.view) /\ Wired(d) /\ SamePage(b, d)
          /\ d.view = b.view /\ d.calls = b.calls /\ d.transport = b.transport
      BY <3>6, Phases
    <3> HIDE DEF d
    <3>. QED BY <1>5, <3>1, <3>2, <3>3, <3>4, <3>6, <3>7, Transports DEF SamePage
  <2>. QED BY <2>1, <2>2, <2>3, <2>4
<1> HIDE DEF left
<1>8. /\ n \in TabsWith(NoView) /\ n.view = NoView /\ n.offline = left.offline
      /\ n.calls = left.calls
      /\ n.route = left.route /\ n.chunk = left.chunk
      /\ n.token = left.token /\ n.flagged = left.flagged
  BY <1>7 DEF TabsWith
<1>9. /\ n.transport = left.transport /\ n.sockets = left.sockets /\ n.attached = left.attached
      /\ n.running = left.running /\ n.peers = left.peers
  BY <1>7 DEF TabsWith
<1> HIDE DEF n
<1>10. Wired(n)
  BY <1>7, <1>9 DEF Wired
<1>11. \A c \in S : c.op \notin HereOps
  BY <1>2 DEF HereOps, Continues, EstablishOps
<1>. QED BY <1>2, <1>3, <1>7, <1>8, <1>9, <1>10, <1>11 DEF Bare

\* What TabOK asks of a bare tab that is given a view.
LEMMA Dresses ==
  ASSUME NEW t, Bare(t), Shown(t), t.route # "nearby", NEW v,
         t.route = "friends" => v \in [kind : {"friends"}, shown : Int, rail : Nat],
         t.route = "history" =>
           v \in [kind : {"history"}, limit : Nat, hands : Nat, error : BOOLEAN]
  PROVE  LET u == [t EXCEPT !.view = v] IN
         /\ TabOK(u) /\ SamePage(t, u) /\ u.calls = t.calls /\ u.view = v
         /\ u.transport = t.transport
<1> DEFINE u == [t EXCEPT !.view = v]
<1>1. t \in TabsWith(t.view)
  BY DEF Bare
<1>2. u \in TabsWith(v) /\ u.view = v /\ SamePage(t, u) /\ u.calls = t.calls
  BY <1>1 DEF TabsWith, SamePage
<1>3. /\ u.transport = t.transport /\ u.sockets = t.sockets /\ u.attached = t.attached
      /\ u.running = t.running /\ u.peers = t.peers
  BY <1>1 DEF TabsWith
<1> HIDE DEF u
<1>4. Shown(u)
  BY <1>2 DEF Shown, SamePage
<1>5. \A c \in u.calls : InPlace(u, c)
  BY <1>2, StaysInPlace DEF Bare
<1>6. Wired(u) /\ Viewed(u) /\ u.transport # Cloud /\ ~u.offline /\ u.route = t.route
  BY <1>2, <1>3, <1>4 DEF Bare, Wired, Viewed, SamePage
<1>. QED BY <1>2, <1>3, <1>5, <1>6 DEF TabOK, u

\* A page that is mounted on a bare tab.
LEMMA Mounts ==
  ASSUME NEW t, Bare(t), Shown(t), NEW now \in Nat
  PROVE  LET u == Mount(t, now) IN
         /\ TabOK(u) /\ u.route = t.route /\ u.chunk = t.chunk
         /\ u.token = t.token /\ u.flagged = t.flagged
         /\ t.route = "nearby" => u.calls = t.calls
<1> DEFINE u == Mount(t, now)
<1>1. t \in TabsWith(t.view) /\ Wired(t)
  BY DEF Bare
<1>2. CASE t.route = "table"
  <2>1. u = Connect(t)
    BY <1>2 DEF Mount, MountTable
  <2> HIDE DEF u
  <2>2. /\ u \in TabsWith(t.view) /\ u.view = t.view /\ Wired(u)
        /\ SamePage(t, u) /\ u.calls = t.calls
    BY <1>1, <2>1, Connects
  <2>3. Shown(u) /\ Viewed(u) /\ HasTable(u) /\ ~u.offline
    BY <1>2, <2>2 DEF Bare, Shown, Viewed, HasTable, SamePage
  <2>4. \A c \in u.calls : InPlace(u, c)
    BY <2>2, StaysInPlace DEF Bare
  <2>. QED BY <1>2, <2>2, <2>3, <2>4 DEF TabOK, SamePage, u
<1>3. CASE t.route = "lobby"
  <2> DEFINE a == [t EXCEPT !.view = [kind |-> "lobby", friends |-> FALSE]]
             b == Send(a, "lists", 0)
  <2>1. u = Send(b, "listFriends", 0)
    BY <1>3 DEF Mount, MountLobby
  <2>2. TabOK(a) /\ SamePage(t, a)
    BY <1>3, Dresses
  <2>3. /\ "lists" \in Ops /\ Home("lists") = "lobby"
        /\ "listFriends" \in Ops /\ Home("listFriends") = "lobby"
    BY OpHome DEF LobbyOps
  <2> HIDE DEF a, u
  <2>4. TabOK(b) /\ SamePage(a, b)
    BY <1>3, <2>2, <2>3, Sends DEF Shown, SamePage
  <2> HIDE DEF b
  <2>5. TabOK(u) /\ SamePage(b, u)
    BY <1>3, <2>1, <2>2, <2>3, <2>4, Sends DEF Shown, SamePage
  <2>. QED BY <1>3, <2>2, <2>4, <2>5 DEF SamePage, u
<1>4. CASE t.route = "auth"
  <2> DEFINE v == [kind |-> "auth", upgrading |-> FALSE,
                   session |-> IF t.token THEN "ready" ELSE "initializing"]
             a == [t EXCEPT !.view = v]
  <2>1. u = IF t.token THEN a ELSE Send(a, "establish", 0)
    BY <1>4 DEF Mount, MountAuth
  <2> HIDE DEF v
  <2>2. TabOK(a) /\ SamePage(t, a)
    BY <1>4, Dresses
  <2>3. "establish" \in Ops /\ Home("establish") = "auth"
    BY OpHome DEF EstablishOps
  <2> HIDE DEF a, u
  <2>4. TabOK(Send(a, "establish", 0)) /\ SamePage(a, Send(a, "establish", 0))
    BY <1>4, <2>2, <2>3, Sends DEF Shown, SamePage
  <2>. QED BY <1>4, <2>1, <2>2, <2>4 DEF SamePage, u
<1>5. CASE t.route = "nearby"
  <2> DEFINE a == [t EXCEPT !.offline = TRUE, !.view = Setup]
  <2>1. u = a
    BY <1>5 DEF Mount, MountNearby
  <2> HIDE DEF u
  <2>2. /\ a \in TabsWith(Setup) /\ a.view = Setup /\ a.calls = t.calls /\ a.offline
        /\ a.route = t.route /\ a.chunk = t.chunk /\ a.token = t.token /\ a.flagged = t.flagged
    BY <1>1 DEF TabsWith
  <2>3. /\ a.transport = t.transport /\ a.sockets = t.sockets /\ a.attached = t.attached
        /\ a.running = t.running /\ a.peers = t.peers
    BY <1>1 DEF TabsWith
  <2> HIDE DEF a
  <2>4. Shown(a) /\ Viewed(a) /\ Wired(a) /\ a.transport # Cloud
    BY <1>1, <1>5, <2>2, <2>3 DEF Bare, Shown, Viewed, Wired
  <2>5. \A c \in a.calls : InPlace(a, c)
    BY <2>2, StaysInPlace DEF Bare
  <2>. QED BY <1>5, <2>1, <2>2, <2>4, <2>5 DEF TabOK, u
<1>6. CASE t.route = "friends"
  <2> DEFINE v == [kind |-> "friends", shown |-> -1, rail |-> None]
             a == [t EXCEPT !.view = v]
  <2>1. u = Send(a, "refresh", now)
    BY <1>6 DEF Mount, MountFriends
  <2>2. v \in [kind : {"friends"}, shown : Int, rail : Nat]
    BY DEF None
  <2> HIDE DEF v
  <2>3. TabOK(a) /\ SamePage(t, a)
    BY <1>6, <2>2, Dresses
  <2>4. "refresh" \in Ops /\ Home("refresh") = "friends"
    BY OpHome DEF SocialOps
  <2> HIDE DEF a, u
  <2>5. TabOK(u) /\ SamePage(a, u)
    BY <1>6, <2>1, <2>3, <2>4, Sends DEF Shown, SamePage
  <2>. QED BY <1>6, <2>3, <2>5 DEF SamePage, u
<1>7. CASE t.route = "history"
  <2> DEFINE v == [kind |-> "history", limit |-> 1, hands |-> 0, error |-> FALSE]
             a == [t EXCEPT !.view = v]
  <2>1. u = Send(a, "myHands", 1)
    BY <1>7 DEF Mount, MountHistory
  <2>2. v \in [kind : {"history"}, limit : Nat, hands : Nat, error : BOOLEAN]
    OBVIOUS
  <2> HIDE DEF v
  <2>3. TabOK(a) /\ SamePage(t, a)
    BY <1>7, <2>2, Dresses
  <2>4. "myHands" \in Ops /\ Home("myHands") = "history"
    BY OpHome DEF HandsOps
  <2> HIDE DEF a, u
  <2>5. TabOK(u) /\ SamePage(a, u)
    BY <1>7, <2>1, <2>3, <2>4, Sends DEF Shown, SamePage
  <2>. QED BY <1>7, <2>3, <2>5 DEF SamePage, u
<1>8. CASE t.route = "home"
  <2>1. u = t
    BY <1>8 DEF Mount
  <2>2. Viewed(t) /\ \A c \in t.calls : InPlace(t, c)
    BY <1>8, StaysInPlace DEF Bare, Viewed
  <2>. QED BY <1>8, <2>1, <2>2 DEF TabOK, Bare
<1>9. t.route \in Routes
  BY <1>1 DEF TabsWith
<1>. QED BY <1>2, <1>3, <1>4, <1>5, <1>6, <1>7, <1>8, <1>9 DEF Routes

LEMMA OpensPage ==
  ASSUME NEW t, Bare(t), NEW r \in Routes, NEW now \in Nat
  PROVE  LET u == Open(t, r, now) IN
         /\ TabOK(u) /\ u.route = r /\ u.token = t.token /\ u.flagged = t.flagged
         /\ r = "nearby" => u.calls = t.calls
<1> DEFINE a == [t EXCEPT !.route = r]
           k == IF a.chunk[r] = "none" THEN "loading" ELSE a.chunk[r]
           b == [a EXCEPT !.chunk[r] = k]
<1>1. t \in TabsWith(t.view) /\ Wired(t)
  BY DEF Bare
<1>2. /\ a \in TabsWith(a.view) /\ a.calls = t.calls /\ a.offline = t.offline /\ a.route = r
      /\ a.token = t.token /\ a.flagged = t.flagged
  BY <1>1 DEF TabsWith
<1>3. /\ a.transport = t.transport /\ a.sockets = t.sockets /\ a.attached = t.attached
      /\ a.running = t.running /\ a.peers = t.peers
  BY <1>1 DEF TabsWith
<1>4. Open(t, r, now) = IF Shown(a) THEN Mount(a, now) ELSE b
  BY DEF Open
<1> HIDE DEF a
<1>5. Wired(a)
  BY <1>1, <1>3 DEF Wired
<1>6. Bare(a)
  BY <1>2, <1>3, <1>5 DEF Bare
<1>7. CASE Shown(a)
  BY <1>2, <1>4, <1>6, <1>7, Mounts
<1>8. CASE ~Shown(a)
  <2>1. r \in Lazy /\ a.chunk[r] # "ready"
    BY <1>2, <1>8 DEF Shown
  <2>2. k \in {"none", "loading", "ready", "failed"} /\ k # "ready"
    BY <1>2, <2>1 DEF TabsWith
  <2> HIDE DEF k
  <2>3. /\ b \in TabsWith(b.view) /\ b.calls = a.calls /\ b.offline = a.offline /\ b.route = r
        /\ b.token = a.token /\ b.flagged = a.flagged /\ b.chunk[r] = k
    BY <1>2, <2>1, <2>2 DEF TabsWith
  <2>4. /\ b.transport = a.transport /\ b.sockets = a.sockets /\ b.attached = a.attached
        /\ b.running = a.running /\ b.peers = a.peers
    BY <1>2 DEF TabsWith
  <2> HIDE DEF b
  <2>5. ~Shown(b) /\ Wired(b)
    BY <1>5, <2>1, <2>2, <2>3, <2>4 DEF Shown, Wired
  <2>6. \A c \in b.calls : InPlace(b, c)
    BY <1>6, <2>3, StaysInPlace DEF Bare
  <2>7. TabOK(b)
    BY <1>6, <2>3, <2>4, <2>5, <2>6 DEF TabOK, Bare, Viewed
  <2>. QED BY <1>2, <1>4, <1>8, <2>3, <2>7
<1>. QED BY <1>7, <1>8

LEMMA Navigates ==
  ASSUME NEW t, TabOK(t), NEW r \in Routes, NEW now \in Nat
  PROVE  LET u == Navigate(t, r, now) IN
         /\ TabOK(u) /\ u.token = t.token /\ u.flagged = t.flagged /\ u.route = r
         /\ Silent(t, u)
<1> DEFINE a == Unmount(t)
           u == Open(a, r, now)
<1>1. Navigate(t, r, now) = IF r = t.route THEN t ELSE u
  BY DEF Navigate
<1>2. Bare(a) /\ a.token = t.token /\ a.flagged = t.flagged
  BY Unmounts
<1> HIDE DEF a
<1>3. TabOK(u) /\ u.route = r /\ u.token = a.token /\ u.flagged = a.flagged
  BY <1>2, OpensPage
<1> HIDE DEF u
<1>4. CASE r = t.route
  BY <1>1, <1>4 DEF Silent
<1>5. CASE r # t.route
  <2>1. Silent(t, u)
    BY <1>3, <1>5 DEF Silent, TabOK
  <2>. QED BY <1>1, <1>2, <1>3, <1>5, <2>1
<1>. QED BY <1>4, <1>5

LEMMA Loads ==
  ASSUME NEW t, t.token \in BOOLEAN, t.flagged \in SUBSET Lazy, NEW r \in Routes, NEW now \in Nat
  PROVE  LET u == Load(t, r, now) IN
         /\ TabOK(u) /\ u.token = t.token /\ u.flagged = t.flagged
         /\ r = "nearby" => u.calls = {}
         /\ u.route = r
<1> DEFINE a == [route |-> r, view |-> NoView, offline |-> FALSE, calls |-> {}, transport |-> None,
                 sockets |-> 0, attached |-> {}, phase |-> "setup", ref |-> None, running |-> {},
                 peers |-> {}, core |-> "none", chunk |-> [l \in Lazy |-> "none"],
                 token |-> t.token, flagged |-> t.flagged]
<1>1. Load(t, r, now) = Open(a, r, now)
  BY DEF Load
<1>2. a \in TabsWith(a.view)
  BY DEF TabsWith
<1>3. /\ a.transport = None /\ a.sockets = 0 /\ a.attached = {} /\ a.running = {} /\ a.peers = {}
      /\ ~a.offline /\ a.calls = {} /\ a.token = t.token /\ a.flagged = t.flagged
  OBVIOUS
<1> HIDE DEF a
<1>4. Bare(a)
  BY <1>2, <1>3, Transports DEF Bare, Wired
<1>. QED BY <1>1, <1>3, <1>4, OpensPage

-----------------------------------------------------------------------------
(* What actions do to the tab *)

\* A step that changes nothing of what the browser stores.
Moves(t, u) == TabOK(u) /\ Silent(t, u) /\ u.token = t.token /\ u.flagged = t.flagged

LEMMA MovesOn ==
  ASSUME NEW t, NEW a, SamePage(t, a), a.calls \subseteq t.calls, NEW u, Moves(a, u)
  PROVE  Moves(t, u)
  BY DEF Moves, Silent, SamePage

LEMMA MovesTo ==
  ASSUME NEW t, NEW a, SamePage(t, a), a.calls \subseteq t.calls, TabOK(a)
  PROVE  Moves(t, a)
  BY DEF Moves, Silent, SamePage

LEMMA SendsMove ==
  ASSUME NEW t, TabOK(t), Shown(t), NEW op \in Ops, t.route = Home(op), NEW a \in Nat,
         op = "friendTable" => a # None
  PROVE  Moves(t, Send(t, op, a))
  BY Sends DEF Moves, SamePage

LEMMA NavigatesMove ==
  ASSUME NEW t, TabOK(t), NEW r \in Routes, friends \in Nat
  PROVE  Moves(t, GoTo(t, r))
  BY Navigates DEF Moves, GoTo

LEMMA DisconnectOK ==
  ASSUME NEW t, TabOK(t)
  PROVE  LET u == Disconnect(t) IN
         /\ TabOK(u) /\ SamePage(t, u) /\ u.calls = t.calls /\ u.view = t.view
         /\ u.transport = None
<1> DEFINE u == Disconnect(t)
<1>1. /\ u \in TabsWith(t.view) /\ u.view = t.view /\ Wired(u) /\ u.transport = None
      /\ SamePage(t, u) /\ u.calls = t.calls
  BY Disconnects DEF TabOK
<1> HIDE DEF u
<1>2. TabOK(u)
  BY <1>1, StaysOK DEF TabOK
<1>. QED BY <1>1, <1>2 DEF u

LEMMA TearsDownOK ==
  ASSUME NEW t, TabOK(t), NEW s
  PROVE  LET u == Teardown(t, s) IN
         /\ TabOK(u) /\ SamePage(t, u) /\ u.calls = t.calls /\ u.view = t.view
<1> DEFINE u == Teardown(t, s)
<1>1. /\ u \in TabsWith(t.view) /\ u.view = t.view /\ Wired(u) /\ u.transport = None
      /\ SamePage(t, u) /\ u.calls = t.calls
  BY TearsDown DEF TabOK
<1> HIDE DEF u
<1>2. TabOK(u)
  BY <1>1, StaysOK DEF TabOK
<1>. QED BY <1>1, <1>2 DEF u

LEMMA DisposesOK ==
  ASSUME NEW t, TabOK(t)
  PROVE  LET u == Dispose(t) IN
         /\ TabOK(u) /\ SamePage(t, u) /\ u.calls = t.calls /\ u.view = t.view
<1> DEFINE u == Dispose(t)
<1>1. /\ u \in TabsWith(t.view) /\ u.view = t.view /\ Wired(u)
      /\ u.transport \in {None, t.transport} /\ SamePage(t, u) /\ u.calls = t.calls
  BY Disposes DEF TabOK
<1> HIDE DEF u
<1>2. TabOK(u)
  BY <1>1, StaysOK DEF TabOK
<1>. QED BY <1>1, <1>2 DEF u

LEMMA AnsweredOK ==
  ASSUME TabOK(tab), NEW c \in tab.calls
  PROVE  /\ TabOK(Answered(c)) /\ SamePage(tab, Answered(c))
         /\ Answered(c).calls \subseteq tab.calls
         /\ Answered(c).view = tab.view /\ Answered(c).transport = tab.transport
         /\ c \in Requests /\ InPlace(tab, c) /\ InPlace(Answered(c), c)
         /\ (Shown(Answered(c)) <=> Shown(tab)) /\ Answered(c).route = tab.route
<1> DEFINE S == tab.calls \ {c}
           a == Answered(c)
<1>1. /\ S \in SUBSET Requests /\ \A e \in S : InPlace(tab, e)
      /\ c \in Requests /\ InPlace(tab, c)
  BY DEF TabOK, TabsWith
<1>2. a = [tab EXCEPT !.calls = S]
  BY DEF Answered
<1>3. S \subseteq tab.calls
  OBVIOUS
<1> HIDE DEF S, a
<1>4. /\ TabOK(a) /\ SamePage(tab, a) /\ a.calls = S /\ a.view = tab.view
      /\ a.transport = tab.transport
  BY <1>1, <1>2, Awaits
<1>5. (Shown(a) <=> Shown(tab)) /\ a.route = tab.route
  BY <1>4 DEF Shown, SamePage
<1>6. InPlace(a, c)
  BY <1>1, <1>5 DEF InPlace
<1>. QED BY <1>1, <1>3, <1>4, <1>5, <1>6 DEF a

\* The nearby sessions: a new one, and what is remembered of them.
LEMMA StartsLocal ==
  ASSUME NEW t, TabOK(t), NEW s \in Sessions
  PROVE  LET u == [ConnectLocal(t, s) EXCEPT !.running = @ \cup {s}] IN
         /\ TabOK(u) /\ SamePage(t, u) /\ u.calls = t.calls /\ u.view = t.view
         /\ u.transport = s
<1> DEFINE k == IF t.transport = Cloud THEN t.sockets - 1 ELSE t.sockets
           b == (t.attached \ {t.transport}) \cup {s}
           R == t.running \cup {s}
           u == [t EXCEPT !.sockets = k, !.attached = b, !.transport = s, !.running = R]
<1>1. t \in TabsWith(t.view) /\ Wired(t)
  BY DEF TabOK
<1>2. k = 0 /\ b = {s}
  BY <1>1, Transports DEF Wired
<1>3. [ConnectLocal(t, s) EXCEPT !.running = @ \cup {s}] = u
  BY DEF ConnectLocal, Closed
<1>4. R \in SUBSET Sessions /\ s \in R /\ t.running \subseteq R
  BY <1>1 DEF TabsWith
<1>5. k \in Int /\ b \in SUBSET Sessions /\ s \in {None, Cloud} \cup Sessions
  BY <1>2
<1> HIDE DEF k, b, R
<1>6. u \in TabsWith(t.view)
  BY <1>1, <1>4, <1>5 DEF TabsWith
<1>7. /\ u.view = t.view /\ u.transport = s /\ u.sockets = k /\ u.attached = b /\ u.running = R
      /\ u.peers = t.peers
  BY <1>1 DEF TabsWith
<1>8. SamePage(t, u) /\ u.calls = t.calls
  BY <1>1 DEF TabsWith, SamePage
<1> HIDE DEF u
<1>9. Wired(u)
  BY <1>1, <1>2, <1>4, <1>7, Transports DEF Wired
<1>10. TabOK(u)
  BY <1>6, <1>7, <1>8, <1>9, StaysOK DEF TabOK
<1>. QED BY <1>3, <1>7, <1>8, <1>10

LEMMA Remembers ==
  ASSUME NEW t, TabOK(t), NEW s \in Sessions
  PROVE  LET u == [t EXCEPT !.ref = s] IN
         /\ TabOK(u) /\ SamePage(t, u) /\ u.calls = t.calls /\ u.view = t.view
         /\ u.transport = t.transport
<1> DEFINE u == [t EXCEPT !.ref = s]
<1>1. t \in TabsWith(t.view) /\ Wired(t)
  BY DEF TabOK
<1>2. u \in TabsWith(t.view) /\ SamePage(t, u) /\ u.calls = t.calls
  BY <1>1 DEF TabsWith, SamePage
<1>3. /\ u.view = t.view /\ u.transport = t.transport /\ u.sockets = t.sockets
      /\ u.attached = t.attached /\ u.running = t.running /\ u.peers = t.peers
  BY <1>1 DEF TabsWith
<1> HIDE DEF u
<1>4. Wired(u)
  BY <1>1, <1>3 DEF Wired
<1>5. TabOK(u)
  BY <1>2, <1>3, <1>4, StaysOK DEF TabOK
<1>. QED BY <1>2, <1>3, <1>5 DEF u

LEMMA HearsOf ==
  ASSUME NEW t, TabOK(t), NEW s \in t.running
  PROVE  LET u == [t EXCEPT !.peers = @ \cup {s}] IN
         TabOK(u) /\ SamePage(t, u) /\ u.calls = t.calls
<1> DEFINE P == t.peers \cup {s}
           u == [t EXCEPT !.peers = P]
<1>1. t \in TabsWith(t.view) /\ Wired(t)
  BY DEF TabOK
<1>2. P \in SUBSET Sessions /\ P \subseteq t.running
  BY <1>1 DEF TabsWith, Wired
<1> HIDE DEF P
<1>3. u \in TabsWith(t.view) /\ SamePage(t, u) /\ u.calls = t.calls
  BY <1>1, <1>2 DEF TabsWith, SamePage
<1>4. /\ u.view = t.view /\ u.transport = t.transport /\ u.sockets = t.sockets
      /\ u.attached = t.attached /\ u.running = t.running /\ u.peers = P
  BY <1>1 DEF TabsWith
<1> HIDE DEF u
<1>5. Wired(u)
  BY <1>1, <1>2, <1>4 DEF Wired
<1>6. TabOK(u)
  BY <1>3, <1>4, <1>5, StaysOK DEF TabOK
<1>. QED BY <1>3, <1>6 DEF u, P

\* The local core, and what waits for it.
WithCore(t, k, S) == [t EXCEPT !.core = k, !.calls = S]

LEMMA CoreMoves ==
  ASSUME NEW t, TabOK(t), NEW k \in {"none", "loading", "ready"}, NEW S \in SUBSET t.calls
  PROVE  LET u == WithCore(t, k, S) IN
         TabOK(u) /\ SamePage(t, u) /\ u.calls = S /\ u.view = t.view
<1> DEFINE u == [t EXCEPT !.core = k, !.calls = S]
<1>1. t \in TabsWith(t.view) /\ Wired(t) /\ S \in SUBSET Requests /\ \A c \in S : InPlace(t, c)
  BY DEF TabOK, TabsWith
<1>2. u \in TabsWith(t.view) /\ SamePage(t, u) /\ u.calls = S
  BY <1>1 DEF TabsWith, SamePage
<1>3. /\ u.view = t.view /\ u.transport = t.transport /\ u.sockets = t.sockets
      /\ u.attached = t.attached /\ u.running = t.running /\ u.peers = t.peers
  BY <1>1 DEF TabsWith
<1> HIDE DEF u
<1>4. Wired(u)
  BY <1>1, <1>3 DEF Wired
<1>5. TabOK(u)
  BY <1>1, <1>2, <1>3, <1>4, StaysOK DEF TabOK
<1>. QED BY <1>2, <1>3, <1>5 DEF u, WithCore

\* A friend's table that opens on the friends' page.
LEMMA Rails ==
  ASSUME NEW t, TabOK(t), Shown(t), t.route = "friends", NEW f \in Nat, f # None
  PROVE  LET u == Rail(t, f) IN TabOK(u) /\ SamePage(t, u) /\ u.calls = t.calls
<1> DEFINE d == Connect(t)
           v == [d.view EXCEPT !.rail = f]
           u == [d EXCEPT !.view = v]
<1>1. t \in TabsWith(t.view) /\ Wired(t)
  BY DEF TabOK
<1>2. /\ d \in TabsWith(t.view) /\ d.view = t.view /\ Wired(d) /\ d.transport = Cloud
      /\ SamePage(t, d) /\ d.calls = t.calls
  BY <1>1, Connects
<1>3. Rail(t, f) = u
  BY DEF Rail
<1> HIDE DEF d
<1>4. t.view \in [kind : {"friends"}, shown : Int, rail : Nat]
  BY DEF TabOK, Viewed
<1>5. v \in [kind : {"friends"}, shown : Int, rail : Nat] /\ v.rail = f
  BY <1>2, <1>4
<1> HIDE DEF v
<1>6. /\ u \in TabsWith(v) /\ u.view = v /\ SamePage(d, u) /\ u.calls = d.calls
      /\ u.transport = Cloud
  BY <1>2 DEF TabsWith, SamePage
<1>7. /\ u.sockets = d.sockets /\ u.attached = d.attached
      /\ u.running = d.running /\ u.peers = d.peers
  BY <1>2 DEF TabsWith
<1> HIDE DEF u
<1>8. Wired(u)
  BY <1>2, <1>6, <1>7 DEF Wired
<1>9. Shown(u) /\ u.route = "friends" /\ ~u.offline /\ SamePage(t, u)
  BY <1>2, <1>6 DEF TabOK, SamePage, Shown
<1>10. Viewed(u) /\ HasTable(u)
  BY <1>5, <1>6, <1>9 DEF Viewed, HasTable
<1>11. \A c \in u.calls : InPlace(u, c)
  BY <1>2, <1>6, <1>9 DEF TabOK, InPlace, SamePage
<1>. QED BY <1>2, <1>3, <1>6, <1>8, <1>9, <1>10, <1>11 DEF TabOK

\* What leaves the spectator's table, or the page with it.
LEMMA LeavesFriends ==
  ASSUME NEW t, TabOK(t)
  PROVE  LET u == LeaveFriends(t) IN
         /\ TabOK(u) /\ SamePage(t, u) /\ u.calls = t.calls /\ u.view = t.view
         /\ Shown(t) /\ t.route = "friends" => u.transport # Cloud
<1>1. CASE t.view.rail = None
  BY <1>1 DEF LeaveFriends, SamePage, TabOK, HasTable
<1>2. CASE t.view.rail # None
  BY <1>2, DisconnectOK, Transports DEF LeaveFriends
<1>. QED BY <1>1, <1>2

-----------------------------------------------------------------------------
(* The actions *)

LEMMA ShellFacts ==
  ASSUME ShellInv
  PROVE  /\ TabOK(tab) /\ tab \in TabsWith(tab.view) /\ tab.route \in Routes
         /\ tab.calls \in SUBSET Requests /\ friends \in Nat /\ 0 \in Nat
         /\ tab.token \in BOOLEAN /\ tab.flagged \in SUBSET Lazy /\ MaxChanges \in Nat
  BY DEF ShellInv, TabOK, TabsWith

LEMMA RoutesMove ==
  ASSUME ShellInv, \/ \E r \in Routes : Go(r)
                   \/ LeaveTable \/ JoinFriend
  PROVE  Moves(tab, tab')
<1>1. {"lobby", "table"} \subseteq Routes
  BY DEF Routes
<1>2. ASSUME NEW r \in Routes, Go(r) PROVE Moves(tab, tab')
  BY <1>2, ShellFacts, NavigatesMove DEF Go
<1>3. CASE LeaveTable
  <2> DEFINE d == Disconnect(tab)
  <2>1. TabOK(d) /\ SamePage(tab, d) /\ d.calls = tab.calls
    BY ShellFacts, DisconnectOK
  <2>2. tab' = GoTo(d, "lobby")
    BY <1>3 DEF LeaveTable
  <2> HIDE DEF d
  <2>3. Moves(d, tab')
    BY <1>1, <2>1, <2>2, ShellFacts, NavigatesMove
  <2>. QED BY <2>1, <2>3, MovesOn
<1>4. CASE JoinFriend
  BY <1>1, <1>4, ShellFacts, NavigatesMove DEF JoinFriend
<1>. QED BY <1>2, <1>3, <1>4

LEMMA ReloadMoves ==
  ASSUME ShellInv, Reload
  PROVE  Moves(tab, tab')
<1>1. tab' = Load(tab, tab.route, friends)
  BY DEF Reload
<1>2. /\ TabOK(tab') /\ tab'.token = tab.token /\ tab'.flagged = tab.flagged
      /\ tab.route = "nearby" => tab'.calls = {}
  BY <1>1, ShellFacts, Loads
<1>3. Silent(tab, tab')
  BY <1>2, ShellFacts DEF Silent, TabOK
<1>. QED BY <1>2, <1>3 DEF Moves

LEMMA ChunkFailsMoves ==
  ASSUME ShellInv, NEW r \in Lazy, ChunkFails(r)
  PROVE  /\ TabOK(tab') /\ Silent(tab, tab') /\ tab'.token = tab.token
         /\ tab'.flagged # {} => tab.flagged # {} \/ storage
<1>1. TabOK(tab) /\ tab \in TabsWith(tab.view)
  BY ShellFacts
<1>2. CASE r \in tab.flagged
  <2> DEFINE u == [tab EXCEPT !.chunk[r] = "failed"]
  <2>1. tab' = u /\ tab.chunk[r] = "loading"
    BY <1>2 DEF ChunkFails
  <2>2. u \in TabsWith(tab.view) /\ u.route = tab.route /\ u.offline = tab.offline
        /\ u.calls = tab.calls /\ u.token = tab.token /\ u.flagged = tab.flagged
    BY <1>1 DEF TabsWith
  <2>3. /\ u.view = tab.view /\ u.transport = tab.transport /\ u.sockets = tab.sockets
        /\ u.attached = tab.attached /\ u.running = tab.running /\ u.peers = tab.peers
    BY <1>1 DEF TabsWith
  <2>4. \A l \in Lazy : u.chunk[l] = "ready" <=> tab.chunk[l] = "ready"
    BY <1>1, <2>1 DEF TabsWith
  <2> HIDE DEF u
  <2>5. Shown(u) <=> Shown(tab)
    BY <2>2, <2>4 DEF Shown
  <2>6. Wired(u) /\ Viewed(u) /\ \A c \in u.calls : InPlace(u, c)
    BY <1>1, <2>2, <2>3, <2>5 DEF TabOK, Wired, Viewed, InPlace
  <2>7. TabOK(u)
    BY <1>1, <2>2, <2>3, <2>5, <2>6 DEF TabOK, HasTable
  <2>. QED BY <2>1, <2>2, <2>7 DEF Silent
<1>3. CASE r \notin tab.flagged
  <2> DEFINE a == [tab EXCEPT !.flagged = @ \cup Mark(r)]
  <2>1. tab' = Load(a, tab.route, friends)
    BY <1>3 DEF ChunkFails
  <2>2. /\ a.token = tab.token /\ a.flagged = tab.flagged \cup Mark(r)
    BY <1>1 DEF TabsWith
  <2>3. a.token \in BOOLEAN /\ a.flagged \in SUBSET Lazy /\ tab.route \in Routes
    BY <2>2, ShellFacts DEF Mark
  <2> HIDE DEF a
  <2>4. /\ TabOK(tab') /\ tab'.token = a.token /\ tab'.flagged = a.flagged
        /\ tab.route = "nearby" => tab'.calls = {}
    BY <2>1, <2>3, ShellFacts, Loads
  <2>5. Silent(tab, tab')
    BY <1>1, <2>4 DEF Silent, TabOK
  <2>. QED BY <2>2, <2>4, <2>5 DEF Mark
<1>. QED BY <1>2, <1>3

LEMMA ChunkLoadsMoves ==
  ASSUME ShellInv, NEW r \in Lazy, ChunkLoads(r)
  PROVE  /\ TabOK(tab') /\ Silent(tab, tab') /\ tab'.token = tab.token
         /\ tab'.flagged \subseteq tab.flagged
<1> DEFINE u == [tab EXCEPT !.chunk[r] = "ready", !.flagged = @ \ {r}]
<1>1. TabOK(tab) /\ tab \in TabsWith(tab.view)
  BY ShellFacts
<1>2. tab' = (IF tab.route = r THEN Mount(u, friends) ELSE u) /\ tab.chunk[r] = "loading"
  BY DEF ChunkLoads
<1>3. u \in TabsWith(tab.view) /\ u.route = tab.route /\ u.offline = tab.offline
      /\ u.calls = tab.calls /\ u.token = tab.token /\ u.flagged = tab.flagged \ {r}
  BY <1>1 DEF TabsWith
<1>4. /\ u.view = tab.view /\ u.transport = tab.transport /\ u.sockets = tab.sockets
      /\ u.attached = tab.attached /\ u.running = tab.running /\ u.peers = tab.peers
  BY <1>1 DEF TabsWith
<1>5. /\ u.chunk[r] = "ready"
      /\ \A l \in Lazy : l # r => u.chunk[l] = tab.chunk[l]
  BY <1>1 DEF TabsWith
<1> HIDE DEF u
<1>6. Wired(u)
  BY <1>1, <1>4 DEF TabOK, Wired
<1>7. CASE tab.route = r
  <2>1. ~Shown(tab) /\ Shown(u)
    BY <1>2, <1>3, <1>5, <1>7 DEF Shown
  <2>2. Bare(tab)
    BY <1>1, <2>1, NotShown
  <2>3. Bare(u)
    BY <1>3, <1>4, <1>6, <2>2 DEF Bare
  <2>4. TabOK(tab') /\ tab'.token = u.token /\ tab'.flagged = u.flagged
    BY <1>2, <1>7, <2>1, <2>3, ShellFacts, Mounts
  <2>5. Silent(tab, tab')
    BY <2>2 DEF Bare, Silent
  <2>. QED BY <1>3, <2>4, <2>5
<1>8. CASE tab.route # r
  <2>1. Shown(u) <=> Shown(tab)
    BY <1>3, <1>5, <1>8 DEF Shown
  <2>2. Viewed(u) /\ \A c \in u.calls : InPlace(u, c)
    BY <1>1, <1>3, <1>4, <2>1 DEF TabOK, Viewed, InPlace
  <2>3. TabOK(u)
    BY <1>1, <1>3, <1>4, <1>6, <2>1, <2>2 DEF TabOK, HasTable
  <2>. QED BY <1>2, <1>3, <1>8, <2>3 DEF Silent
<1>. QED BY <1>7, <1>8

\* Taps that send a request.
LEMMA TapsMove ==
  ASSUME ShellInv,
         \/ SeatMe \/ JoinByCode \/ Register \/ CreateRoom \/ CreateSng \/ RefreshTables
         \/ Poll \/ AddFriend \/ ResolveRequest \/ RemoveFriend \/ \E f \in Friends : RailFriend(f)
  PROVE  Moves(tab, tab')
<1>1. ASSUME NEW op \in LobbyOps, On("lobby"), Start(op, 0) PROVE Moves(tab, tab')
  BY <1>1, ShellFacts, OpHome, SendsMove DEF On, Start, LobbyOps
<1>2. ASSUME NEW op \in SocialOps \ {"listFriends"}, NEW a \in Nat, On("friends"),
             tab' = Send(tab, op, a), op = "friendTable" => a # None
      PROVE  Moves(tab, tab')
  BY <1>2, ShellFacts, OpHome, SendsMove DEF On
<1>3. {"quickseat", "joinRoom", "registerSNG", "createRoom", "createSNG", "lists"}
         \subseteq LobbyOps
  BY DEF LobbyOps
<1>4. {"refresh", "request", "resolve", "remove", "friendTable"}
         \subseteq SocialOps \ {"listFriends"}
  BY DEF SocialOps
<1>5. CASE SeatMe \/ JoinByCode \/ Register \/ CreateRoom \/ CreateSng \/ RefreshTables
  BY <1>1, <1>3, <1>5 DEF SeatMe, JoinByCode, Register, CreateRoom, CreateSng, RefreshTables
<1>6. CASE Poll
  BY <1>2, <1>4, <1>6, ShellFacts DEF Poll
<1>7. CASE AddFriend \/ ResolveRequest \/ RemoveFriend
  BY <1>2, <1>4, <1>7 DEF AddFriend, ResolveRequest, RemoveFriend, Start
<1>8. ASSUME NEW f \in Friends, RailFriend(f) PROVE Moves(tab, tab')
  <2>1. f \in Nat /\ f # None
    BY DEF None
  <2>. QED BY <1>2, <1>4, <1>8, <2>1 DEF RailFriend, Start
<1>. QED BY <1>5, <1>6, <1>7, <1>8

\* A step that keeps what the browser stores, but for a token it may store.
Proceeds(t, u) ==
  /\ TabOK(u) /\ Silent(t, u)
  /\ u.token => t.token \/ storage
  /\ u.flagged # {} => t.flagged # {} \/ storage

LEMMA MovesProceeds ==
  ASSUME NEW t, NEW u, Moves(t, u)
  PROVE  Proceeds(t, u)
  BY DEF Moves, Proceeds

\* What a component on another page than those of friends and hands sets in its view.
LEMMA LooksHere ==
  ASSUME NEW t, TabOK(t), NEW c, c.here => t.route \notin {"friends", "history"}, NEW v
  PROVE  LET u == IF c.here THEN [t EXCEPT !.view = v] ELSE t IN
         TabOK(u) /\ SamePage(t, u) /\ u.calls = t.calls
<1>1. CASE c.here
  BY <1>1, Looks
<1>2. CASE ~c.here
  BY <1>2 DEF SamePage
<1>. QED BY <1>1, <1>2

LEMMA StoresToken ==
  ASSUME NEW t, TabOK(t), storage \in BOOLEAN
  PROVE  LET u == StoreToken(t) IN
         /\ TabOK(u) /\ u.calls = t.calls /\ u.offline = t.offline /\ u.flagged = t.flagged
         /\ u.token <=> t.token \/ storage
         /\ u.route = t.route /\ u.chunk = t.chunk
<1> DEFINE u == [t EXCEPT !.token = @ \/ storage]
<1>1. t \in TabsWith(t.view) /\ Wired(t)
  BY DEF TabOK
<1>2. (t.token \/ storage) \in BOOLEAN
  OBVIOUS
<1>3. u \in TabsWith(t.view)
  BY <1>1, <1>2 DEF TabsWith
<1>4. /\ u.calls = t.calls /\ u.offline = t.offline /\ u.flagged = t.flagged
      /\ u.route = t.route /\ u.chunk = t.chunk
      /\ u.token = (t.token \/ storage)
  BY <1>1 DEF TabsWith
<1>5. /\ u.view = t.view /\ u.transport = t.transport /\ u.sockets = t.sockets
      /\ u.attached = t.attached /\ u.running = t.running /\ u.peers = t.peers
  BY <1>1 DEF TabsWith
<1>6. StoreToken(t) = u
  BY DEF StoreToken
<1> HIDE DEF u
<1>7. Shown(u) <=> Shown(t)
  BY <1>4 DEF Shown
<1>8. Wired(u) /\ Viewed(u) /\ \A c \in u.calls : InPlace(u, c)
  BY <1>1, <1>4, <1>5, <1>7 DEF TabOK, Wired, Viewed, InPlace
<1>9. TabOK(u)
  BY <1>3, <1>4, <1>5, <1>7, <1>8 DEF TabOK, HasTable
<1>. QED BY <1>4, <1>6, <1>9

\* The upgrade that a caller on the sign-in page, or gone from it, goes on with.
LEMMA Upgrades ==
  ASSUME NEW t, TabOK(t), NEW c \in Requests, InPlace(t, c), Home(c.op) = "auth"
  PROVE  Moves(t, UpgradeNow(t, c))
<1> DEFINE v == [t.view EXCEPT !.upgrading = TRUE]
           a == IF c.here THEN [t EXCEPT !.view = v] ELSE t
           u == SendNext(a, c, "upgrade", 0)
<1>1. UpgradeNow(t, c) = u
  BY DEF UpgradeNow
<1> HIDE DEF v
<1>2. c.here => t.route = "auth"
  BY DEF InPlace
<1>3. TabOK(a) /\ SamePage(t, a) /\ a.calls = t.calls
  BY <1>2, LooksHere
<1> HIDE DEF a
<1>4. InPlace(a, c)
  BY <1>3 DEF InPlace, Shown, SamePage
<1>5. "upgrade" \in Ops /\ Home("upgrade") = "auth" /\ "upgrade" \notin HereOps /\ 0 \in Nat
  BY OpHome DEF HereOps
<1>6. Moves(a, u)
  BY <1>3, <1>4, <1>5, SendsNext DEF Moves, SamePage
<1>. QED BY <1>1, <1>3, <1>6, MovesOn

LEMMA SignInMoves ==
  ASSUME ShellInv, Retry \/ ContinueAsGuest \/ UpgradeWithEmail
  PROVE  Moves(tab, tab')
<1>1. TabOK(tab) /\ {"lobby", "auth"} \subseteq Routes /\ 0 \in Nat
  BY ShellFacts DEF Routes
<1>2. ASSUME NEW op \in EstablishOps, On("auth"), Establish(op) PROVE Moves(tab, tab')
  <2> DEFINE v == [tab.view EXCEPT !.session = "initializing"]
             a == [tab EXCEPT !.view = v]
  <2>1. tab' = Send(a, op, 0)
    BY <1>2 DEF Establish
  <2> HIDE DEF v
  <2>2. TabOK(a) /\ SamePage(tab, a) /\ a.calls = tab.calls
    BY <1>1, <1>2, Looks DEF On
  <2> HIDE DEF a
  <2>3. Shown(a) /\ a.route = "auth"
    BY <1>2, <2>2 DEF On, Shown, SamePage
  <2>4. op \in Ops /\ Home(op) = "auth" /\ op # "friendTable"
    BY OpHome DEF EstablishOps
  <2>5. Moves(a, tab')
    BY <1>1, <2>1, <2>2, <2>3, <2>4, SendsMove
  <2>. QED BY <2>2, <2>5, MovesOn
<1>3. {"establish", "establishToLobby", "establishToUpgrade"} \subseteq EstablishOps
  BY DEF EstablishOps
<1>4. CASE Retry
  <2>1. CASE tab.token
    <3> DEFINE v == [tab.view EXCEPT !.session = "ready"]
    <3>1. tab' = [tab EXCEPT !.view = v] /\ tab.route = "auth"
      BY <1>4, <2>1 DEF Retry, On
    <3> HIDE DEF v
    <3>. QED BY <1>1, <3>1, Looks, MovesTo
  <2>. QED BY <1>2, <1>3, <1>4, <2>1 DEF Retry
<1>5. CASE ContinueAsGuest
  BY <1>1, <1>2, <1>3, <1>5, ShellFacts, NavigatesMove DEF ContinueAsGuest
<1>6. CASE UpgradeWithEmail
  <2>1. CASE tab.token
    <3> DEFINE c == Call("upgrade", 0)
    <3>1. tab' = UpgradeNow(tab, c)
      BY <1>6, <2>1 DEF UpgradeWithEmail
    <3>2. "upgrade" \in Ops /\ Home("upgrade") = "auth" /\ "upgrade" \notin HereOps
      BY OpHome DEF HereOps
    <3>3. c \in Requests /\ c.op = "upgrade" /\ c.here /\ c.page
      BY <3>2 DEF Call, Requests
    <3> HIDE DEF c
    <3>4. InPlace(tab, c)
      BY <1>6, <3>2, <3>3 DEF InPlace, UpgradeWithEmail, On, HereOps
    <3>. QED BY <1>1, <3>1, <3>2, <3>3, <3>4, Upgrades
  <2>. QED BY <1>2, <1>3, <1>6, <2>1 DEF UpgradeWithEmail
<1>. QED BY <1>4, <1>5, <1>6

LEMMA GuestLoginMoves ==
  ASSUME ShellInv, NEW c \in tab.calls, NEW ok \in BOOLEAN, GuestLoginAnswered(c, ok)
  PROVE  Proceeds(tab, tab')
<1> DEFINE a == Answered(c)
           v == [a.view EXCEPT !.session = IF ok THEN "ready" ELSE "error"]
           t == IF c.here THEN [a EXCEPT !.view = v] ELSE a
           u == StoreToken(t)
<1>1. /\ TabOK(a) /\ SamePage(tab, a) /\ a.calls \subseteq tab.calls
      /\ c \in Requests /\ InPlace(a, c)
  BY ShellFacts, AnsweredOK
<1>2. c.op \in EstablishOps /\ Home(c.op) = "auth"
  BY OpHome DEF GuestLoginAnswered
<1>3. tab' = IF ~ok THEN t
             ELSE CASE c.op = "establishToLobby"   -> GoTo(u, "lobby")
                    [] c.op = "establishToUpgrade" -> UpgradeNow(u, c)
                    [] OTHER                       -> u
  BY DEF GuestLoginAnswered, SetAuth
<1> HIDE DEF a, v
<1>4. c.here => a.route = "auth"
  BY <1>1, <1>2 DEF InPlace
<1>5. TabOK(t) /\ SamePage(a, t) /\ t.calls = a.calls
  BY <1>1, <1>4, LooksHere
<1> HIDE DEF t
<1>6. /\ TabOK(u) /\ u.calls = t.calls /\ u.offline = t.offline /\ u.flagged = t.flagged
      /\ u.token <=> t.token \/ storage
      /\ u.route = t.route /\ u.chunk = t.chunk
  BY <1>5, StoresToken DEF ShellInv
<1> HIDE DEF u
<1>7. SamePage(tab, t) /\ t.calls \subseteq tab.calls
  BY <1>1, <1>5 DEF SamePage
<1>8. CASE ~ok
  BY <1>3, <1>5, <1>7, <1>8, MovesTo, MovesProceeds
<1>9. ASSUME NEW w, Moves(u, w) PROVE Proceeds(tab, w)
  <2>1. /\ TabOK(w) /\ Silent(u, w) /\ w.token = u.token /\ w.flagged = u.flagged
    BY <1>9 DEF Moves
  <2>2. Silent(tab, w)
    BY <1>6, <1>7, <2>1 DEF Silent, SamePage
  <2>. QED BY <1>6, <1>7, <2>1, <2>2 DEF Proceeds, SamePage
<1>10. InPlace(u, c)
  BY <1>1, <1>5, <1>6 DEF InPlace, SamePage, Shown
<1>11. Moves(u, GoTo(u, "lobby")) /\ Moves(u, UpgradeNow(u, c)) /\ Moves(u, u)
  <2>1. Moves(u, GoTo(u, "lobby"))
    BY <1>6, ShellFacts, NavigatesMove DEF Routes
  <2>2. Moves(u, UpgradeNow(u, c))
    BY <1>1, <1>2, <1>6, <1>10, Upgrades
  <2>3. Moves(u, u)
    BY <1>6 DEF Moves, Silent
  <2>. QED BY <2>1, <2>2, <2>3
<1>12. CASE ok
  BY <1>3, <1>9, <1>11, <1>12
<1>. QED BY <1>8, <1>12

LEMMA UpgradeAnsweredMoves ==
  ASSUME ShellInv, NEW c \in tab.calls, NEW ok \in BOOLEAN, UpgradeAnswered(c, ok)
  PROVE  Proceeds(tab, tab')
<1> DEFINE a == Answered(c)
           v == [a.view EXCEPT !.upgrading = FALSE]
           t == IF c.here THEN [a EXCEPT !.view = v] ELSE a
           u == StoreToken(t)
<1>1. /\ TabOK(a) /\ SamePage(tab, a) /\ a.calls \subseteq tab.calls /\ InPlace(a, c)
  BY ShellFacts, AnsweredOK
<1>2. Home(c.op) = "auth"
  BY OpHome DEF UpgradeAnswered
<1>3. tab' = IF ok THEN GoTo(u, "lobby") ELSE t
  BY DEF UpgradeAnswered
<1> HIDE DEF a, v
<1>4. c.here => a.route = "auth"
  BY <1>1, <1>2 DEF InPlace
<1>5. TabOK(t) /\ SamePage(a, t) /\ t.calls = a.calls
  BY <1>1, <1>4, LooksHere
<1> HIDE DEF t
<1>6. /\ TabOK(u) /\ u.calls = t.calls /\ u.offline = t.offline /\ u.flagged = t.flagged
      /\ u.token <=> t.token \/ storage
      /\ u.route = t.route /\ u.chunk = t.chunk
  BY <1>5, StoresToken DEF ShellInv
<1> HIDE DEF u
<1>7. SamePage(tab, t) /\ t.calls \subseteq tab.calls
  BY <1>1, <1>5 DEF SamePage
<1>8. CASE ~ok
  BY <1>3, <1>5, <1>7, <1>8, MovesTo, MovesProceeds
<1>9. CASE ok
  <2> DEFINE w == GoTo(u, "lobby")
  <2>1. Moves(u, w)
    BY <1>6, ShellFacts, NavigatesMove DEF Routes
  <2> HIDE DEF w
  <2>2. /\ TabOK(w) /\ Silent(u, w) /\ w.token = u.token /\ w.flagged = u.flagged
    BY <2>1 DEF Moves
  <2>3. Silent(tab, w)
    BY <1>6, <1>7, <2>2 DEF Silent, SamePage
  <2>. QED BY <1>3, <1>6, <1>7, <1>9, <2>2, <2>3 DEF Proceeds, SamePage, w
<1>. QED BY <1>8, <1>9

LEMMA LeastOf ==
  ASSUME NEW T \in SUBSET Nat, T # {}
  PROVE  Min(T) \in T
<1>1. \E x \in T : \A y \in T : x <= y
  BY LeastNat
<1>. QED BY <1>1 DEF Min

\* What follows an answer, for the actions that set nothing the browser stores.
LEMMA AnswerMoves ==
  ASSUME TabOK(tab), NEW c \in tab.calls, NEW u, Moves(Answered(c), u)
  PROVE  Moves(tab, u)
  BY AnsweredOK, MovesOn

LEMMA AnswerLeaves ==
  ASSUME TabOK(tab), NEW c \in tab.calls, NEW u, TabOK(u), SamePage(Answered(c), u),
         u.calls = Answered(c).calls
  PROVE  Moves(tab, u)
<1>1. Moves(Answered(c), u)
  BY MovesTo
<1>. QED BY <1>1, AnswerMoves

LEMMA LobbyAnsweredMoves ==
  ASSUME ShellInv, NEW c \in tab.calls, NEW ok \in BOOLEAN, LobbyAnswered(c, ok)
  PROVE  Moves(tab, tab')
<1> DEFINE a == Answered(c)
<1>1. TabOK(tab) /\ TabOK(a) /\ c \in Requests /\ InPlace(a, c) /\ friends \in Nat
  BY ShellFacts, AnsweredOK
<1>2. c.op \in LobbyOps /\ Home(c.op) = "lobby"
  BY OpHome DEF LobbyAnswered
<1>3. "listSNG" \in Ops /\ Home("listSNG") = "lobby" /\ "listSNG" \notin HereOps /\ 0 \in Nat
  BY OpHome DEF HereOps, LobbyOps
<1>4. tab' \in {GoTo(a, "table"), SendNext(a, c, "listSNG", 0), a}
  BY DEF LobbyAnswered
<1> HIDE DEF a
<1>5. Moves(a, GoTo(a, "table"))
  BY <1>1, NavigatesMove DEF Routes
<1>6. Moves(a, SendNext(a, c, "listSNG", 0))
  BY <1>1, <1>2, <1>3, SendsNext DEF Moves, SamePage
<1>7. Moves(a, a)
  BY <1>1 DEF Moves, Silent
<1>8. Moves(a, tab')
  BY <1>4, <1>5, <1>6, <1>7
<1>. QED BY <1>1, <1>8, AnswerMoves DEF a

LEMMA FriendsListedMoves ==
  ASSUME ShellInv, NEW c \in tab.calls, FriendsListed(c)
  PROVE  Moves(tab, tab')
<1> DEFINE a == Answered(c)
           v == [a.view EXCEPT !.friends = TRUE]
           u == [a EXCEPT !.view = v]
<1>1. TabOK(tab) /\ TabOK(a) /\ InPlace(a, c)
  BY ShellFacts, AnsweredOK
<1>2. a.route = "lobby"
  BY <1>1, OpHome DEF InPlace, FriendsListed, HereOps
<1>3. tab' = u
  BY DEF FriendsListed
<1> HIDE DEF a, v
<1>4. TabOK(u) /\ SamePage(a, u) /\ u.calls = a.calls
  BY <1>1, <1>2, Looks
<1> HIDE DEF u
<1>. QED BY <1>1, <1>3, <1>4, AnswerLeaves DEF a

LEMMA RefreshMoves ==
  ASSUME ShellInv, RefreshSucceeds
  PROVE  Moves(tab, tab')
<1>1. PICK c \in tab.calls, n \in 0 .. friends :
        /\ c.op = "refresh"
        /\ tab' = IF c.here THEN [Answered(c) EXCEPT !.view.shown = n] ELSE Answered(c)
  BY DEF RefreshSucceeds
<1> DEFINE a == Answered(c)
           v == [a.view EXCEPT !.shown = n]
           u == [a EXCEPT !.view = v]
<1>2. TabOK(tab) /\ TabOK(a) /\ InPlace(a, c) /\ a.transport = tab.transport
  BY ShellFacts, AnsweredOK
<1>3. tab' = IF c.here THEN u ELSE a
  BY <1>1
<1>4. Home(c.op) = "friends"
  BY <1>1, OpHome DEF SocialOps
<1>5. n \in Int
  BY ShellFacts
<1> HIDE DEF a
<1>6. CASE c.here
  <2>1. Shown(a) /\ a.route = "friends"
    BY <1>2, <1>4, <1>6 DEF InPlace
  <2>2. a.view \in [kind : {"friends"}, shown : Int, rail : Nat]
    BY <1>2, <2>1 DEF TabOK, Viewed
  <2>3. v \in [kind : {"friends"}, shown : Int, rail : Nat] /\ v.rail = a.view.rail
    BY <1>5, <2>2
  <2>4. a.transport = Cloud => a.view.rail # None
    BY <1>2, <2>1 DEF TabOK, HasTable
  <2> HIDE DEF v
  <2>5. TabOK(u) /\ SamePage(a, u) /\ u.calls = a.calls
    BY <1>2, <2>1, <2>3, <2>4, Looks
  <2> HIDE DEF u
  <2>. QED BY <1>2, <1>3, <1>6, <2>5, AnswerLeaves DEF a
<1>7. CASE ~c.here
  <2>1. SamePage(a, a)
    BY DEF SamePage
  <2>. QED BY <1>2, <1>3, <1>7, <2>1, AnswerLeaves DEF a
<1>. QED BY <1>6, <1>7

LEMMA FriendsChangedMoves ==
  ASSUME ShellInv, NEW c \in tab.calls, FriendsChanged(c)
  PROVE  Moves(tab, tab') /\ friends' \in 0 .. MaxChanges
<1> DEFINE a == Answered(c)
           n == friends + 1
<1>1. TabOK(tab) /\ TabOK(a) /\ c \in Requests /\ InPlace(a, c)
  BY ShellFacts, AnsweredOK
<1>2. n \in Nat /\ n \in 0 .. MaxChanges
  BY ShellFacts DEF FriendsChanged
<1>3. friends' = n /\ tab' = SendNext(a, c, "refresh", n)
  BY DEF FriendsChanged
<1>4. Home(c.op) = "friends" /\ "refresh" \in Ops /\ Home("refresh") = "friends"
      /\ "refresh" \notin HereOps
  BY OpHome DEF FriendsChanged, SocialOps, HereOps
<1> HIDE DEF a, n
<1>5. Moves(a, tab')
  BY <1>1, <1>2, <1>3, <1>4, SendsNext DEF Moves, SamePage
<1>. QED BY <1>1, <1>2, <1>3, <1>5, AnswerMoves DEF a

LEMMA FriendTableMoves ==
  ASSUME ShellInv, NEW c \in tab.calls, FriendTableAnswered(c)
  PROVE  Moves(tab, tab')
<1> DEFINE a == Answered(c)
           l == LeaveFriends(a)
           u == Rail(l, c.arg)
<1>1. TabOK(tab) /\ TabOK(a) /\ c \in Requests /\ InPlace(a, c)
  BY ShellFacts, AnsweredOK
<1>2. c.op = "friendTable" /\ tab' \in {a, u}
  BY DEF FriendTableAnswered
<1> HIDE DEF a
<1>3. Home(c.op) = "friends" /\ c.op \in HereOps /\ c.arg \in Nat
  BY <1>1, <1>2, OpHome DEF SocialOps, HereOps, Requests
<1>4. Shown(a) /\ a.route = "friends" /\ c.arg # None
  BY <1>1, <1>2, <1>3 DEF InPlace
<1>5. TabOK(l) /\ SamePage(a, l) /\ l.calls = a.calls
  BY <1>1, LeavesFriends
<1> HIDE DEF l
<1>6. Shown(l) /\ l.route = "friends"
  BY <1>4, <1>5 DEF Shown, SamePage
<1>7. TabOK(u) /\ SamePage(l, u) /\ u.calls = l.calls
  BY <1>3, <1>4, <1>5, <1>6, Rails
<1> HIDE DEF u
<1>8. SamePage(a, u) /\ u.calls = a.calls /\ SamePage(a, a)
  BY <1>5, <1>7 DEF SamePage
<1>. QED BY <1>1, <1>2, <1>7, <1>8, AnswerLeaves DEF a

LEMMA LeaveRailMoves ==
  ASSUME ShellInv, LeaveRail
  PROVE  Moves(tab, tab')
<1> DEFINE l == LeaveFriends(tab)
           v == [l.view EXCEPT !.rail = None]
           u == [l EXCEPT !.view = v]
<1>1. TabOK(tab) /\ Shown(tab) /\ tab.route = "friends" /\ tab' = u
  BY ShellFacts DEF LeaveRail, On
<1>2. /\ TabOK(l) /\ SamePage(tab, l) /\ l.calls = tab.calls /\ l.transport # Cloud
  BY <1>1, LeavesFriends
<1> HIDE DEF l
<1>3. Shown(l) /\ l.route = "friends"
  BY <1>1, <1>2 DEF Shown, SamePage
<1>4. l.view \in [kind : {"friends"}, shown : Int, rail : Nat]
  BY <1>2, <1>3 DEF TabOK, Viewed
<1>5. v \in [kind : {"friends"}, shown : Int, rail : Nat]
  BY <1>4 DEF None
<1> HIDE DEF v
<1>6. TabOK(u) /\ SamePage(l, u) /\ u.calls = l.calls
  BY <1>2, <1>3, <1>5, Looks
<1> HIDE DEF u
<1>7. SamePage(tab, u) /\ u.calls \subseteq tab.calls
  BY <1>2, <1>6 DEF SamePage
<1>. QED BY <1>1, <1>6, <1>7, MovesTo

LEMMA LoadMoreMoves ==
  ASSUME ShellInv, LoadMore
  PROVE  Moves(tab, tab')
<1> DEFINE n == tab.view.limit + 1
           v == [tab.view EXCEPT !.limit = n]
           a == [tab EXCEPT !.view = v]
<1>1. TabOK(tab) /\ Shown(tab) /\ tab.route = "history" /\ tab' = Send(a, "myHands", n)
  BY ShellFacts DEF LoadMore, On
<1>2. tab.view \in [kind : {"history"}, limit : Nat, hands : Nat, error : BOOLEAN]
  BY <1>1 DEF TabOK, Viewed
<1>3. n \in Nat
  BY <1>2
<1> HIDE DEF n
<1>4. v \in [kind : {"history"}, limit : Nat, hands : Nat, error : BOOLEAN]
  BY <1>2, <1>3
<1> HIDE DEF v
<1>5. TabOK(a) /\ SamePage(tab, a) /\ a.calls = tab.calls
  BY <1>1, <1>4, Looks
<1> HIDE DEF a
<1>6. Shown(a) /\ a.route = "history"
  BY <1>1, <1>5 DEF Shown, SamePage
<1>7. "myHands" \in Ops /\ Home("myHands") = "history"
  BY OpHome DEF HandsOps
<1>8. Moves(a, tab')
  BY <1>1, <1>3, <1>5, <1>6, <1>7, SendsMove
<1>. QED BY <1>5, <1>8, MovesOn

LEMMA HandsAnsweredMoves ==
  ASSUME ShellInv, NEW c \in tab.calls, NEW ok \in BOOLEAN, HandsAnswered(c, ok)
  PROVE  Moves(tab, tab')
<1> DEFINE a == Answered(c)
           n == Min({c.arg, Pages})
           v == IF ok THEN [a.view EXCEPT !.hands = n, !.error = FALSE]
                ELSE [a.view EXCEPT !.error = TRUE]
           u == [a EXCEPT !.view = v]
<1>1. TabOK(tab) /\ TabOK(a) /\ c \in Requests /\ InPlace(a, c)
  BY ShellFacts, AnsweredOK
<1>2. c.op = "myHands" /\ tab' = u
  BY DEF HandsAnswered, HandsOps
<1>3. {c.arg, Pages} \in SUBSET Nat
  BY <1>1 DEF Requests, TabAssumption
<1>4. n \in Nat
  BY <1>3, LeastOf
<1> HIDE DEF a, n
<1>5. Shown(a) /\ a.route = "history"
  BY <1>1, <1>2, OpHome DEF InPlace, HereOps, HandsOps
<1>6. a.view \in [kind : {"history"}, limit : Nat, hands : Nat, error : BOOLEAN]
  BY <1>1, <1>5 DEF TabOK, Viewed
<1>7. v \in [kind : {"history"}, limit : Nat, hands : Nat, error : BOOLEAN]
  BY <1>4, <1>6
<1> HIDE DEF v
<1>8. TabOK(u) /\ SamePage(a, u) /\ u.calls = a.calls
  BY <1>1, <1>5, <1>7, Looks
<1> HIDE DEF u
<1>. QED BY <1>1, <1>2, <1>8, AnswerLeaves DEF a

-----------------------------------------------------------------------------
(* The actions of nearby play *)

LEMMA PhaseActionsMove ==
  ASSUME ShellInv,
         (\E p \in {"host", "join"} : Choose(p)) \/ BackToSetup \/ ToTable \/ PlayAgain \/ Done
  PROVE  Moves(tab, tab')
<1>1. TabOK(tab)
  BY ShellFacts
<1>2. ASSUME NEW t, TabOK(t), NEW p \in {"setup", "host", "join", "table", "summary"}
      PROVE  Moves(t, SetPhase(t, p))
  BY <1>2, SetsPhase DEF Moves, SamePage
<1>3. CASE (\E p \in {"host", "join"} : Choose(p)) \/ ToTable \/ PlayAgain
  BY <1>1, <1>2, <1>3 DEF Choose, ToTable, PlayAgain
<1> DEFINE d == Dispose(tab)
           s == SetPhase(d, "setup")
<1>4. TabOK(d) /\ SamePage(tab, d) /\ d.calls \subseteq tab.calls
  BY <1>1, DisposesOK
<1>5. BackToSetup => tab' = s
  BY DEF BackToSetup
<1>6. Done => tab' = GoTo(s, "home")
  BY DEF Done
<1> HIDE DEF d
<1>7. Moves(d, s) /\ SamePage(d, s) /\ TabOK(s)
  BY <1>2, <1>4, SetsPhase
<1> HIDE DEF s
<1>8. CASE BackToSetup
  BY <1>4, <1>5, <1>7, <1>8, MovesOn
<1>9. CASE Done
  <2> DEFINE w == GoTo(s, "home")
  <2>0. w = Navigate(s, "home", friends) /\ "home" \in Routes /\ friends \in Nat
    BY ShellFacts DEF GoTo, Routes
  <2> HIDE DEF w
  <2>1. /\ TabOK(w) /\ w.token = s.token /\ w.flagged = s.flagged /\ w.route = "home"
    BY <1>7, <2>0, Navigates
  <2>2. ~w.offline
    BY <2>1 DEF TabOK
  <2>. QED BY <1>4, <1>6, <1>7, <1>9, <2>1, <2>2 DEF Moves, Silent, SamePage, w
<1>. QED BY <1>3, <1>8, <1>9

LEMMA BeginMoves ==
  ASSUME ShellInv, CreateTable \/ JoinTable
  PROVE  Moves(tab, tab')
<1> DEFINE k == IF tab.core = "none" THEN "loading" ELSE tab.core
           a == [tab EXCEPT !.core = k]
           b == WithCore(tab, k, tab.calls)
<1>1. TabOK(tab) /\ tab \in TabsWith(tab.view)
  BY ShellFacts
<1>2. PICK op \in {"host", "join"} : On("nearby") /\ tab' = Send(a, op, 0)
  BY DEF CreateTable, JoinTable, Begin, InPhase
<1>3. k \in {"none", "loading", "ready"} /\ tab.calls \in SUBSET tab.calls
  BY <1>1 DEF TabsWith
<1> HIDE DEF k
<1>4. b = a
  BY <1>1 DEF TabsWith, WithCore
<1>9. TabOK(b) /\ SamePage(tab, b) /\ b.calls = tab.calls
  BY <1>1, <1>3, CoreMoves
<1> HIDE DEF b
<1>5. TabOK(a) /\ SamePage(tab, a) /\ a.calls = tab.calls
  BY ONLY <1>4, <1>9
<1> HIDE DEF a
<1>6. Shown(a) /\ a.route = "nearby"
  BY <1>2, <1>5 DEF On, Shown, SamePage
<1>7. op \in Ops /\ Home(op) = "nearby" /\ op # "friendTable" /\ 0 \in Nat
  BY OpHome DEF NearbyOps
<1>8. Moves(a, tab')
  BY <1>2, <1>5, <1>6, <1>7, SendsMove
<1>. QED BY <1>5, <1>8, MovesOn

LEMMA CoreActionsMove ==
  ASSUME ShellInv, CoreLoads \/ CoreFails
  PROVE  Moves(tab, tab')
<1>1. TabOK(tab) /\ tab \in TabsWith(tab.view)
  BY ShellFacts
<1>2. PICK k \in {"none", "ready"}, S \in SUBSET tab.calls :
        tab' = [tab EXCEPT !.core = k, !.calls = S]
  <2>1. CASE CoreLoads
    <3>1. tab' = [tab EXCEPT !.core = "ready", !.calls = tab.calls]
      BY <1>1, <2>1 DEF CoreLoads, TabsWith
    <3>. QED BY <3>1
  <2>2. CASE CoreFails
    <3> DEFINE S == {c \in tab.calls : c.op \notin {"host", "join"}}
    <3>1. tab' = [tab EXCEPT !.core = "none", !.calls = S] /\ S \in SUBSET tab.calls
      BY <2>2 DEF CoreFails
    <3>. QED BY <3>1
  <2>. QED BY <2>1, <2>2
<1> DEFINE u == WithCore(tab, k, S)
<1>3. TabOK(u) /\ SamePage(tab, u) /\ u.calls = S
  BY <1>1, CoreMoves
<1> HIDE DEF u
<1>4. tab' = u
  BY <1>2 DEF u, WithCore
<1>. QED BY <1>3, <1>4, MovesTo

\* A session that starts, for whoever is left of the page that asked for it.
LEMMA StartsSession ==
  ASSUME TabOK(tab), NEW c \in tab.calls, Home(c.op) = "nearby", NEW s \in Sessions
  PROVE  LET t == StartSession(c, s) IN
         TabOK(t) /\ SamePage(tab, t) /\ t.calls \subseteq tab.calls
<1> DEFINE a == Answered(c)
           t == [ConnectLocal(a, s) EXCEPT !.running = @ \cup {s}]
           u == IF c.page THEN [t EXCEPT !.ref = s] ELSE t
           v == [u.view EXCEPT !.session = s]
           w == IF c.here THEN [u EXCEPT !.view = v] ELSE u
<1>1. TabOK(a) /\ SamePage(tab, a) /\ a.calls \subseteq tab.calls /\ InPlace(a, c)
  BY AnsweredOK
<1>2. StartSession(c, s) = w
  BY DEF StartSession
<1> HIDE DEF a, v
<1>3. TabOK(t) /\ SamePage(a, t) /\ t.calls = a.calls
  BY <1>1, StartsLocal
<1> HIDE DEF t
<1>4. TabOK(u) /\ SamePage(t, u) /\ u.calls = t.calls
  <2>1. CASE c.page
    BY <1>3, <2>1, Remembers
  <2>2. CASE ~c.page
    BY <1>3, <2>2 DEF SamePage
  <2>. QED BY <2>1, <2>2
<1> HIDE DEF u
<1>5. c.here => u.route \notin {"friends", "history"}
  BY <1>1, <1>3, <1>4 DEF InPlace, SamePage
<1>6. TabOK(w) /\ SamePage(u, w) /\ w.calls = u.calls
  BY <1>4, <1>5, LooksHere
<1> HIDE DEF w
<1>. QED BY <1>1, <1>2, <1>3, <1>4, <1>6 DEF SamePage

LEMMA FreeIsSession ==
  ASSUME FreeSessions(tab) # {}
  PROVE  Min(FreeSessions(tab)) \in Sessions
<1>1. FreeSessions(tab) \subseteq Sessions /\ Sessions \subseteq Nat
  BY DEF FreeSessions, Sessions, TabAssumption
<1>. QED BY <1>1, LeastOf

LEMMA HostStartsMoves ==
  ASSUME ShellInv, NEW c \in tab.calls, HostStarts(c)
  PROVE  Moves(tab, tab')
<1> DEFINE s == Min(FreeSessions(tab))
           t == StartSession(c, s)
<1>1. TabOK(tab) /\ InPlace(tab, c)
  BY ShellFacts, AnsweredOK
<1>2. tab' = (IF c.here THEN Send(t, "invite", 0) ELSE t) /\ s \in Sessions
  BY FreeIsSession DEF HostStarts
<1>3. Home(c.op) = "nearby"
  BY OpHome DEF HostStarts, NearbyOps
<1> HIDE DEF s
<1>4. TabOK(t) /\ SamePage(tab, t) /\ t.calls \subseteq tab.calls
  BY <1>1, <1>2, <1>3, StartsSession
<1> HIDE DEF t
<1>5. CASE c.here
  <2>1. Shown(t) /\ t.route = "nearby"
    BY <1>1, <1>3, <1>4, <1>5 DEF InPlace, Shown, SamePage
  <2>2. "invite" \in Ops /\ Home("invite") = "nearby" /\ 0 \in Nat
    BY OpHome DEF NearbyOps
  <2>3. Moves(t, tab')
    BY <1>2, <1>4, <1>5, <2>1, <2>2, SendsMove
  <2>. QED BY <1>4, <2>3, MovesOn
<1>6. CASE ~c.here
  BY <1>2, <1>4, <1>6, MovesTo
<1>. QED BY <1>5, <1>6

LEMMA JoinAnsweredMoves ==
  ASSUME ShellInv, NEW c \in tab.calls, NEW ok \in BOOLEAN, JoinAnswered(c, ok)
  PROVE  Moves(tab, tab')
<1> DEFINE s == Min(FreeSessions(tab))
           t == StartSession(c, s)
           v == [t.view EXCEPT !.step = "answer"]
           u == IF c.here THEN [t EXCEPT !.view = v] ELSE t
<1>1. TabOK(tab) /\ InPlace(tab, c) /\ TabOK(Answered(c)) /\ SamePage(tab, Answered(c))
      /\ Answered(c).calls \subseteq tab.calls
  BY ShellFacts, AnsweredOK
<1>2. tab' = (IF ok THEN u ELSE Answered(c)) /\ s \in Sessions
  BY FreeIsSession DEF JoinAnswered
<1>3. Home(c.op) = "nearby"
  BY OpHome DEF JoinAnswered, NearbyOps
<1> HIDE DEF s
<1>4. TabOK(t) /\ SamePage(tab, t) /\ t.calls \subseteq tab.calls
  BY <1>1, <1>2, <1>3, StartsSession
<1> HIDE DEF t, v
<1>5. c.here => t.route \notin {"friends", "history"}
  BY <1>1, <1>3, <1>4 DEF InPlace, SamePage
<1>6. TabOK(u) /\ SamePage(t, u) /\ u.calls = t.calls
  BY <1>4, <1>5, LooksHere
<1> HIDE DEF u
<1>7. SamePage(tab, u) /\ u.calls \subseteq tab.calls
  BY <1>4, <1>6 DEF SamePage
<1>. QED BY <1>1, <1>2, <1>6, <1>7, MovesTo

LEMMA InviteAnsweredMoves ==
  ASSUME ShellInv, NEW c \in tab.calls, NEW ok \in BOOLEAN, InviteAnswered(c, ok)
  PROVE  Moves(tab, tab')
<1> DEFINE a == Answered(c)
           v == [a.view EXCEPT !.step = "invite"]
           u == [a EXCEPT !.view = v]
<1>1. TabOK(tab) /\ TabOK(a) /\ InPlace(a, c)
  BY ShellFacts, AnsweredOK
<1>2. tab' = IF ok THEN u ELSE a
  BY DEF InviteAnswered
<1>3. a.route = "nearby"
  BY <1>1, OpHome DEF InPlace, InviteAnswered, HereOps, NearbyOps
<1> HIDE DEF a, v
<1>4. TabOK(u) /\ SamePage(a, u) /\ u.calls = a.calls /\ SamePage(a, a)
  BY <1>1, <1>3, Looks DEF SamePage
<1> HIDE DEF u
<1>. QED BY <1>1, <1>2, <1>4, AnswerLeaves DEF a

LEMMA SessionActionsMove ==
  ASSUME ShellInv, NEW s \in Sessions, PeerJoins(s) \/ SessionEnds(s)
  PROVE  Moves(tab, tab')
<1>1. TabOK(tab)
  BY ShellFacts
<1>2. CASE PeerJoins(s)
  <2>1. s \in tab.running /\ tab' = [tab EXCEPT !.peers = @ \cup {s}]
    BY <1>2 DEF PeerJoins
  <2>2. TabOK(tab') /\ SamePage(tab, tab') /\ tab'.calls = tab.calls
    BY <1>1, <2>1, HearsOf
  <2>. QED BY <2>2, MovesTo
<1>3. CASE SessionEnds(s)
  <2> DEFINE p == SetPhase(tab, "summary")
  <2>1. tab' = Teardown(p, s)
    BY <1>3 DEF SessionEnds
  <2>2. TabOK(p) /\ SamePage(tab, p) /\ Silent(tab, p)
    BY <1>1, SetsPhase
  <2> HIDE DEF p
  <2>3. TabOK(tab') /\ SamePage(p, tab') /\ tab'.calls = p.calls
    BY <2>1, <2>2, TearsDownOK
  <2>. QED BY <2>2, <2>3 DEF Moves, Silent, SamePage
<1>. QED BY <1>2, <1>3

LEMMA AnswersProceed ==
  ASSUME ShellInv, NEW c \in tab.calls, AnswerComes(c)
  PROVE  /\ Proceeds(tab, tab') /\ storage' = storage
         /\ friends' \in 0 .. MaxChanges
<1>1. ASSUME NEW ok \in BOOLEAN,
             \/ GuestLoginAnswered(c, ok) \/ UpgradeAnswered(c, ok)
             \/ LobbyAnswered(c, ok) \/ HandsAnswered(c, ok)
             \/ InviteAnswered(c, ok) \/ JoinAnswered(c, ok)
      PROVE  Proceeds(tab, tab') /\ Rest
  <2>1. CASE GuestLoginAnswered(c, ok) \/ UpgradeAnswered(c, ok)
    BY <2>1, GuestLoginMoves, UpgradeAnsweredMoves DEF GuestLoginAnswered, UpgradeAnswered
  <2>2. CASE LobbyAnswered(c, ok) \/ HandsAnswered(c, ok)
    BY <2>2, LobbyAnsweredMoves, HandsAnsweredMoves, MovesProceeds
       DEF LobbyAnswered, HandsAnswered
  <2>3. CASE InviteAnswered(c, ok) \/ JoinAnswered(c, ok)
    BY <2>3, InviteAnsweredMoves, JoinAnsweredMoves, MovesProceeds
       DEF InviteAnswered, JoinAnswered
  <2>. QED BY <1>1, <2>1, <2>2, <2>3
<1>2. CASE FriendsChanged(c)
  BY <1>2, FriendsChangedMoves, MovesProceeds DEF FriendsChanged
<1>3. CASE FriendTableAnswered(c) \/ FriendsListed(c) \/ HostStarts(c)
  <2>1. Moves(tab, tab')
    BY <1>3, FriendTableMoves, FriendsListedMoves, HostStartsMoves
  <2>2. Rest
    BY <1>3 DEF FriendTableAnswered, FriendsListed, HostStarts
  <2>. QED BY <2>1, <2>2, MovesProceeds DEF Rest, ShellInv
<1>4. CASE SocialFails(c)
  <2>1. tab' = Answered(c) /\ Rest
    BY <1>4 DEF SocialFails
  <2>2. TabOK(tab') /\ SamePage(tab, tab') /\ tab'.calls \subseteq tab.calls
    BY <2>1, ShellFacts, AnsweredOK
  <2>3. Moves(tab, tab')
    BY <2>2, MovesTo
  <2>. QED BY <2>1, <2>3, MovesProceeds DEF Rest, ShellInv
<1>5. Rest => storage' = storage /\ friends' \in 0 .. MaxChanges
  BY DEF Rest, ShellInv
<1>. QED BY <1>1, <1>2, <1>3, <1>4, <1>5 DEF AnswerComes

-----------------------------------------------------------------------------
(* The theorems *)

LEMMA ShellSteps ==
  ASSUME ShellInv, [ShellNext]_shellVars
  PROVE  /\ Proceeds(tab, tab') /\ storage' = storage
         /\ friends' \in 0 .. MaxChanges
<1>1. Rest => storage' = storage /\ friends' \in 0 .. MaxChanges
  BY DEF Rest, ShellInv
<1>2. tab' = tab => Proceeds(tab, tab')
  BY ShellFacts DEF Proceeds, Silent
<1>3. CASE UNCHANGED shellVars
  BY <1>2, <1>3 DEF shellVars, ShellInv
<1>4. CASE \/ \E r \in Routes : Go(r)
           \/ LeaveTable \/ JoinFriend
  BY <1>1, <1>4, RoutesMove, MovesProceeds DEF Go, LeaveTable, JoinFriend
<1>5. CASE Reload
  BY <1>1, <1>5, ReloadMoves, MovesProceeds DEF Reload
<1>6. ASSUME NEW r \in Lazy, ChunkSettles(r)
      PROVE  Proceeds(tab, tab') /\ Rest
  BY <1>6, ChunkLoadsMoves, ChunkFailsMoves DEF ChunkSettles, Proceeds, ChunkLoads, ChunkFails
<1>7. CASE Retry \/ ContinueAsGuest \/ UpgradeWithEmail
  <2>1. Rest
    BY <1>7 DEF Retry, ContinueAsGuest, UpgradeWithEmail
  <2>. QED BY <1>1, <1>7, <2>1, SignInMoves, MovesProceeds
<1>8. CASE \/ SeatMe \/ JoinByCode \/ Register \/ CreateRoom \/ CreateSng \/ RefreshTables
           \/ Poll \/ AddFriend \/ ResolveRequest \/ RemoveFriend
           \/ \E f \in Friends : RailFriend(f)
  <2>1. Rest
    BY <1>8 DEF SeatMe, JoinByCode, Register, CreateRoom, CreateSng, RefreshTables, Poll,
                AddFriend, ResolveRequest, RemoveFriend, RailFriend, Start
  <2>. QED BY <1>1, <1>8, <2>1, TapsMove, MovesProceeds
<1>9. CASE LeaveRail \/ RefreshSucceeds \/ LoadMore
  <2>1. Rest
    BY <1>9 DEF LeaveRail, RefreshSucceeds, LoadMore
  <2>. QED BY <1>1, <1>9, <2>1, LeaveRailMoves, RefreshMoves, LoadMoreMoves, MovesProceeds
<1>10. CASE OthersChange
  <2>1. tab' = tab /\ storage' = storage /\ friends' \in 0 .. MaxChanges
    BY <1>10, ShellFacts DEF OthersChange, ShellInv
  <2>. QED BY <1>2, <2>1
<1>11. CASE \/ \E p \in {"host", "join"} : Choose(p)
            \/ BackToSetup \/ ToTable \/ PlayAgain \/ Done
  <2>1. Rest
    BY <1>11 DEF Choose, BackToSetup, ToTable, PlayAgain, Done
  <2>. QED BY <1>1, <1>11, <2>1, PhaseActionsMove, MovesProceeds
<1>12. CASE CreateTable \/ JoinTable \/ CoreLoads \/ CoreFails
  <2>1. Rest
    BY <1>12 DEF CreateTable, JoinTable, Begin, CoreLoads, CoreFails
  <2>. QED BY <1>1, <1>12, <2>1, BeginMoves, CoreActionsMove, MovesProceeds
<1>13. ASSUME NEW s \in Sessions, PeerJoins(s) \/ SessionEnds(s)
       PROVE  Proceeds(tab, tab') /\ Rest
  BY <1>13, SessionActionsMove, MovesProceeds DEF PeerJoins, SessionEnds
<1>14. ASSUME NEW c \in tab.calls, AnswerComes(c)
       PROVE  /\ Proceeds(tab, tab') /\ storage' = storage
              /\ friends' \in 0 .. MaxChanges
  BY <1>14, AnswersProceed
<1>. QED BY <1>1, <1>3, <1>4, <1>5, <1>6, <1>7, <1>8, <1>9, <1>10, <1>11, <1>12, <1>13, <1>14
         DEF ShellNext

\* A tab's requests, sessions and transport are in order between any two steps: what is
\* awaited has its component on the screen as far as it acts as if, what the store
\* holds is open and nothing else is, and the mode is that of the page that is shown.
THEOREM ShellInvariant == ShellSpec => []ShellInv
<1>1. ShellInit => ShellInv
  <2> SUFFICES ASSUME ShellInit PROVE ShellInv
    OBVIOUS
  <2> DEFINE e == [token |-> FALSE, flagged |-> {}]
  <2>1. PICK r \in Routes : tab = Load(e, r, 0)
    BY DEF ShellInit
  <2>2. /\ e.token = FALSE /\ e.token \in BOOLEAN /\ 0 \in Nat
        /\ e.flagged = {} /\ e.flagged \in SUBSET Lazy
    OBVIOUS
  <2> HIDE DEF e
  <2>3. LET u == Load(e, r, 0) IN TabOK(u) /\ u.token = FALSE /\ u.flagged = {}
    BY <2>2, Loads
  <2>4. TabOK(tab) /\ tab.token = FALSE /\ tab.flagged = {}
    BY <2>1, <2>3
  <2>. QED BY <2>4 DEF ShellInit, ShellInv, ShellAssumption
<1>2. ShellInv /\ [ShellNext]_shellVars => ShellInv'
  <2> SUFFICES ASSUME ShellInv, [ShellNext]_shellVars PROVE ShellInv'
    OBVIOUS
  <2>1. Proceeds(tab, tab') /\ storage' = storage /\ friends' \in 0 .. MaxChanges
    BY ShellSteps
  <2>. QED BY <2>1 DEF ShellInv, Proceeds
<1>. QED BY <1>1, <1>2, PTL DEF ShellSpec

\* No transport is open but the one the store holds, and a session that has ended has
\* none (client/src/store/gameStore.ts), for any number of sessions, friends and awaited
\* requests.
THEOREM OneTransportEver == ShellSpec => []OneTransport
<1>1. ShellInv => OneTransport
  <2> SUFFICES ASSUME ShellInv PROVE OneTransport
    OBVIOUS
  <2>1. /\ TabOK(tab) /\ tab \in TabsWith(tab.view) /\ Wired(tab)
        /\ \A c \in tab.calls : InPlace(tab, c)
    BY ShellFacts DEF TabOK
  <2>2. /\ tab.route \in Routes /\ tab.phase \in {"setup", "host", "join", "table", "summary"}
        /\ tab.transport \in {None, Cloud} \cup Sessions
        /\ tab.ref \in {None} \cup Sessions /\ tab.running \subseteq Sessions
        /\ tab.calls \subseteq Requests /\ tab.flagged \subseteq Lazy
    BY <2>1 DEF TabsWith
  <2>3. tab.sockets \in Nat /\ tab.peers \subseteq tab.running
    BY <2>1 DEF Wired
  <2>4. \A c \in tab.calls : c.here => c.page /\ Shown(tab)
    BY <2>1 DEF InPlace
  <2>5. ShellTypes
    BY <2>2, <2>3, <2>4 DEF ShellTypes, ShellInv, Requests
  <2>. QED BY <2>1, <2>5 DEF OneTransport, Wired
<1>. QED BY <1>1, ShellInvariant, PTL

\* A socket to the cloud is open only while a player's or a friend's table is on the
\* screen (client/src/App.tsx), whatever pages are opened and left, and however the
\* answers come in.
THEOREM SocketsHaveTables == ShellSpec => []SocketHasTable
<1>1. ShellInv => SocketHasTable
  BY ShellFacts DEF TabOK, Wired, HasTable, SocketHasTable, On
<1>. QED BY <1>1, ShellInvariant, PTL

\* No request goes out through api.ts in nearby play, those that an earlier page left to
\* do included (request in client/src/net/api.ts).
THEOREM ApiAlwaysSilent == ShellSpec => ApiIsSilent
<1>1. ASSUME ShellInv, [ShellNext]_shellVars
      PROVE  tab.offline /\ tab'.offline => \A c \in tab'.calls \ tab.calls : c.op \notin ApiOps
  BY <1>1, ShellSteps DEF Proceeds, Silent
<1>2. ShellInv /\ [ShellNext]_shellVars =>
        [tab.offline /\ tab'.offline =>
           \A c \in tab'.calls \ tab.calls : c.op \notin ApiOps]_shellVars
  BY <1>1
<1>. QED BY <1>2, ShellInvariant, PTL DEF ShellSpec, ApiIsSilent

=============================================================================
