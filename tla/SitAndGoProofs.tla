--------------------------- MODULE SitAndGoProofs ---------------------------
(***************************************************************************)
(* The money and the standings of a sit-and-go, for any number of players, *)
(* any stacks and any percentages of the pool.                             *)
(***************************************************************************)
EXTENDS SitAndGo, HandProofs

-----------------------------------------------------------------------------
(***************************************************************************)
(* A sit-and-go that has paid its prizes pays nothing more.  Its table may *)
(* go on: players leave it with their chips and sit down again.  What pays *)
(* is a hand or a refund, and the controller stops the loop in the call    *)
(* that completes the tournament, before anything else can be dealt.       *)
(***************************************************************************)

\* Complete and still dealing never go together.
StoppedWhenComplete ==
  /\ ledger = [p \in Players |-> ledger[p]]
  /\ status = "Complete" => ~dealing

SeatChanges(p) == ChairsOf(p)' # ChairsOf(p)

AccountsClosed ==
  status = "Complete" => \A p \in Players : ledger'[p] # ledger[p] => SeatChanges(p)

LEMMA StoppedInit == Init => StoppedWhenComplete
  BY DEF Init, StoppedWhenComplete

\* A hand may complete the tournament, and then stops the loop.
LEMMA HandStops ==
  ASSUME NEW stack, NEW accounts, accounts = [p \in Players |-> accounts[p]],
         OnHandComplete(stack, accounts), StoppedWhenComplete
  PROVE  StoppedWhenComplete'
  BY DEF OnHandComplete, StoppedWhenComplete

LEMMA StoppedStep ==
  ASSUME StoppedWhenComplete, [Next]_vars
  PROVE  StoppedWhenComplete'
<1>1. ASSUME Expire \/ Reap \/ DrainTable \/ Shutdown
      PROVE  StoppedWhenComplete'
  BY <1>1 DEF Expire, Reap, DrainTable, Shutdown, Refunded, StoppedWhenComplete, tableVars, ctlVars,
     histVars, sngVars
<1>2. ASSUME NEW p \in Players, Find(p) \/ Signup(p)
      PROVE  StoppedWhenComplete'
  BY <1>2 DEF Find, Signup, StoppedWhenComplete, tableVars, ctlVars
<1>3. ASSUME NEW dealt, NEW outcome, PlayHand(dealt, outcome)
      PROVE  StoppedWhenComplete'
  BY <1>3, HandStops DEF PlayHand, StoppedWhenComplete
<1>4. ASSUME NEW s, NEW dealt, NEW outcome, NEW blind, LeaveEndsHand(s, dealt, outcome, blind)
      PROVE  StoppedWhenComplete'
  <2>. DEFINE accounts == [ledger EXCEPT ![sitter[s]] = @ + outcome[s]]
  <2>1. accounts = [q \in Players |-> accounts[q]]
    BY DEF StoppedWhenComplete
  <2>2. OnHandComplete(StacksAfter(dealt, outcome), accounts)
    BY <1>4 DEF LeaveEndsHand
  <2>. HIDE DEF accounts
  <2>. QED BY <2>1, <2>2, HandStops
<1>5. ASSUME NEW s, NEW n, Leave(s, n)
      PROVE  StoppedWhenComplete'
  BY <1>5 DEF Leave, StoppedWhenComplete, sngVars
<1>6. ASSUME NEW p, NEW s, NEW n, SitDown(p, s, n)
      PROVE  StoppedWhenComplete'
  BY <1>6 DEF SitDown, StoppedWhenComplete, sngVars
<1>7. CASE UNCHANGED vars
  BY <1>7 DEF vars, sngVars, tableVars, StoppedWhenComplete
<1>. QED BY <1>1, <1>2, <1>3, <1>4, <1>5, <1>6, <1>7 DEF Next

LEMMA ClosedStep ==
  ASSUME StoppedWhenComplete, [Next]_vars
  PROVE  AccountsClosed
<1>. SUFFICES ASSUME status = "Complete", NEW q \in Players, ledger'[q] # ledger[q]
             PROVE  SeatChanges(q)
  BY DEF AccountsClosed
<1>1. ~dealing
  BY DEF StoppedWhenComplete
<1>2. ~(Expire \/ Reap \/ DrainTable \/ Shutdown)
  BY DEF Expire, Reap, DrainTable, Shutdown
<1>3. ASSUME NEW p \in Players
      PROVE  ~(Find(p) \/ Signup(p))
  BY DEF Find, Signup
<1>4. ASSUME NEW dealt, NEW outcome, NEW s, NEW blind
      PROVE  ~(PlayHand(dealt, outcome) \/ LeaveEndsHand(s, dealt, outcome, blind))
  BY <1>1 DEF PlayHand, LeaveEndsHand
<1>5. ASSUME NEW s, NEW n, Leave(s, n)
      PROVE  SeatChanges(q)
  <2>1. sitter[s] = q /\ s \in DOMAIN seated
    BY <1>5 DEF Leave, StoppedWhenComplete
  <2>2. s \notin DOMAIN seated'
    BY <1>5 DEF Leave, Stay, Restrict
  <2>. QED BY <2>1, <2>2 DEF SeatChanges, ChairsOf
<1>6. ASSUME NEW p, NEW s, NEW n, SitDown(p, s, n)
      PROVE  SeatChanges(q)
  <2>1. p = q /\ s \notin DOMAIN seated
    BY <1>6 DEF SitDown, StoppedWhenComplete
  <2>2. s \in DOMAIN seated' /\ sitter'[s] = p
    BY <1>6 DEF SitDown
  <2>. QED BY <2>1, <2>2 DEF SeatChanges, ChairsOf
<1>7. ~UNCHANGED vars
  BY DEF vars
<1>. QED BY <1>2, <1>3, <1>4, <1>5, <1>6, <1>7 DEF Next

\* Once the prizes are paid (payout, sng.go:179) an account changes only with its owner's
\* seats: no reaping, shutdown, late signup or further hand pays it again.
THEOREM PaidOnceAlways == Spec => PaidOnce
<1>1. Init => StoppedWhenComplete
  BY StoppedInit
<1>2. StoppedWhenComplete /\ [Next]_vars => StoppedWhenComplete'
  BY StoppedStep
<1>3. StoppedWhenComplete /\ [Next]_vars =>
        [status = "Complete" =>
           \A p \in Players : ledger'[p] # ledger[p] => ChairsOf(p)' # ChairsOf(p)]_vars
  BY ClosedStep DEF AccountsClosed, SeatChanges
<1>. QED BY <1>1, <1>2, <1>3, PTL DEF Spec, PaidOnce

-----------------------------------------------------------------------------
(***************************************************************************)
(* The inductive invariant of the money and the standings.                 *)
(***************************************************************************)

\* Nobody is signed up twice, and until the last seat is taken there is no table.
SignUpsOK ==
  /\ \A i, j \in DOMAIN registered : i # j => registered[i] # registered[j]
  /\ Len(registered) <= Entrants
  /\ status = "Registering" =>
       /\ Len(registered) < Entrants
       /\ DOMAIN seated = {} /\ pot = 0 /\ ~dealing /\ ~up
       /\ eliminated = 0 /\ finishers = <<>> /\ leaves = 0 /\ returns = 0
  /\ dealing => up /\ status = "Running"

\* Who is not at the table busted or left it.
SeatsOK ==
  /\ status # "Registering" =>
       Cardinality(DOMAIN seated) + eliminated + leaves = Entrants + returns
  /\ leaves = 0 => pot = 0
  /\ returns = 0 => \A s, u \in DOMAIN seated : s # u => sitter[s] # sitter[u]

\* The places are given out from the last to the first, one batch after the other, and the
\* first to the winner.
PlacesOK ==
  /\ Len(finishers) \in eliminated .. eliminated + 1
  /\ \A i \in 1 .. eliminated :
       /\ finishers[i].batch \in 1 .. batch
       /\ finishers[i].place \in Entrants - eliminated + 1 .. Entrants
  /\ \A i \in DOMAIN finishers : i > eliminated =>
       /\ finishers[i].batch = 0 /\ finishers[i].place = 1 /\ status = "Complete"
       /\ returns = 0 => eliminated < Entrants
  /\ \A i, j \in 1 .. eliminated : i # j => finishers[i].place # finishers[j].place
  /\ \A q \in Entrants - eliminated + 1 .. Entrants :
       \E i \in 1 .. eliminated : finishers[i].place = q
  /\ \A i, j \in 1 .. eliminated :
       \/ finishers[i].batch > finishers[j].batch
       \/ /\ finishers[i].batch = finishers[j].batch
          /\ finishers[i].start > finishers[j].start
       => finishers[i].place < finishers[j].place
  /\ status = "Complete" /\ Undisturbed =>
       Len(finishers) = eliminated + 1 /\ eliminated + 1 = Entrants

\* As long as nobody sat down again, nobody finishes twice, and who busted is gone.
FinishersOK ==
  returns = 0 =>
    /\ \A i, j \in DOMAIN finishers : i # j => finishers[i].player # finishers[j].player
    /\ \A i \in 1 .. eliminated, s \in DOMAIN seated : finishers[i].player # sitter[s]

Minted == Cardinality(Players) * StartBalance + leaked

\* The pool is what the entrants paid in, until it is refunded or paid out.
PoolOK ==
  ~late =>
    /\ status # "Complete" => SumOver(ledger, Players) + BuyIn * Len(registered) = Minted
    /\ (status = "Registering" /\ listed) \/ dealing => prizePool = BuyIn * Len(registered)
    /\ status = "Complete" /\ returns = 0 => SumOver(ledger, Players) + Unclaimed = Minted

SngInv == TypeOK /\ SignUpsOK /\ SeatsOK /\ PlacesOK /\ FinishersOK /\ PoolOK

-----------------------------------------------------------------------------
(* The prizes *)

\* Factors keep an order, and dividing by a hundred loses nothing but the remainder.
LEMMA Factor ==
  ASSUME NEW c \in Nat
  PROVE  \A a, b \in Nat : a <= b => c * a \in Nat /\ c * a <= c * b
<1>. SUFFICES ASSUME NEW a \in Nat, NEW b \in Nat, a <= b PROVE c * a \in Nat /\ c * a <= c * b
  OBVIOUS
<1>1. PICK d \in Nat : b = a + d
  <2>1. b - a \in Nat /\ b = a + (b - a)
    OBVIOUS
  <2>. QED BY <2>1
<1>2. c * a \in Nat /\ c * d \in Nat /\ c * b = c * a + c * d
  BY <1>1
<1>. QED BY <1>2

LEMMA Percent ==
  ASSUME NEW a \in Nat
  PROVE  a \div 100 \in Nat /\ 100 * (a \div 100) <= a
         /\ \A b \in Nat : a <= b => a \div 100 <= b \div 100
OBVIOUS

Places == DOMAIN PayoutPct

LEMMA PaidPlaces ==
  /\ Places = 1 .. Len(PayoutPct) /\ IsFiniteSet(Places) /\ 1 \in Places
  /\ Places \in SUBSET (1 .. Entrants) /\ IsFiniteSet(1 .. Entrants) /\ Entrants \in Nat
  /\ \A i \in Places : PayoutPct[i] \in Nat
<1>1. /\ PayoutPct \in Seq(Nat) /\ Len(PayoutPct) \in 1 .. Entrants /\ Entrants \in Nat
  BY SitAndGoAssumption
<1>2. Places = 1 .. Len(PayoutPct) /\ \A i \in Places : PayoutPct[i] \in Nat
  BY <1>1 DEF Places
<1>. QED BY <1>1, <1>2, FS_Interval

\* What is cut off the pool for the paid places, first place first, is not more than it.
LEMMA CutsInPool ==
  ASSUME prizePool \in Nat
  PROVE  /\ \A i \in Places : Cuts[i] \in Nat
         /\ \A i, j \in Places : i < j => Cuts[i] >= Cuts[j]
         /\ SumOver(Cuts, Places) \in Nat /\ SumOver(Cuts, Places) <= prizePool
<1>1. \A i \in Places : /\ PayoutPct[i] \in Nat /\ prizePool * PayoutPct[i] \in Nat
                        /\ Cuts[i] = (prizePool * PayoutPct[i]) \div 100
  <2>1. \A a \in Nat : prizePool * a \in Nat
    OBVIOUS
  <2>. QED BY <2>1, PaidPlaces DEF Cuts, Places
<1>2. \A i \in Places : Cuts[i] \in Nat /\ 100 * Cuts[i] <= prizePool * PayoutPct[i]
  BY <1>1, Percent
<1>3. ASSUME NEW i \in Places, NEW j \in Places, i < j PROVE Cuts[i] >= Cuts[j]
  <2>1. PayoutPct[j] <= PayoutPct[i]
    BY <1>1, <1>3, SitAndGoAssumption DEF Places
  <2>2. prizePool * PayoutPct[j] <= prizePool * PayoutPct[i]
    BY <1>1, <2>1, Factor
  <2>3. Cuts[j] <= Cuts[i]
    BY <1>1, <2>2, Percent
  <2>. QED BY <1>2, <2>3
<1>. DEFINE hundreds == [i \in Places |-> 100 * Cuts[i]]
            parts == [i \in Places |-> prizePool * PayoutPct[i]]
<1>4. \A i \in Places : /\ hundreds[i] = 100 * Cuts[i] /\ parts[i] = prizePool * PayoutPct[i]
                        /\ hundreds[i] \in Int /\ parts[i] \in Int /\ hundreds[i] <= parts[i]
  BY <1>1, <1>2
<1>. HIDE DEF hundreds, parts
<1>5. SumOver(hundreds, Places) = 100 * SumOver(Cuts, Places)
  <2>1. \A i \in Places : Cuts[i] \in Int /\ hundreds[i] = 100 * Cuts[i]
    BY <1>2, <1>4
  <2>. QED BY SMTT(30), <2>1, PaidPlaces, SumTimes
<1>6. SumOver(parts, Places) = prizePool * 100
  <2>1. \A i \in Places : PayoutPct[i] \in Int /\ parts[i] = prizePool * PayoutPct[i]
    BY <1>1, <1>4
  <2>2. SumOver(parts, Places) = prizePool * SumOver(PayoutPct, Places)
    BY <2>1, PaidPlaces, SumTimes
  <2>. QED BY <2>2, SitAndGoAssumption DEF Places
<1>7. SumOver(hundreds, Places) <= SumOver(parts, Places)
  BY <1>4, PaidPlaces, SumLE
<1>8. SumOver(Cuts, Places) \in Nat
  BY <1>2, PaidPlaces, SumNat
<1>9. SumOver(Cuts, Places) <= prizePool
  BY <1>5, <1>6, <1>7, <1>8
<1>. QED BY <1>2, <1>3, <1>8, <1>9

\* computePrizes: a better place never pays less, and all of the pool is a prize.
LEMMA PrizesOfPlaces ==
  ASSUME prizePool \in Nat
  PROVE  /\ \A q : PrizeOfPlace(q) \in Nat
         /\ \A q, r \in Nat \ {0} : q < r => PrizeOfPlace(q) >= PrizeOfPlace(r)
         /\ SumOver([q \in 1 .. Entrants |-> PrizeOfPlace(q)], 1 .. Entrants) = prizePool
<1>. DEFINE rest == prizePool - SumOver(Cuts, Places)
            all == [q \in 1 .. Entrants |-> PrizeOfPlace(q)]
<1>1. /\ \A i \in Places : Cuts[i] \in Nat
      /\ \A i, j \in Places : i < j => Cuts[i] >= Cuts[j]
      /\ SumOver(Cuts, Places) \in Nat /\ rest \in Nat
  BY CutsInPool
<1>2. \A q : PrizeOfPlace(q) = IF q \notin Places THEN 0
                               ELSE Cuts[q] + IF q = 1 THEN rest ELSE 0
  BY DEF PrizeOfPlace, Places
<1>3. SumOver(Cuts, Places) + rest = prizePool
  BY <1>1
<1>. HIDE DEF rest
<1>4. \A q : PrizeOfPlace(q) \in Nat
  BY <1>1, <1>2
<1>5. ASSUME NEW q \in Nat \ {0}, NEW r \in Nat \ {0}, q < r
      PROVE  PrizeOfPlace(q) >= PrizeOfPlace(r)
  <2>1. CASE r \in Places
    <3>1. q \in Places /\ r # 1
      BY <1>5, <2>1, PaidPlaces, SitAndGoAssumption
    <3>2. Cuts[q] >= Cuts[r] /\ Cuts[q] \in Nat /\ Cuts[r] \in Nat
      BY <1>1, <1>5, <2>1, <3>1
    <3>. QED BY <1>1, <1>2, <2>1, <3>1, <3>2
  <2>2. CASE r \notin Places
    BY <1>2, <1>4, <2>2
  <2>. QED BY <2>1, <2>2
<1>6. \A q \in 1 .. Entrants : all[q] = PrizeOfPlace(q)
  OBVIOUS
<1>. HIDE DEF all
<1>7. SumOver(all, Places) = SumOver(all, 1 .. Entrants)
  <2>1. \A q \in 1 .. Entrants :
          all[q] \in Int /\ all[q] = IF q \in Places THEN all[q] ELSE 0
    BY <1>2, <1>4, <1>6
  <2>. QED BY <2>1, PaidPlaces, SumPart
<1>8. SumOver(all, Places) = SumOver(Cuts, Places) + (all[1] - Cuts[1])
  <2>1. \A q \in Places : Cuts[q] \in Int /\ all[q] \in Int
    BY <1>1, <1>4, <1>6, PaidPlaces
  <2>2. \A q \in Places \ {1} : all[q] = Cuts[q]
    BY <1>1, <1>2, <1>6, PaidPlaces
  <2>3. IsFiniteSet(Places) /\ 1 \in Places
    BY PaidPlaces
  <2>. QED BY ONLY <2>1, <2>2, <2>3, SumChange
<1>9. all[1] = Cuts[1] + rest /\ Cuts[1] \in Nat
  BY <1>1, <1>2, <1>6, PaidPlaces
<1>10. SumOver(all, 1 .. Entrants) = prizePool
  BY <1>1, <1>3, <1>7, <1>8, <1>9
<1>. QED BY <1>4, <1>5, <1>10 DEF all

\* The finishers are finitely many, and so are those of a tie.
LEMMA FinishersFinite ==
  ASSUME NEW fs \in Seq(Finisher)
  PROVE  /\ IsFiniteSet(DOMAIN fs) /\ DOMAIN fs = 1 .. Len(fs) /\ Len(fs) \in Nat
         /\ \A i \in DOMAIN fs : fs[i] \in Finisher /\ fs[i] \in Range(fs)
         /\ IsFiniteSet(Range(fs)) /\ Range(fs) \in SUBSET Finisher
         /\ \A f : IsFiniteSet(Group(f, fs)) /\ Group(f, fs) \in SUBSET Range(fs)
         /\ \A f \in Range(fs) : f \in Group(f, fs)
<1>1. /\ DOMAIN fs = 1 .. Len(fs) /\ Len(fs) \in Nat
      /\ \A i \in DOMAIN fs : fs[i] \in Finisher
  OBVIOUS
<1>2. IsFiniteSet(DOMAIN fs)
  BY <1>1, FS_Interval
<1>3. Range(fs) = {fs[i] : i \in DOMAIN fs}
  BY DEF Range
<1>4. IsFiniteSet(Range(fs))
  BY <1>2, <1>3, ImageFinite
<1>5. \A f : Group(f, fs) \in SUBSET Range(fs)
  BY DEF Group
<1>6. \A f : IsFiniteSet(Group(f, fs))
  BY <1>4, <1>5, FS_Subset
<1>7. \A f \in Range(fs) : f \in Group(f, fs)
  BY DEF Group, Tied
<1>. QED BY <1>1, <1>2, <1>3, <1>4, <1>5, <1>6, <1>7

LEMMA PrizesOfNat ==
  ASSUME prizePool \in Nat, NEW gs, IsFiniteSet(gs)
  PROVE  PrizesOf(gs) \in Nat
<1>. DEFINE won == [g \in gs |-> PrizeOfPlace(g.place)]
<1>1. \A g \in gs : won[g] \in Nat
  BY PrizesOfPlaces
<1>2. PrizesOf(gs) = SumOver(won, gs)
  BY DEF PrizesOf
<1>. HIDE DEF won
<1>. QED BY <1>1, <1>2, SumNat

\* Who tied with f shares with the same finishers, and gets as much as f but for an odd chip.
LEMMA SharesOfGroup ==
  ASSUME prizePool \in Nat, NEW fs \in Seq(Finisher), NEW f \in Range(fs)
  PROVE  /\ Cardinality(Group(f, fs)) \in Nat \ {0}
         /\ PrizesOf(Group(f, fs)) \in Nat
         /\ \A g \in Group(f, fs) :
              /\ Group(g, fs) = Group(f, fs)
              /\ Prize(g, fs) = PrizesOf(Group(f, fs)) \div Cardinality(Group(f, fs))
                   + (IF Cardinality({h \in Group(f, fs) : h.place < g.place})
                           < PrizesOf(Group(f, fs)) % Cardinality(Group(f, fs))
                        THEN 1 ELSE 0)
<1>1. IsFiniteSet(Group(f, fs)) /\ f \in Group(f, fs)
  BY FinishersFinite
<1>2. Cardinality(Group(f, fs)) \in Nat \ {0}
  BY <1>1, FS_CardinalityType, FS_EmptySet
<1>3. PrizesOf(Group(f, fs)) \in Nat
  BY <1>1, PrizesOfNat
<1>4. ASSUME NEW g \in Group(f, fs) PROVE Group(g, fs) = Group(f, fs)
  BY DEF Group, Tied
<1>5. ASSUME NEW g \in Group(f, fs)
      PROVE  Prize(g, fs) = PrizesOf(Group(f, fs)) \div Cardinality(Group(f, fs))
                   + (IF Cardinality({h \in Group(f, fs) : h.place < g.place})
                           < PrizesOf(Group(f, fs)) % Cardinality(Group(f, fs))
                        THEN 1 ELSE 0)
  BY <1>4 DEF Prize
<1>. QED BY <1>2, <1>3, <1>4, <1>5

LEMMA PrizeNat ==
  ASSUME prizePool \in Nat, NEW fs \in Seq(Finisher), NEW f \in Range(fs)
  PROVE  Prize(f, fs) \in Nat
<1>1. f \in Group(f, fs)
  BY FinishersFinite
<1>. DEFINE n == Cardinality(Group(f, fs))
            a == PrizesOf(Group(f, fs))
            odd == Cardinality({h \in Group(f, fs) : h.place < f.place}) < a % n
<1>2. n \in Nat \ {0} /\ a \in Nat /\ Prize(f, fs) = a \div n + (IF odd THEN 1 ELSE 0)
  BY <1>1, SharesOfGroup
<1>. HIDE DEF n, a, odd
<1>3. a \div n \in Nat
  BY <1>2
<1>. QED BY <1>2, <1>3

\* However often a player finished, it is credited chips.
LEMMA PrizeForNat ==
  ASSUME prizePool \in Nat, NEW fs \in Seq(Finisher), NEW p
  PROVE  PrizeFor(p, fs) \in Nat
<1>. DEFINE mine == {i \in DOMAIN fs : fs[i].player = p}
<1>1. IsFiniteSet(mine) /\ mine \in SUBSET DOMAIN fs /\ mine \in SUBSET Nat
  BY FinishersFinite, FS_Subset
<1>2. PrizeFor(p, fs) = IF mine = {} THEN 0 ELSE Cardinality(mine) * Prize(fs[Max(mine)], fs)
  BY DEF PrizeFor
<1>. HIDE DEF mine
<1>3. CASE mine # {}
  <2>1. Max(mine) \in mine
    BY <1>1, <1>3, MaxOfNat
  <2>2. Prize(fs[Max(mine)], fs) \in Nat
    BY <1>1, <2>1, FinishersFinite, PrizeNat
  <2>3. Cardinality(mine) \in Nat
    BY <1>1, FS_CardinalityType
  <2>4. \A a, b \in Nat : a * b \in Nat
    OBVIOUS
  <2>. QED BY <1>2, <1>3, <2>2, <2>3, <2>4
<1>. QED BY <1>2, <1>3

DistinctPlaces(fs)  == \A i, j \in DOMAIN fs : i # j => fs[i].place # fs[j].place
DistinctPlayers(fs) == \A i, j \in DOMAIN fs : i # j => fs[i].player # fs[j].player

\* Who tied shares exactly what their places win.
LEMMA GroupIsPaid ==
  ASSUME prizePool \in Nat, NEW fs \in Seq(Finisher), DistinctPlaces(fs), NEW f \in Range(fs),
         NEW pay, \A g \in Range(fs) : pay[g] = Prize(g, fs)
  PROVE  SumOver(pay, Group(f, fs)) = PrizesOf(Group(f, fs))
<1>. DEFINE G == Group(f, fs)
            R == {w \in G \X G : w[1].place < w[2].place}
<1>1. IsFiniteSet(G) /\ G # {} /\ G \in SUBSET Range(fs) /\ G \in SUBSET Finisher
  BY FinishersFinite
<1>2. \A x, y \in G : <<x, y>> \in R <=> x.place < y.place
  OBVIOUS
<1>3. \A x, y \in Range(fs) : x # y => x.place # y.place
  BY DEF DistinctPlaces, Range
<1>4. \A x \in G : x.place \in Int
  BY <1>1 DEF Finisher
<1>. HIDE DEF G, R
<1>5. StrictOrder(R, G)
  BY SMTT(30), <1>1, <1>2, <1>3, <1>4 DEF StrictOrder
<1>6. \A x \in G : Before(R, G, x) = {h \in G : h.place < x.place}
  BY <1>2 DEF Before
<1>7. PrizesOf(G) \in Nat
  BY SharesOfGroup DEF G
<1>8. \A x \in G : pay[x] = PrizesOf(G) \div Cardinality(G)
                     + (IF Cardinality(Before(R, G, x)) < PrizesOf(G) % Cardinality(G)
                          THEN 1 ELSE 0)
  BY <1>1, <1>6, SharesOfGroup DEF G
<1>9. SumOver(pay, G) = PrizesOf(G)
  BY <1>1, <1>5, <1>7, <1>8, SharesSum
<1>. QED BY <1>9 DEF G

\* Together the finishers are paid what their places win.
LEMMA PrizesAddUp ==
  ASSUME prizePool \in Nat, NEW fs \in Seq(Finisher), DistinctPlaces(fs),
         NEW pay, \A g \in Range(fs) : pay[g] = Prize(g, fs)
  PROVE  SumOver(pay, Range(fs)) = PrizesOf(Range(fs))
<1>. DEFINE S == Range(fs)
            won == [g \in S |-> PrizeOfPlace(g.place)]
            c == [g \in S |-> <<g.batch, g.start>>]
<1>1. IsFiniteSet(S) /\ S \in SUBSET Finisher
  BY FinishersFinite
<1>2. \A g \in S : pay[g] \in Int /\ won[g] \in Int
  BY PrizeNat, PrizesOfPlaces
<1>3. DOMAIN c = S /\ \A f, g \in S : c[g] = c[f] <=> Tied(f, g)
  BY DEF Tied
<1>4. PrizesOf(S) = SumOver(won, S)
  BY DEF PrizesOf
<1>5. \A g \in S : won[g] = PrizeOfPlace(g.place)
  OBVIOUS
<1>. HIDE DEF c, won
<1>6. ASSUME NEW f \in S
      PROVE  SumOver(pay, Class(c, S, f)) = SumOver(won, Class(c, S, f))
  <2>1. Class(c, S, f) = Group(f, fs)
    BY <1>3 DEF Group, Class
  <2>2. SumOver(pay, Group(f, fs)) = PrizesOf(Group(f, fs))
    BY GroupIsPaid
  <2>. DEFINE of == [g \in Group(f, fs) |-> PrizeOfPlace(g.place)]
  <2>3. PrizesOf(Group(f, fs)) = SumOver(of, Group(f, fs))
    BY DEF PrizesOf
  <2>4. IsFiniteSet(Group(f, fs)) /\ \A g \in Group(f, fs) : of[g] = won[g]
    BY <1>5, FinishersFinite
  <2>. HIDE DEF of
  <2>5. SumOver(of, Group(f, fs)) = SumOver(won, Group(f, fs))
    BY <2>4, SumSame
  <2>. QED BY <2>1, <2>2, <2>3, <2>5
<1>. HIDE DEF S
<1>7. SumOver(pay, S) = SumOver(won, S)
  <2>1. \A x \in S : pay[x] \in Int /\ won[x] \in Int
    BY <1>2
  <2>2. IsFiniteSet(S) /\ DOMAIN c = S
    BY <1>1, <1>3
  <2>3. \A x \in S : SumOver(pay, Class(c, S, x)) = SumOver(won, Class(c, S, x))
    BY <1>6
  <2>. QED BY ONLY <2>1, <2>2, <2>3, SumClasses
<1>. QED BY <1>4, <1>7 DEF S

\* payByPlayer credits every finisher its share when nobody finished twice.
LEMMA CreditsAddUp ==
  ASSUME prizePool \in Nat, NEW fs \in Seq(Finisher), DistinctPlaces(fs), DistinctPlayers(fs),
         NEW due, \A p \in Players : due[p] = PrizeFor(p, fs)
  PROVE  SumOver(due, Players) = PrizesOf(Range(fs))
<1>. DEFINE D == DOMAIN fs
            named == [i \in D |-> fs[i].player]
            at == [i \in D |-> fs[i]]
            share == [i \in D |-> Prize(fs[i], fs)]
            pay == [g \in Range(fs) |-> Prize(g, fs)]
            Paid == {named[i] : i \in D}
<1>1. /\ IsFiniteSet(D) /\ D \in SUBSET Nat
      /\ \A i \in D : fs[i] \in Range(fs) /\ fs[i] \in Finisher
  BY FinishersFinite
<1>2. \A i \in D : /\ named[i] = fs[i].player /\ named[i] \in Players
                   /\ at[i] = fs[i] /\ share[i] = Prize(fs[i], fs) /\ share[i] \in Int
                   /\ pay[at[i]] = share[i]
  <2>1. \A i \in D : Prize(fs[i], fs) \in Nat
    BY <1>1, PrizeNat
  <2>2. \A i \in D : fs[i].player \in Players
    BY <1>1 DEF Finisher
  <2>. QED BY <1>1, <2>1, <2>2
<1>3. \A i, j \in D : i # j => named[i] # named[j] /\ at[i] # at[j]
  BY DEF DistinctPlayers
<1>4. {at[i] : i \in D} = Range(fs)
  BY DEF Range
<1>5. \A g \in Range(fs) : pay[g] = Prize(g, fs)
  OBVIOUS
<1>6. Paid \in SUBSET Players /\ \A p : p \in Paid <=> \E i \in D : fs[i].player = p
  BY <1>2
<1>7. ASSUME NEW i \in D PROVE PrizeFor(fs[i].player, fs) = Prize(fs[i], fs)
  <2>1. {j \in DOMAIN fs : fs[j].player = fs[i].player} = {i}
    BY DEF DistinctPlayers
  <2>2. {i} \in SUBSET Nat /\ {i} # {} /\ IsFiniteSet({i}) /\ Cardinality({i}) = 1
    BY <1>1, FS_Singleton
  <2>3. Max({i}) = i
    BY <2>2, MaxOfNat
  <2>4. PrizeFor(fs[i].player, fs) = 1 * Prize(fs[i], fs)
    BY <2>1, <2>2, <2>3 DEF PrizeFor
  <2>5. Prize(fs[i], fs) \in Nat
    BY <1>1, PrizeNat
  <2>. QED BY <2>4, <2>5
<1>8. \A p \in Players \ Paid : PrizeFor(p, fs) = 0
  BY <1>6 DEF PrizeFor
<1>9. \A p \in Players : due[p] \in Int
  BY PrizeForNat
<1>. HIDE DEF D, named, at, share, pay, Paid
<1>10. SumOver(due, Paid) = SumOver(due, Players)
  <2>1. \A p \in Players : due[p] \in Int /\ due[p] = IF p \in Paid THEN due[p] ELSE 0
    BY <1>8, <1>9
  <2>2. IsFiniteSet(Players)
    BY SitAndGoAssumption
  <2>. QED BY ONLY <1>6, <2>1, <2>2, SumPart
<1>11. SumOver(share, D) = SumOver(due, Paid)
  <2>1. \A i \in D : share[i] \in Int /\ due[named[i]] = share[i]
    BY <1>2, <1>7
  <2>2. \A i, j \in D : i # j => named[i] # named[j]
    BY <1>3
  <2>3. SumOver(share, D) = SumOver(due, {named[i] : i \in D})
    <3>1. IsFiniteSet(D)
      BY <1>1
    <3>. QED BY ONLY <2>1, <2>2, <3>1, SumImage
  <2>. QED BY <2>3 DEF Paid
<1>12. SumOver(share, D) = SumOver(pay, Range(fs))
  <2>1. \A i \in D : share[i] \in Int /\ pay[at[i]] = share[i]
    BY <1>2
  <2>2. \A i, j \in D : i # j => at[i] # at[j]
    BY <1>3
  <2>3. SumOver(share, D) = SumOver(pay, {at[i] : i \in D})
    <3>1. IsFiniteSet(D)
      BY <1>1
    <3>. QED BY ONLY <2>1, <2>2, <3>1, SumImage
  <2>. QED BY <1>4, <2>3
<1>13. SumOver(pay, Range(fs)) = PrizesOf(Range(fs))
  BY <1>5, PrizesAddUp
<1>. QED BY <1>10, <1>11, <1>12, <1>13

\* With a finisher in every place nothing of the pool is left.
LEMMA PoolIsShared ==
  ASSUME prizePool \in Nat, NEW fs \in Seq(Finisher), DistinctPlaces(fs),
         {fs[i].place : i \in DOMAIN fs} = 1 .. Entrants
  PROVE  PrizesOf(Range(fs)) = prizePool
<1>. DEFINE S == Range(fs)
            won == [g \in S |-> PrizeOfPlace(g.place)]
            at == [g \in S |-> g.place]
            all == [q \in 1 .. Entrants |-> PrizeOfPlace(q)]
<1>1. IsFiniteSet(S)
  BY FinishersFinite
<1>2. {at[g] : g \in S} = 1 .. Entrants
  BY DEF Range
<1>3. \A g, h \in S : g # h => at[g] # at[h]
  BY DEF Range, DistinctPlaces
<1>4. \A g \in S : at[g] \in 1 .. Entrants
  BY <1>2
<1>5. \A g \in S : won[g] \in Int /\ all[at[g]] = won[g]
  BY <1>4, PrizesOfPlaces
<1>6. PrizesOf(S) = SumOver(won, S) /\ SumOver(all, 1 .. Entrants) = prizePool
  BY PrizesOfPlaces DEF PrizesOf
<1>. HIDE DEF S, won, at, all
<1>7. SumOver(won, S) = SumOver(all, {at[g] : g \in S})
  BY <1>1, <1>3, <1>5, SumImage
<1>. QED BY <1>2, <1>6, <1>7 DEF S

\* The mean of n amounts, rounded down, is no less than the least of them, and rounded up
\* no more than the greatest.
LEMMA MeanAbove ==
  ASSUME NEW n \in Nat \ {0}, NEW a \in Nat, NEW c \in Nat, c * n <= a
  PROVE  c <= a \div n
<1>. DEFINE q == a \div n
<1>1. q \in Nat /\ a < n * q + n
  OBVIOUS
<1>. HIDE DEF q
<1>2. SUFFICES ASSUME q + 1 <= c PROVE FALSE
  BY <1>1 DEF q
<1>3. n * (q + 1) <= n * c
  BY <1>1, <1>2, Factor
<1>4. n * (q + 1) = n * q + n /\ n * c = c * n /\ n * q \in Nat /\ c * n \in Nat
  BY <1>1
<1>. QED BY <1>1, <1>3, <1>4

LEMMA MeanBelow ==
  ASSUME NEW n \in Nat \ {0}, NEW a \in Nat, NEW c \in Nat, a <= c * n
  PROVE  a \div n <= c /\ (a % n > 0 => a \div n + 1 <= c)
<1>. DEFINE q == a \div n
            r == a % n
<1>1. q \in Nat /\ r \in 0 .. n - 1 /\ a = n * q + r
  OBVIOUS
<1>. HIDE DEF q, r
<1>2. n * q \in Nat /\ n * c \in Nat /\ n * (c + 1) \in Nat /\ n * c = c * n
  BY <1>1
<1>3. q <= c
  <2>1. SUFFICES ASSUME c + 1 <= q PROVE FALSE
    BY <1>1
  <2>2. n * (c + 1) <= n * q
    BY <1>1, <2>1, Factor
  <2>3. n * (c + 1) = n * c + n
    OBVIOUS
  <2>. QED BY <1>1, <1>2, <2>2, <2>3
<1>4. r > 0 => q # c
  BY <1>1, <1>2
<1>. QED BY <1>1, <1>3, <1>4 DEF q, r

\* Whoever finished before all who tied with g, alone or in a tie, is paid no less.
LEMMA BetterPaid ==
  ASSUME prizePool \in Nat, NEW fs \in Seq(Finisher), NEW f \in Range(fs), NEW g \in Range(fs),
         \A x \in Group(f, fs), y \in Group(g, fs) :
           x.place \in Nat \ {0} /\ y.place \in Nat \ {0} /\ x.place < y.place
  PROVE  Prize(f, fs) >= Prize(g, fs)
<1>. DEFINE F == Group(f, fs)
            G == Group(g, fs)
            paces == {x.place : x \in F}
            worst == Max(paces)
            c == PrizeOfPlace(worst)
<1>1. IsFiniteSet(F) /\ IsFiniteSet(G) /\ f \in F /\ g \in G
  BY FinishersFinite
<1>2. worst \in paces /\ \A x \in F : x.place <= worst
  <2>. DEFINE at == [x \in F |-> x.place]
  <2>1. paces = {at[x] : x \in F} /\ \A x \in F : x.place \in paces
    OBVIOUS
  <2>. HIDE DEF at
  <2>2. IsFiniteSet(paces)
    <3>1. IsFiniteSet({at[x] : x \in F})
      <4>. HIDE DEF F
      <4>. QED BY <1>1, ImageFinite
    <3>. QED BY <2>1, <3>1
  <2>3. paces \in SUBSET Nat /\ paces # {}
    BY <1>1
  <2>. HIDE DEF paces
  <2>. QED BY <2>1, <2>2, <2>3, MaxOfNat
<1>3. PICK last \in F : last.place = worst
  BY <1>2
<1>. HIDE DEF paces, worst
<1>4. c \in Nat /\ \A x \in F : PrizeOfPlace(x.place) \in Nat /\ c <= PrizeOfPlace(x.place)
  <2>1. ASSUME NEW x \in F PROVE c <= PrizeOfPlace(x.place)
    <3>1. x.place \in Nat \ {0} /\ worst \in Nat \ {0}
      BY <1>1, <1>3
    <3>2. x.place = worst \/ x.place < worst
      BY <1>2, <3>1
    <3>. QED BY <3>1, <3>2, PrizesOfPlaces
  <2>. QED BY <2>1, PrizesOfPlaces
<1>5. \A y \in G : PrizeOfPlace(y.place) \in Nat /\ PrizeOfPlace(y.place) <= c
  <2>1. ASSUME NEW y \in G PROVE PrizeOfPlace(y.place) <= c
    <3>1. y.place \in Nat \ {0} /\ worst \in Nat \ {0} /\ worst < y.place
      BY <1>3
    <3>. QED BY <3>1, PrizesOfPlaces
  <2>. QED BY <2>1, PrizesOfPlaces
<1>. HIDE DEF c
<1>6. c * Cardinality(F) <= PrizesOf(F)
  <2>. DEFINE won == [x \in F |-> PrizeOfPlace(x.place)]
              even == [x \in F |-> c]
  <2>1. \A x \in F : even[x] \in Int /\ won[x] \in Int /\ even[x] <= won[x] /\ even[x] = c
    BY <1>4
  <2>2. PrizesOf(F) = SumOver(won, F)
    BY DEF PrizesOf
  <2>. HIDE DEF won, even, F
  <2>3. SumOver(even, F) <= SumOver(won, F)
    BY <1>1, <2>1, SumLE
  <2>4. SumOver(even, F) = c * Cardinality(F)
    BY <1>1, <1>4, <2>1, SumConst
  <2>. QED BY <2>2, <2>3, <2>4
<1>7. PrizesOf(G) <= c * Cardinality(G)
  <2>. DEFINE won == [x \in G |-> PrizeOfPlace(x.place)]
              even == [x \in G |-> c]
  <2>1. \A x \in G : even[x] \in Int /\ won[x] \in Int /\ won[x] <= even[x] /\ even[x] = c
    BY <1>4, <1>5
  <2>2. PrizesOf(G) = SumOver(won, G)
    BY DEF PrizesOf
  <2>. HIDE DEF won, even, G
  <2>3. SumOver(won, G) <= SumOver(even, G)
    BY <1>1, <2>1, SumLE
  <2>4. SumOver(even, G) = c * Cardinality(G)
    BY <1>1, <1>4, <2>1, SumConst
  <2>. QED BY <2>2, <2>3, <2>4
<1>. DEFINE n == Cardinality(F)
            m == Cardinality(G)
            a == PrizesOf(F)
            b == PrizesOf(G)
            r == Cardinality({h \in F : h.place < f.place})
            s == Cardinality({h \in G : h.place < g.place})
<1>8. n \in Nat \ {0} /\ a \in Nat /\ Prize(f, fs) = a \div n + (IF r < a % n THEN 1 ELSE 0)
  BY <1>1, SharesOfGroup
<1>9. m \in Nat \ {0} /\ b \in Nat /\ Prize(g, fs) = b \div m + (IF s < b % m THEN 1 ELSE 0)
  BY <1>1, SharesOfGroup
<1>10. s \in Nat
  <2>1. {h \in G : h.place < g.place} \in SUBSET G
    OBVIOUS
  <2>. QED BY <1>1, <2>1, FS_Subset, FS_CardinalityType
<1>11. c * n <= a /\ b <= c * m
  BY <1>6, <1>7
<1>. HIDE DEF n, m, a, b, r, s
<1>12. c <= a \div n
  BY <1>4, <1>8, <1>11, MeanAbove
<1>13. b \div m <= c /\ (b % m > 0 => b \div m + 1 <= c)
  BY <1>4, <1>9, <1>11, MeanBelow
<1>14. a \div n \in Nat /\ b \div m \in Nat /\ b % m \in Nat
  BY <1>8, <1>9
<1>15. Prize(g, fs) <= c /\ Prize(g, fs) \in Nat
  BY <1>4, <1>9, <1>10, <1>13, <1>14
<1>16. c <= Prize(f, fs) /\ Prize(f, fs) \in Nat
  BY <1>4, <1>8, <1>12, <1>14
<1>. QED BY <1>4, <1>15, <1>16

\* Of a tie the better place gets an odd chip first.
LEMMA TiedPaid ==
  ASSUME prizePool \in Nat, NEW fs \in Seq(Finisher), NEW f \in Range(fs), NEW g \in Range(fs),
         Tied(f, g), f.place < g.place
  PROVE  Prize(f, fs) >= Prize(g, fs) /\ Prize(f, fs) - Prize(g, fs) <= 1
<1>. DEFINE G == Group(f, fs)
            before(x) == {h \in G : h.place < x.place}
            n == Cardinality(G)
            a == PrizesOf(G)
            r == Cardinality(before(f))
            s == Cardinality(before(g))
<1>1. IsFiniteSet(G) /\ f \in G /\ g \in G /\ G \in SUBSET Finisher
  BY FinishersFinite DEF Group
<1>2. r \in Nat /\ s \in Nat /\ r <= s
  <2>1. before(f) \in SUBSET before(g) /\ before(g) \in SUBSET G
    <3>1. \A h \in G : h.place \in Int
      BY <1>1 DEF Finisher
    <3>. QED BY <1>1, <3>1
  <2>. HIDE DEF before
  <2>2. IsFiniteSet(before(g)) /\ IsFiniteSet(before(f))
    BY <1>1, <2>1, FS_Subset
  <2>. QED BY <2>1, <2>2, FS_Subset, FS_CardinalityType
<1>3. /\ n \in Nat \ {0} /\ a \in Nat
      /\ Prize(f, fs) = a \div n + (IF r < a % n THEN 1 ELSE 0)
      /\ Prize(g, fs) = a \div n + (IF s < a % n THEN 1 ELSE 0)
  BY <1>1, SharesOfGroup
<1>. HIDE DEF n, a, r, s
<1>4. a \div n \in Nat /\ a % n \in Nat
  BY <1>3
<1>. QED BY <1>2, <1>3, <1>4

-----------------------------------------------------------------------------
(* What the invariant says of money and standings *)

LEMMA Counts ==
  ASSUME TypeOK
  PROVE  /\ Entrants \in Nat /\ eliminated \in Nat /\ batch \in Nat /\ leaves \in Nat
         /\ returns \in Nat /\ prizePool \in Nat /\ pot \in Nat
         /\ finishers \in Seq(Finisher) /\ DOMAIN finishers = 1 .. Len(finishers)
         /\ Len(finishers) \in Nat /\ \A i \in DOMAIN finishers : finishers[i] \in Finisher
         /\ registered \in Seq(Players) /\ DOMAIN registered = 1 .. Len(registered)
         /\ Len(registered) \in Nat
<1>1. Entrants \in Nat
  BY SitAndGoAssumption
<1>2. /\ eliminated \in 0 .. Entrants + returns /\ batch \in 0 .. eliminated /\ pot \in Nat
      /\ leaves \in Nat /\ returns \in Nat /\ finishers \in Seq(Finisher) /\ prizePool \in Nat
      /\ registered \in Seq(Players)
  BY DEF TypeOK
<1>. QED BY <1>1, <1>2

\* Who bust has a batch, and only the winner has none.
LEMMA Bust ==
  ASSUME TypeOK, PlacesOK
  PROVE  /\ Len(finishers) \in eliminated .. eliminated + 1
         /\ \A i \in DOMAIN finishers : i \in 1 .. eliminated <=> finishers[i].batch > 0
         /\ \A i \in DOMAIN finishers : i = eliminated + 1 <=> finishers[i].batch = 0
<1>1. /\ DOMAIN finishers = 1 .. Len(finishers) /\ Len(finishers) \in Nat
      /\ eliminated \in Nat /\ batch \in Nat
  BY Counts
<1>2. /\ Len(finishers) \in eliminated .. eliminated + 1
      /\ \A i \in 1 .. eliminated : finishers[i].batch \in 1 .. batch
      /\ \A i \in DOMAIN finishers : i > eliminated => finishers[i].batch = 0
  BY DEF PlacesOK
<1>. QED BY <1>1, <1>2

\* The winner's place is none of those given out before.
LEMMA PlacesApart ==
  ASSUME NEW fs \in Seq(Finisher), NEW e \in Nat, Len(fs) \in e .. e + 1,
         \A i \in 1 .. e : fs[i].place \in Entrants - e + 1 .. Entrants,
         \A i \in DOMAIN fs : i > e => fs[i].place = 1 /\ e < Entrants,
         \A i, j \in 1 .. e : i # j => fs[i].place # fs[j].place
  PROVE  DistinctPlaces(fs)
<1>. SUFFICES ASSUME NEW i \in DOMAIN fs, NEW j \in DOMAIN fs, i < j
             PROVE  fs[i].place # fs[j].place
  BY DEF DistinctPlaces
<1>1. i \in 1 .. e /\ j \in 1 .. e + 1 /\ Entrants \in Nat
  BY SitAndGoAssumption
<1>2. CASE j \in 1 .. e
  BY <1>1, <1>2
<1>3. CASE j > e
  BY <1>1, <1>3
<1>. QED BY <1>1, <1>2, <1>3

LEMMA FinishersApart ==
  ASSUME TypeOK, PlacesOK, returns = 0
  PROVE  DistinctPlaces(finishers)
<1>1. finishers \in Seq(Finisher) /\ eliminated \in Nat
  BY Counts
<1>2. /\ Len(finishers) \in eliminated .. eliminated + 1
      /\ \A i \in 1 .. eliminated :
           finishers[i].place \in Entrants - eliminated + 1 .. Entrants
      /\ \A i \in DOMAIN finishers : i > eliminated =>
           finishers[i].place = 1 /\ eliminated < Entrants
      /\ \A i, j \in 1 .. eliminated : i # j => finishers[i].place # finishers[j].place
  BY DEF PlacesOK
<1>. QED BY <1>1, <1>2, PlacesApart

\* Every place of an undisturbed tournament has its finisher.
LEMMA FinishersEverywhere ==
  ASSUME TypeOK, PlacesOK, status = "Complete", Undisturbed
  PROVE  {finishers[i].place : i \in DOMAIN finishers} = 1 .. Entrants
<1>1. /\ Len(finishers) = eliminated + 1 /\ eliminated + 1 = Entrants /\ eliminated \in Nat
      /\ Entrants \in Nat /\ finishers \in Seq(Finisher)
  BY SitAndGoAssumption DEF TypeOK, PlacesOK
<1>2. DOMAIN finishers = 1 .. eliminated + 1
  BY <1>1
<1>3. finishers[eliminated + 1].place = 1
  BY <1>1, <1>2 DEF PlacesOK
<1>4. /\ \A i \in 1 .. eliminated : finishers[i].place \in 2 .. Entrants
      /\ \A q \in 2 .. Entrants : \E i \in 1 .. eliminated : finishers[i].place = q
  <2>1. Entrants - eliminated + 1 = 2
    BY <1>1
  <2>. QED BY <2>1 DEF PlacesOK
<1>5. ASSUME NEW i \in DOMAIN finishers PROVE finishers[i].place \in 1 .. Entrants
  BY <1>1, <1>2, <1>3, <1>4
<1>6. ASSUME NEW q \in 1 .. Entrants PROVE \E i \in DOMAIN finishers : finishers[i].place = q
  <2>1. CASE q = 1
    BY <1>1, <1>2, <1>3, <2>1
  <2>2. CASE q \in 2 .. Entrants
    BY <1>1, <1>2, <1>4, <2>2
  <2>. QED BY <1>1, <2>1, <2>2
<1>. QED BY <1>5, <1>6

LEMMA MoneyFollows == SngInv => MoneyAccounted
<1>. SUFFICES ASSUME SngInv PROVE MoneyAccounted
  OBVIOUS
<1>1. BuyInsAccounted
  BY DEF SngInv, PoolOK, BuyInsAccounted, Held, Minted
<1>2. PoolPaidOut
  <2>. SUFFICES ASSUME status = "Complete", Undisturbed PROVE Unclaimed = 0
    BY DEF PoolPaidOut
  <2>1. DistinctPlaces(finishers)
    BY FinishersApart DEF SngInv, Undisturbed
  <2>2. {finishers[i].place : i \in DOMAIN finishers} = 1 .. Entrants
    BY FinishersEverywhere DEF SngInv
  <2>3. finishers \in Seq(Finisher) /\ prizePool \in Nat
    BY DEF SngInv, TypeOK
  <2>4. PrizesOf(Range(finishers)) = prizePool
    BY <2>1, <2>2, <2>3, PoolIsShared
  <2>. QED BY <2>3, <2>4 DEF Unclaimed
<1>. QED BY <1>1, <1>2 DEF SngInv, MoneyAccounted

LEMMA PlacesFollow == SngInv => PlacesFilled /\ PlacesOrdered
<1>. SUFFICES ASSUME SngInv PROVE PlacesFilled /\ PlacesOrdered
  OBVIOUS
<1>. USE DEF SngInv
<1>1. PlacesFilled
  BY FinishersApart, FinishersEverywhere DEF PlacesFilled, DistinctPlaces, FinishersOK
<1>2. /\ finishers \in Seq(Finisher) /\ eliminated \in Nat /\ batch \in Nat /\ Entrants \in Nat
      /\ DOMAIN finishers = 1 .. Len(finishers) /\ Len(finishers) \in eliminated .. eliminated + 1
  BY Counts, Bust
<1>3. ASSUME NEW i \in DOMAIN finishers, NEW j \in DOMAIN finishers,
             \/ finishers[i].batch > finishers[j].batch /\ finishers[j].batch > 0
             \/ finishers[i].batch = 0 /\ finishers[j].batch > 0 /\ returns = 0
             \/ /\ finishers[i].batch = finishers[j].batch
                /\ finishers[i].start > finishers[j].start
      PROVE  finishers[i].place < finishers[j].place
  <2>1. finishers[i] \in Finisher /\ finishers[j] \in Finisher
    BY Counts
  <2>2. /\ finishers[i].batch \in Nat /\ finishers[j].batch \in Nat
        /\ finishers[i].start \in Nat /\ finishers[j].start \in Nat
    BY <2>1 DEF Finisher
  <2>3. \A k \in DOMAIN finishers : finishers[k].batch > 0 => k \in 1 .. eliminated
    BY Bust
  <2>4. \A k \in DOMAIN finishers : finishers[k].batch = 0 => k = eliminated + 1
    BY Bust
  <2>5. CASE finishers[i].batch > 0 /\ finishers[j].batch > 0
    <3>1. i \in 1 .. eliminated /\ j \in 1 .. eliminated
      BY <2>3, <2>5
    <3>. QED BY <1>3, <2>2, <2>5, <3>1 DEF PlacesOK
  <2>6. CASE finishers[i].batch = 0 /\ finishers[j].batch > 0 /\ returns = 0
    <3>1. i = eliminated + 1 /\ j \in 1 .. eliminated
      BY <2>3, <2>4, <2>6
    <3>2. finishers[i].place = 1 /\ eliminated < Entrants
      <4>1. i > eliminated
        BY <1>2, <3>1
      <4>. QED BY <2>6, <4>1 DEF PlacesOK
    <3>3. finishers[j].place \in Entrants - eliminated + 1 .. Entrants
      BY <3>1 DEF PlacesOK
    <3>. QED BY <1>2, <3>2, <3>3
  <2>7. CASE finishers[i].batch = 0 /\ finishers[j].batch = 0
    <3>1. i = j
      BY <2>4, <2>7
    <3>. QED BY <1>3, <2>2, <2>7, <3>1
  <2>8. finishers[i].batch = 0 => finishers[j].batch = 0 \/ (returns = 0 /\ finishers[j].batch > 0)
    BY <1>3, <2>2
  <2>. QED BY <1>3, <2>2, <2>5, <2>6, <2>7, <2>8
<1>4. PlacesOrdered
  BY <1>3 DEF PlacesOrdered, Range
<1>. QED BY <1>1, <1>4

\* Two finishers who did not tie, and so all who tied with them, bust in different hands or
\* with different stacks.
LEMMA PrizesFollow == SngInv => PrizesFollowPlaces
<1>. SUFFICES ASSUME SngInv, returns = 0, NEW f \in Range(finishers), NEW g \in Range(finishers),
                     f.place < g.place
             PROVE  /\ Prize(f, finishers) >= Prize(g, finishers)
                    /\ Tied(f, g) => Prize(f, finishers) - Prize(g, finishers) <= 1
  BY DEF PrizesFollowPlaces
<1>1. finishers \in Seq(Finisher) /\ prizePool \in Nat /\ PlacesOrdered /\ DistinctPlaces(finishers)
  BY PlacesFollow, FinishersApart DEF SngInv, TypeOK
<1>2. CASE Tied(f, g)
  BY <1>1, <1>2, TiedPaid
<1>3. CASE ~Tied(f, g)
  <2>1. \A x \in Range(finishers) : x.place \in Nat \ {0} /\ x.batch \in Nat /\ x.start \in Nat
    <3>1. ASSUME NEW i \in DOMAIN finishers PROVE finishers[i].place \in Nat \ {0}
      <4>1. /\ DOMAIN finishers = 1 .. Len(finishers) /\ Len(finishers) \in Nat
            /\ eliminated \in Nat /\ eliminated \in 0 .. Entrants /\ Entrants \in Nat
        <5>1. eliminated \in 0 .. Entrants + 0
          BY DEF SngInv, TypeOK
        <5>. QED BY <5>1, Counts DEF SngInv
      <4>2. CASE i \in 1 .. eliminated
        <5>1. finishers[i].place \in Entrants - eliminated + 1 .. Entrants
          BY <4>2 DEF SngInv, PlacesOK
        <5>. QED BY <4>1, <5>1
      <4>3. CASE i > eliminated
        BY <4>3 DEF SngInv, PlacesOK
      <4>. QED BY <4>1, <4>2, <4>3
    <3>2. \A x \in Range(finishers) : x \in Finisher
      BY <1>1, FinishersFinite
    <3>. QED BY <3>1, <3>2 DEF Range, Finisher
  <2>2. \A x, y \in Range(finishers) : x.batch = 0 /\ y.batch = 0 => x = y
    <3>1. \A i \in DOMAIN finishers : finishers[i].batch = 0 => i = eliminated + 1
      BY Bust DEF SngInv
    <3>. QED BY <3>1 DEF Range
  <2>3. \/ f.batch > g.batch /\ g.batch > 0
        \/ f.batch = 0 /\ g.batch > 0
        \/ f.batch = g.batch /\ f.start > g.start
    <3>1. ~(\/ g.batch > f.batch /\ f.batch > 0
            \/ g.batch = 0 /\ f.batch > 0
            \/ g.batch = f.batch /\ g.start > f.start)
      BY <1>1, <2>1 DEF PlacesOrdered
    <3>. QED BY <1>3, <2>1, <3>1 DEF Tied
  <2>4. ASSUME NEW x \in Group(f, finishers), NEW y \in Group(g, finishers)
        PROVE  x.place \in Nat \ {0} /\ y.place \in Nat \ {0} /\ x.place < y.place
    <3>1. x \in Range(finishers) /\ y \in Range(finishers) /\ Tied(f, x) /\ Tied(g, y)
      BY DEF Group
    <3>. QED BY <1>1, <2>1, <2>3, <3>1 DEF Tied, PlacesOrdered
  <2>5. Prize(f, finishers) >= Prize(g, finishers)
    BY <1>1, <2>4, BetterPaid
  <2>. QED BY <1>3, <2>5
<1>. QED BY <1>2, <1>3

LEMMA StandingsFollow == SngInv => StandingsAreFair
  BY PlacesFollow, PrizesFollow DEF StandingsAreFair

-----------------------------------------------------------------------------
(* The places of the seats that bust in one hand *)

LEMMA ChairsFinite ==
  ASSUME TypeOK
  PROVE  /\ IsFiniteSet(DOMAIN seated) /\ DOMAIN seated \in SUBSET Chairs /\ Chairs \in SUBSET Nat
         /\ Cardinality(DOMAIN seated) \in Nat /\ IsFiniteSet(Chairs)
         /\ \A s \in DOMAIN seated : seated[s] \in Nat \ {0} /\ sitter[s] \in Players
         /\ \A S \in SUBSET DOMAIN seated : IsFiniteSet(S) /\ Cardinality(S) \in Nat
<1>1. Entrants \in Nat
  BY Counts
<1>2. Chairs \in SUBSET Nat /\ IsFiniteSet(Chairs)
  BY <1>1, FS_Interval DEF Chairs
<1>3. /\ DOMAIN seated \in SUBSET Chairs
      /\ \A s \in DOMAIN seated : seated[s] \in Nat \ {0} /\ sitter[s] \in Players
  BY DEF TypeOK
<1>4. IsFiniteSet(DOMAIN seated)
  BY <1>2, <1>3, FS_Subset
<1>5. \A S \in SUBSET DOMAIN seated : IsFiniteSet(S) /\ Cardinality(S) \in Nat
  BY <1>4, FS_Subset, FS_CardinalityType
<1>. QED BY <1>2, <1>3, <1>4, <1>5

\* Every place of the batch goes to one of them, the better one to who outlasts the other.
LEMMA PlacesOfBusted ==
  ASSUME TypeOK, NEW busted \in SUBSET DOMAIN seated
  PROVE  /\ \A s \in busted : PlaceOf(s, busted) \in
              Entrants - eliminated - Cardinality(busted) + 1 .. Entrants - eliminated
         /\ \A s, u \in busted : Outlasts(s, u) => PlaceOf(s, busted) < PlaceOf(u, busted)
         /\ \A q \in Entrants - eliminated - Cardinality(busted) + 1 .. Entrants - eliminated :
              \E s \in busted : PlaceOf(s, busted) = q
<1>. DEFINE R == {w \in busted \X busted : Outlasts(w[2], w[1])}
            rank(s) == Cardinality(Before(R, busted, s))
            k == Cardinality(busted)
            last == Entrants - eliminated
<1>1. IsFiniteSet(busted) /\ k \in Nat /\ last \in Int
  BY ChairsFinite, Counts
<1>2. \A s, u \in busted : <<u, s>> \in R <=> Outlasts(s, u)
  OBVIOUS
<1>3. \A s \in busted : s \in Nat /\ seated[s] \in Nat
  BY ChairsFinite
<1>. HIDE DEF R
<1>4. StrictOrder(R, busted)
  BY <1>2, <1>3 DEF StrictOrder, Outlasts
<1>5. \A s \in busted : Before(R, busted, s) = {u \in busted : Outlasts(s, u)}
  BY <1>2 DEF Before
<1>6. \A s \in busted : PlaceOf(s, busted) = last - rank(s)
  BY <1>5 DEF PlaceOf
<1>7. /\ \A s \in busted : rank(s) \in 0 .. k - 1
      /\ \A s, u \in busted : <<u, s>> \in R => rank(u) < rank(s)
      /\ \A r \in 0 .. k - 1 : \E s \in busted : rank(s) = r
  <2>1. \A s \in busted : rank(s) \in 0 .. k - 1
    BY <1>1, <1>4, RankOfEach
  <2>2. \A s, u \in busted : <<u, s>> \in R => rank(u) < rank(s)
    BY <1>1, <1>4, RankOfEach
  <2>3. \A r \in 0 .. k - 1 : \E s \in busted : rank(s) = r
    BY <1>1, <1>4, RankOfEach
  <2>. QED BY <2>1, <2>2, <2>3
<1>. HIDE DEF rank, k, last
<1>8. \A s \in busted : PlaceOf(s, busted) \in last - k + 1 .. last
  BY <1>1, <1>6, <1>7
<1>9. ASSUME NEW s \in busted, NEW u \in busted, Outlasts(s, u)
      PROVE  PlaceOf(s, busted) < PlaceOf(u, busted)
  <2>1. rank(u) < rank(s)
    BY <1>2, <1>7, <1>9
  <2>2. rank(u) \in Int /\ rank(s) \in Int
    BY <1>7
  <2>3. PlaceOf(s, busted) = last - rank(s) /\ PlaceOf(u, busted) = last - rank(u)
    BY <1>6
  <2>. QED BY <1>1, <2>1, <2>2, <2>3
<1>10. ASSUME NEW q \in last - k + 1 .. last PROVE \E s \in busted : PlaceOf(s, busted) = q
  <2>1. last - q \in 0 .. k - 1
    BY <1>1
  <2>2. PICK s \in busted : rank(s) = last - q
    BY <1>7, <2>1
  <2>3. PlaceOf(s, busted) = q
    BY <1>1, <1>6, <2>2
  <2>. QED BY <2>3
<1>. QED BY <1>8, <1>9, <1>10 DEF k, last

\* The seat whose record is the i-th of the batch.
SeatAt(busted, i) ==
  CHOOSE q \in busted :
    PlaceOf(q, busted) = Entrants - eliminated - Cardinality(busted) + i

LEMMA RecordsOfBusted ==
  ASSUME TypeOK, NEW busted \in SUBSET DOMAIN seated
  PROVE  /\ FinishersOf(busted) \in Seq(Finisher) /\ Len(FinishersOf(busted)) = Cardinality(busted)
         /\ \A i \in 1 .. Cardinality(busted) :
              /\ SeatAt(busted, i) \in busted
              /\ FinishersOf(busted)[i].player = sitter[SeatAt(busted, i)]
              /\ FinishersOf(busted)[i].place = Entrants - eliminated - Cardinality(busted) + i
              /\ FinishersOf(busted)[i].batch = batch + 1
              /\ FinishersOf(busted)[i].start = seated[SeatAt(busted, i)]
         /\ \A i, j \in 1 .. Cardinality(busted) :
              /\ i # j => SeatAt(busted, i) # SeatAt(busted, j)
              /\ seated[SeatAt(busted, i)] > seated[SeatAt(busted, j)] => i < j
<1>. DEFINE k == Cardinality(busted)
            fs == FinishersOf(busted)
            seat(i) == SeatAt(busted, i)
            base == Entrants - eliminated - k
<1>1. k \in Nat /\ base \in Int /\ Entrants - eliminated = base + k
  BY ChairsFinite, Counts
<1>2. ASSUME NEW i \in 1 .. k PROVE seat(i) \in busted /\ PlaceOf(seat(i), busted) = base + i
  <2>1. base + i \in base + 1 .. Entrants - eliminated
    BY <1>1
  <2>2. \E q \in busted : PlaceOf(q, busted) = base + i
    BY <2>1, PlacesOfBusted
  <2>. QED BY <2>2 DEF SeatAt
<1>3. fs = [i \in 1 .. k |-> [player |-> sitter[seat(i)], place |-> base + i,
                              batch |-> batch + 1, start |-> seated[seat(i)]]]
  BY DEF FinishersOf, SeatAt
<1>4. \A s \in busted : sitter[s] \in Players /\ seated[s] \in Nat
  BY ChairsFinite
<1>5. batch + 1 \in Nat
  BY Counts
<1>. HIDE DEF seat, base
<1>6. ASSUME NEW i \in 1 .. k
      PROVE  /\ fs[i] \in Finisher /\ fs[i].player = sitter[seat(i)] /\ fs[i].place = base + i
             /\ fs[i].batch = batch + 1 /\ fs[i].start = seated[seat(i)]
  BY <1>1, <1>2, <1>3, <1>4, <1>5 DEF Finisher
<1>7. DOMAIN fs = 1 .. k /\ fs \in [1 .. k -> Finisher]
  BY <1>3, <1>6
<1>8. fs \in Seq(Finisher) /\ Len(fs) = k
  BY <1>1, <1>7
<1>9. ASSUME NEW i \in 1 .. k, NEW j \in 1 .. k
      PROVE  /\ i # j => seat(i) # seat(j)
             /\ seated[seat(i)] > seated[seat(j)] => i < j
  <2>1. i # j => seat(i) # seat(j)
    BY <1>1, <1>2
  <2>2. ASSUME seated[seat(i)] > seated[seat(j)] PROVE i < j
    <3>1. Outlasts(seat(i), seat(j))
      BY <2>2 DEF Outlasts
    <3>2. base + i < base + j
      BY <1>2, <3>1, PlacesOfBusted
    <3>. QED BY <1>1, <3>2
  <2>. QED BY <2>1, <2>2
<1>. QED BY <1>2, <1>6, <1>8, <1>9 DEF seat, base

-----------------------------------------------------------------------------
(* A hand ends *)

BustedIn(stack) == {s \in DOMAIN stack : stack[s] = 0}
AliveIn(stack)  == DOMAIN stack \ BustedIn(stack)
Done(stack)     == Cardinality(AliveIn(stack)) <= 1

\* What a hand that runs to its end and one that a leave ends have in common: the table
\* reports the stacks, and of those who have chips only T stay.
HandEnds(stack, accounts, T) ==
  /\ dealing
  /\ stack \in [DOMAIN seated -> Nat] /\ accounts \in [Players -> Nat]
  /\ leaked' \in Int
  /\ SumOver(accounts, Players) - leaked' = SumOver(ledger, Players) - leaked
  /\ Undisturbed /\ leaves' = 0 => AliveIn(stack) # {}
  /\ OnHandComplete(stack, accounts)
  /\ T \in SUBSET AliveIn(stack) /\ Stay(T, stack)
  /\ leaves' = leaves + Cardinality(AliveIn(stack)) - Cardinality(T)
  /\ pot' \in Nat /\ (leaves' = 0 => pot' = 0)
  /\ UNCHANGED <<listed, registered, prizePool, overdue, pc, up, late, returns>>

\* Who was seated busts or is alive.
LEMMA HandCounts ==
  ASSUME SngInv, NEW stack, NEW accounts, NEW T, HandEnds(stack, accounts, T)
  PROVE  /\ BustedIn(stack) \in SUBSET DOMAIN seated /\ AliveIn(stack) \in SUBSET DOMAIN seated
         /\ IsFiniteSet(BustedIn(stack)) /\ IsFiniteSet(AliveIn(stack)) /\ IsFiniteSet(T)
         /\ Cardinality(BustedIn(stack)) \in Nat /\ Cardinality(AliveIn(stack)) \in Nat
         /\ Cardinality(T) \in Nat /\ Cardinality(T) <= Cardinality(AliveIn(stack))
         /\ Cardinality(AliveIn(stack)) + Cardinality(BustedIn(stack)) + eliminated + leaves
              = Entrants + returns
         /\ status = "Running" /\ Len(finishers) = eliminated
         /\ eliminated' = eliminated + Cardinality(BustedIn(stack))
         /\ batch' = IF BustedIn(stack) # {} THEN batch + 1 ELSE batch
         /\ status' = IF Done(stack) THEN "Complete" ELSE status
<1>1. DOMAIN stack = DOMAIN seated
  BY DEF HandEnds
<1>2. BustedIn(stack) \in SUBSET DOMAIN seated /\ AliveIn(stack) \in SUBSET DOMAIN seated
  BY <1>1 DEF BustedIn, AliveIn
<1>3. IsFiniteSet(DOMAIN seated) /\ T \in SUBSET AliveIn(stack)
  BY ChairsFinite DEF SngInv, HandEnds
<1>4. /\ IsFiniteSet(BustedIn(stack)) /\ IsFiniteSet(AliveIn(stack)) /\ IsFiniteSet(T)
      /\ Cardinality(BustedIn(stack)) \in Nat /\ Cardinality(AliveIn(stack)) \in Nat
      /\ Cardinality(T) \in Nat /\ Cardinality(T) <= Cardinality(AliveIn(stack))
  BY <1>2, <1>3, FS_Subset, FS_CardinalityType
<1>5. Cardinality(DOMAIN seated) = Cardinality(AliveIn(stack)) + Cardinality(BustedIn(stack))
  <2>1. /\ DOMAIN seated \ AliveIn(stack) = BustedIn(stack)
        /\ DOMAIN seated \cap AliveIn(stack) = AliveIn(stack)
    BY <1>1, <1>2 DEF AliveIn
  <2>2. Cardinality(DOMAIN seated \ AliveIn(stack))
          = Cardinality(DOMAIN seated) - Cardinality(DOMAIN seated \cap AliveIn(stack))
    BY <1>3, FS_Difference
  <2>3. Cardinality(DOMAIN seated) \in Nat
    BY <1>3, FS_CardinalityType
  <2>. QED BY <1>4, <2>1, <2>2, <2>3
<1>6. status = "Running"
  BY DEF SngInv, SignUpsOK, HandEnds
<1>7. Cardinality(DOMAIN seated) + eliminated + leaves = Entrants + returns
  BY <1>6 DEF SngInv, SeatsOK
<1>8. Len(finishers) = eliminated
  <2>1. /\ Len(finishers) \in eliminated .. eliminated + 1 /\ eliminated \in Nat
        /\ Len(finishers) \in Nat /\ DOMAIN finishers = 1 .. Len(finishers)
    BY Counts, Bust DEF SngInv
  <2>2. \A i \in DOMAIN finishers : ~(i > eliminated)
    BY <1>6 DEF SngInv, PlacesOK
  <2>3. eliminated + 1 \notin 1 .. Len(finishers)
    BY <2>1, <2>2
  <2>. DEFINE n == Len(finishers)
  <2>4. n \in eliminated .. eliminated + 1 /\ eliminated \in Nat /\ eliminated + 1 \notin 1 .. n
    BY <2>1, <2>3
  <2>. HIDE DEF n
  <2>5. n = eliminated
    BY <2>4
  <2>. QED BY <2>5 DEF n
<1>9. /\ eliminated' = eliminated + Cardinality(BustedIn(stack))
      /\ batch' = IF BustedIn(stack) # {} THEN batch + 1 ELSE batch
      /\ status' = IF Done(stack) THEN "Complete" ELSE status
  BY DEF HandEnds, OnHandComplete, BustedIn, AliveIn, Done
<1>. QED BY <1>2, <1>4, <1>5, <1>6, <1>7, <1>8, <1>9

LEMMA Listed ==
  ASSUME NEW S, NEW n \in Nat, NEW f \in [1 .. n -> S]
  PROVE  f \in Seq(S) /\ Len(f) = n
OBVIOUS

LEMMA Joined ==
  ASSUME NEW S, NEW a \in Seq(S), NEW b \in Seq(S), NEW m \in Nat, Len(a) = m
  PROVE  /\ a \o b \in Seq(S) /\ Len(a \o b) = m + Len(b)
         /\ \A i \in 1 .. m : (a \o b)[i] = a[i]
         /\ \A i \in 1 .. Len(b) : (a \o b)[m + i] = b[i]
OBVIOUS

\* The new records stand behind the old ones, the winner's behind them all.
LEMMA NewFinishers ==
  ASSUME SngInv, NEW stack, NEW accounts, NEW T, HandEnds(stack, accounts, T)
  PROVE  LET busted == BustedIn(stack)
             alive  == AliveIn(stack)
             k      == Cardinality(busted)
         IN  /\ finishers' \in Seq(Finisher)
             /\ Len(finishers') = eliminated + k
                  + (IF Done(stack) /\ alive # {} THEN 1 ELSE 0)
             /\ \A i \in 1 .. eliminated : finishers'[i] = finishers[i]
             /\ \A i \in 1 .. k : finishers'[eliminated + i] = FinishersOf(busted)[i]
             /\ Done(stack) /\ alive # {} =>
                  \E s \in alive : /\ finishers'[eliminated + k + 1].player = sitter[s]
                                   /\ finishers'[eliminated + k + 1].place = 1
                                   /\ finishers'[eliminated + k + 1].batch = 0
             /\ ledger' = IF Done(stack)
                            THEN [p \in Players |-> accounts[p] + PrizeFor(p, finishers')]
                            ELSE accounts
<1>. DEFINE busted == BustedIn(stack)
            alive == AliveIn(stack)
            k == Cardinality(busted)
            new == FinishersOf(busted)
            placed == finishers \o new
            win == WinnerOf(alive)
<1>1. /\ busted \in SUBSET DOMAIN seated /\ alive \in SUBSET DOMAIN seated
      /\ k \in Nat /\ Cardinality(alive) \in Nat /\ IsFiniteSet(alive)
      /\ Len(finishers) = eliminated /\ eliminated \in Nat /\ finishers \in Seq(Finisher)
  BY HandCounts, Counts DEF SngInv
<1>2. new \in Seq(Finisher) /\ Len(new) = k
  BY <1>1, RecordsOfBusted DEF SngInv
<1>3. /\ finishers' = IF Done(stack) THEN placed \o win ELSE placed
      /\ ledger' = IF Done(stack)
                     THEN [p \in Players |-> accounts[p] + PrizeFor(p, finishers')]
                     ELSE accounts
  BY DEF HandEnds, OnHandComplete, BustedIn, AliveIn, Done
<1>. HIDE DEF busted, alive, k, new
<1>4. /\ placed \in Seq(Finisher) /\ Len(placed) = eliminated + k
      /\ \A i \in 1 .. eliminated : placed[i] = finishers[i]
      /\ \A i \in 1 .. k : placed[eliminated + i] = new[i]
  BY <1>1, <1>2
<1>. HIDE DEF placed
<1>5. CASE ~Done(stack)
  BY <1>3, <1>4, <1>5 DEF busted, alive, k, new
<1>6. CASE Done(stack) /\ alive = {}
  <2>1. win = <<>>
    <3>1. Cardinality(alive) = 0
      BY <1>6, FS_EmptySet
    <3>. QED BY <3>1 DEF WinnerOf
  <2>. HIDE DEF win
  <2>2. placed \o win = placed
    BY <1>4, <2>1
  <2>. QED BY <1>3, <1>4, <1>6, <2>2 DEF busted, alive, k, new
<1>7. CASE Done(stack) /\ alive # {}
  <2>1. Cardinality(alive) = 1
    <3>1. Cardinality(alive) # 0 /\ Cardinality(alive) <= 1
      BY <1>1, <1>7, FS_EmptySet DEF Done, alive
    <3>. QED BY <1>1, <3>1
  <2>. DEFINE w == CHOOSE q \in alive : TRUE
  <2>2. w \in alive
    BY <1>7
  <2>3. win = [i \in 1 .. 1 |-> [player |-> sitter[w], place |-> 1, batch |-> 0,
                                 start |-> seated[w]]]
    BY <2>1 DEF WinnerOf
  <2>4. sitter[w] \in Players /\ seated[w] \in Nat
    BY <1>1, <2>2, ChairsFinite DEF SngInv
  <2>. HIDE DEF w
  <2>5. /\ win \in Seq(Finisher) /\ Len(win) = 1 /\ win[1].player = sitter[w]
        /\ win[1].place = 1 /\ win[1].batch = 0
    <3>1. win[1] = [player |-> sitter[w], place |-> 1, batch |-> 0, start |-> seated[w]]
      BY <2>3
    <3>2. win[1] \in Finisher
      BY <2>4, <3>1 DEF Finisher
    <3>3. DOMAIN win = 1 .. 1 /\ win \in [1 .. 1 -> Finisher]
      BY <2>3, <3>2
    <3>4. win \in Seq(Finisher) /\ Len(win) = 1
      <4>. HIDE DEF win
      <4>. QED BY <3>3, Listed
    <3>5. win[1].player = sitter[w] /\ win[1].place = 1 /\ win[1].batch = 0
      BY <3>1
    <3>. QED BY <3>4, <3>5
  <2>. HIDE DEF win
  <2>6. /\ placed \o win \in Seq(Finisher) /\ Len(placed \o win) = eliminated + k + 1
        /\ \A i \in 1 .. eliminated + k : (placed \o win)[i] = placed[i]
        /\ (placed \o win)[eliminated + k + 1] = win[1]
    <3>1. eliminated + k \in Nat /\ placed \in Seq(Finisher) /\ Len(placed) = eliminated + k
      BY <1>1, <1>4
    <3>2. /\ placed \o win \in Seq(Finisher) /\ Len(placed \o win) = eliminated + k + Len(win)
          /\ \A i \in 1 .. eliminated + k : (placed \o win)[i] = placed[i]
          /\ \A i \in 1 .. Len(win) : (placed \o win)[eliminated + k + i] = win[i]
      <4>1. win \in Seq(Finisher)
        BY <2>5
      <4>. QED BY ONLY <3>1, <4>1, Joined
    <3>3. Len(win) = 1 /\ 1 \in 1 .. Len(win)
      BY <2>5
    <3>4. (placed \o win)[eliminated + k + 1] = win[1]
      BY <3>2, <3>3
    <3>5. Len(placed \o win) = eliminated + k + 1
      BY <3>2, <3>3
    <3>. QED BY <3>2, <3>4, <3>5
  <2>7. finishers' = placed \o win
    BY <1>3, <1>7
  <2>8. /\ finishers' \in Seq(Finisher) /\ Len(finishers') = eliminated + k + 1
        /\ \A i \in 1 .. eliminated : finishers'[i] = finishers[i]
        /\ \A i \in 1 .. k : finishers'[eliminated + i] = new[i]
        /\ finishers'[eliminated + k + 1] = win[1]
    <3>1. \A i \in 1 .. eliminated : i \in 1 .. eliminated + k
      BY <1>1
    <3>2. \A i \in 1 .. k : eliminated + i \in 1 .. eliminated + k
      BY <1>1
    <3>3. \A i \in 1 .. eliminated : finishers'[i] = finishers[i]
      BY <1>4, <2>6, <2>7, <3>1
    <3>4. \A i \in 1 .. k : finishers'[eliminated + i] = new[i]
      BY <1>4, <2>6, <2>7, <3>2
    <3>. QED BY <2>6, <2>7, <3>3, <3>4
  <2>. QED BY <1>3, <1>7, <2>2, <2>5, <2>8 DEF busted, alive, k, new
<1>. QED BY <1>5, <1>6, <1>7

\* Only the seats of T are left.
LEMMA WhoStays ==
  ASSUME SngInv, NEW stack, NEW accounts, NEW T, HandEnds(stack, accounts, T)
  PROVE  /\ DOMAIN seated' = T /\ DOMAIN sitter' = T /\ T \in SUBSET DOMAIN seated
         /\ seated' = [s \in T |-> stack[s]] /\ sitter' = [s \in T |-> sitter[s]]
         /\ \A s \in T : stack[s] \in Nat \ {0} /\ s \notin BustedIn(stack)
         /\ IsFiniteSet(T)
<1>1. T \in SUBSET AliveIn(stack) /\ AliveIn(stack) \in SUBSET DOMAIN seated /\ IsFiniteSet(T)
  BY HandCounts DEF HandEnds
<1>2. seated' = [s \in T |-> stack[s]] /\ sitter' = [s \in T |-> sitter[s]]
  BY DEF HandEnds, Stay, Restrict
<1>3. ASSUME NEW s \in T PROVE stack[s] \in Nat \ {0} /\ s \notin BustedIn(stack)
  <2>1. s \in DOMAIN stack /\ s \notin BustedIn(stack)
    BY <1>1 DEF AliveIn
  <2>2. stack[s] \in Nat
    BY <2>1 DEF HandEnds
  <2>. QED BY <2>1, <2>2 DEF BustedIn
<1>. QED BY <1>1, <1>2, <1>3

LEMMA HandTypes ==
  ASSUME SngInv, NEW stack, NEW accounts, NEW T, HandEnds(stack, accounts, T)
  PROVE  TypeOK'
<1>. DEFINE k == Cardinality(BustedIn(stack))
            a == Cardinality(AliveIn(stack))
            t == Cardinality(T)
<1>1. /\ k \in Nat /\ a \in Nat /\ t \in Nat /\ t <= a
      /\ a + k + eliminated + leaves = Entrants + returns
      /\ eliminated' = eliminated + k /\ status = "Running"
      /\ batch' = IF BustedIn(stack) # {} THEN batch + 1 ELSE batch
      /\ status' = IF Done(stack) THEN "Complete" ELSE status
      /\ leaves' = leaves + a - t /\ returns' = returns
  BY HandCounts DEF HandEnds
<1>2. BustedIn(stack) # {} => k # 0
  BY HandCounts, FS_EmptySet
<1>3. /\ Entrants \in Nat /\ eliminated \in Nat /\ leaves \in Nat /\ returns \in Nat
      /\ batch \in 0 .. eliminated
  BY Counts DEF SngInv, TypeOK
<1>. HIDE DEF k, a, t
<1>4. eliminated' \in 0 .. Entrants + returns' /\ leaves' \in Nat /\ returns' \in Nat
  BY <1>1, <1>3
<1>5. batch' \in 0 .. eliminated'
  BY <1>1, <1>2, <1>3
<1>6. status' \in Statuses
  BY <1>1 DEF Statuses
<1>7. /\ DOMAIN seated' \subseteq Chairs /\ seated' \in [DOMAIN seated' -> Nat \ {0}]
      /\ sitter' \in [DOMAIN seated' -> Players]
  <2>1. \A s \in T : s \in Chairs /\ sitter[s] \in Players
    BY WhoStays, ChairsFinite DEF SngInv
  <2>. QED BY <2>1, WhoStays
<1>8. finishers' \in Seq(Finisher)
  BY NewFinishers
<1>9. ledger' \in [Players -> Nat]
  <2>1. accounts \in [Players -> Nat] /\ prizePool \in Nat
    BY Counts DEF HandEnds, SngInv
  <2>2. \A p : PrizeFor(p, finishers') \in Nat
    BY <1>8, <2>1, PrizeForNat
  <2>3. ledger' = IF Done(stack)
                    THEN [p \in Players |-> accounts[p] + PrizeFor(p, finishers')]
                    ELSE accounts
    BY NewFinishers
  <2>4. \A p \in Players : accounts[p] \in Nat
    BY <2>1
  <2>5. [p \in Players |-> accounts[p] + PrizeFor(p, finishers')] \in [Players -> Nat]
    BY <2>2, <2>4
  <2>. QED BY <2>1, <2>3, <2>5
<1>10. dealing' \in BOOLEAN
  BY DEF HandEnds, OnHandComplete
<1>11. /\ listed' \in BOOLEAN /\ overdue' \in BOOLEAN /\ registered' \in Seq(Players)
       /\ prizePool' \in Nat /\ pc' \in [Players -> {"idle", "found"}] /\ up' \in BOOLEAN
       /\ late' \in BOOLEAN /\ pot' \in Nat /\ leaked' \in Int
  BY DEF HandEnds, SngInv, TypeOK
<1>. QED BY <1>4, <1>5, <1>6, <1>7, <1>8, <1>9, <1>10, <1>11 DEF TypeOK

LEMMA HandSeats ==
  ASSUME SngInv, NEW stack, NEW accounts, NEW T, HandEnds(stack, accounts, T)
  PROVE  SignUpsOK' /\ SeatsOK'
<1>. DEFINE k == Cardinality(BustedIn(stack))
            a == Cardinality(AliveIn(stack))
            t == Cardinality(T)
<1>1. /\ k \in Nat /\ a \in Nat /\ t \in Nat /\ t <= a
      /\ a + k + eliminated + leaves = Entrants + returns
      /\ eliminated' = eliminated + k /\ status = "Running"
      /\ leaves' = leaves + a - t /\ returns' = returns
      /\ status' = IF Done(stack) THEN "Complete" ELSE status
  BY HandCounts DEF HandEnds
<1>2. Entrants \in Nat /\ eliminated \in Nat /\ leaves \in Nat /\ returns \in Nat
  BY Counts DEF SngInv
<1>3. DOMAIN seated' = T
  BY WhoStays
<1>. HIDE DEF k, a
<1>4. t + eliminated' + leaves' = Entrants + returns'
  BY <1>1, <1>2
<1>5. returns' = 0 => \A s, u \in DOMAIN seated' : s # u => sitter'[s] # sitter'[u]
  BY <1>1, WhoStays DEF SngInv, SeatsOK
<1>6. leaves' = 0 => pot' = 0
  BY DEF HandEnds
<1>7. SeatsOK'
  BY <1>3, <1>4, <1>5, <1>6 DEF SeatsOK
<1>8. dealing' => up' /\ status' = "Running"
  <2>1. dealing' = (dealing /\ ~Done(stack)) /\ up' = up
    BY DEF HandEnds, OnHandComplete, Done, AliveIn, BustedIn
  <2>. QED BY <1>1, <2>1 DEF SngInv, SignUpsOK
<1>9. SignUpsOK'
  <2>1. registered' = registered /\ status' # "Registering"
    BY <1>1 DEF HandEnds
  <2>. QED BY <1>8, <2>1 DEF SngInv, SignUpsOK
<1>. QED BY <1>7, <1>9

LEMMA HandPlaces ==
  ASSUME SngInv, NEW stack, NEW accounts, NEW T, HandEnds(stack, accounts, T)
  PROVE  PlacesOK'
<1>. DEFINE busted == BustedIn(stack)
            alive == AliveIn(stack)
            k == Cardinality(busted)
            a == Cardinality(alive)
            e == eliminated
            fs == finishers'
            won == Done(stack) /\ alive # {}
<1>1. /\ k \in Nat /\ a \in Nat /\ a + k + e + leaves = Entrants + returns
      /\ e' = e + k /\ status = "Running" /\ leaves' = leaves + a - Cardinality(T)
      /\ Cardinality(T) \in Nat /\ Cardinality(T) <= a /\ returns' = returns
      /\ batch' = (IF busted # {} THEN batch + 1 ELSE batch)
      /\ status' = (IF Done(stack) THEN "Complete" ELSE status)
  BY HandCounts DEF HandEnds
<1>2. /\ Entrants \in Nat /\ e \in Nat /\ leaves \in Nat /\ returns \in Nat /\ batch \in Nat
  BY Counts DEF SngInv
<1>3. /\ IsFiniteSet(alive) /\ (alive = {} <=> a = 0)
      /\ (Done(stack) <=> a <= 1) /\ (busted = {} <=> k = 0)
  BY HandCounts, FS_EmptySet DEF Done
<1>4. /\ fs \in Seq(Finisher) /\ Len(fs) = e + k + (IF won THEN 1 ELSE 0)
      /\ \A i \in 1 .. e : fs[i] = finishers[i]
      /\ won => fs[e + k + 1].place = 1 /\ fs[e + k + 1].batch = 0
  BY NewFinishers
<1>5. \A j \in 1 .. k : /\ fs[e + j].place = Entrants - e - k + j
                        /\ fs[e + j].batch = batch + 1
  <2>1. busted \in SUBSET DOMAIN seated
    BY HandCounts
  <2>2. \A j \in 1 .. k : fs[e + j] = FinishersOf(busted)[j]
    BY NewFinishers
  <2>. QED BY <2>1, <2>2, RecordsOfBusted DEF SngInv
<1>6. \A i, j \in 1 .. k : fs[e + i].start > fs[e + j].start => i < j
  <2>1. busted \in SUBSET DOMAIN seated
    BY HandCounts
  <2>2. \A j \in 1 .. k : fs[e + j] = FinishersOf(busted)[j]
    BY NewFinishers
  <2>. QED BY <2>1, <2>2, RecordsOfBusted DEF SngInv
<1>7. /\ \A i \in 1 .. e : /\ finishers[i].batch \in 1 .. batch
                           /\ finishers[i].place \in Entrants - e + 1 .. Entrants
      /\ \A i, j \in 1 .. e : i # j => finishers[i].place # finishers[j].place
      /\ \A q \in Entrants - e + 1 .. Entrants : \E i \in 1 .. e : finishers[i].place = q
      /\ \A i, j \in 1 .. e :
           \/ finishers[i].batch > finishers[j].batch
           \/ /\ finishers[i].batch = finishers[j].batch
              /\ finishers[i].start > finishers[j].start
           => finishers[i].place < finishers[j].place
  BY DEF SngInv, PlacesOK
<1>. HIDE DEF busted, alive, k, a, e, fs, won
<1>8. /\ \A i \in 1 .. e : /\ fs[i].batch \in 1 .. batch
                           /\ fs[i].place \in Entrants - e + 1 .. Entrants
      /\ \A i, j \in 1 .. e : i # j => fs[i].place # fs[j].place
      /\ \A q \in Entrants - e + 1 .. Entrants : \E i \in 1 .. e : fs[i].place = q
      /\ \A i, j \in 1 .. e : fs[i].batch > fs[j].batch => fs[i].place < fs[j].place
      /\ \A i, j \in 1 .. e : fs[i].batch = fs[j].batch /\ fs[i].start > fs[j].start
                                => fs[i].place < fs[j].place
  BY ZenonT(60), <1>4, <1>7
<1>9. \A i \in 1 .. e + k : i \in 1 .. e \/ \E j \in 1 .. k : i = e + j
  <2>1. ASSUME NEW i \in 1 .. e + k, i \notin 1 .. e PROVE i - e \in 1 .. k /\ i = e + (i - e)
    BY <1>1, <1>2, <2>1
  <2>. QED BY <2>1
<1>10. \A i \in 1 .. e + k : /\ fs[i].batch \in 1 .. batch'
                             /\ fs[i].place \in Entrants - (e + k) + 1 .. Entrants
  <2>. SUFFICES ASSUME NEW i \in 1 .. e + k
               PROVE  /\ fs[i].batch \in 1 .. batch'
                      /\ fs[i].place \in Entrants - (e + k) + 1 .. Entrants
    OBVIOUS
  <2>1. CASE i \in 1 .. e
    <3>1. fs[i].batch \in 1 .. batch /\ fs[i].place \in Entrants - e + 1 .. Entrants
      BY <1>8, <2>1
    <3>. QED BY <1>1, <1>2, <3>1
  <2>2. ASSUME NEW j \in 1 .. k, i = e + j
        PROVE  /\ fs[i].batch \in 1 .. batch'
               /\ fs[i].place \in Entrants - (e + k) + 1 .. Entrants
    <3>1. fs[i].place = Entrants - e - k + j /\ fs[i].batch = batch + 1
      BY <1>5, <2>2
    <3>2. batch' = batch + 1
      BY <1>1, <1>3
    <3>. QED BY <1>1, <1>2, <3>1, <3>2
  <2>. QED BY <1>9, <2>1, <2>2
<1>11. \A i, j \in 1 .. e + k : i # j => fs[i].place # fs[j].place
  <2>. SUFFICES ASSUME NEW i \in 1 .. e + k, NEW j \in 1 .. e + k, i < j
               PROVE  fs[i].place # fs[j].place
    BY <1>1, <1>2
  <2>1. CASE j \in 1 .. e
    <3>1. i \in 1 .. e /\ i # j
      BY <1>2, <2>1
    <3>. QED BY <1>8, <2>1, <3>1
  <2>2. ASSUME NEW m \in 1 .. k, j = e + m PROVE fs[i].place # fs[j].place
    <3>1. fs[j].place = Entrants - e - k + m
      BY <1>5, <2>2
    <3>2. CASE i \in 1 .. e
      <4>1. fs[i].place \in Entrants - e + 1 .. Entrants
        BY <1>8, <3>2
      <4>. QED BY <1>1, <1>2, <3>1, <4>1
    <3>3. ASSUME NEW l \in 1 .. k, i = e + l PROVE fs[i].place # fs[j].place
      <4>1. fs[i].place = Entrants - e - k + l /\ l # m
        BY <1>5, <2>2, <3>3
      <4>. QED BY <1>1, <1>2, <3>1, <4>1
    <3>. QED BY <1>9, <3>2, <3>3
  <2>. QED BY <1>9, <2>1, <2>2
<1>12. \A q \in Entrants - (e + k) + 1 .. Entrants : \E i \in 1 .. e + k : fs[i].place = q
  <2>. SUFFICES ASSUME NEW q \in Entrants - (e + k) + 1 .. Entrants
               PROVE  \E i \in 1 .. e + k : fs[i].place = q
    OBVIOUS
  <2>1. CASE q \in Entrants - e + 1 .. Entrants
    <3>1. PICK i \in 1 .. e : fs[i].place = q
      BY <1>8, <2>1
    <3>2. i \in 1 .. e + k
      BY <1>1, <1>2
    <3>. QED BY <3>1, <3>2
  <2>2. CASE q \notin Entrants - e + 1 .. Entrants
    <3>. DEFINE j == q - (Entrants - e - k)
    <3>1. j \in 1 .. k /\ e + j \in 1 .. e + k /\ Entrants - e - k + j = q
      BY <1>1, <1>2, <2>2
    <3>. HIDE DEF j
    <3>2. fs[e + j].place = q
      BY <1>5, <3>1
    <3>. QED BY <3>1, <3>2
  <2>. QED BY <2>1, <2>2
<1>13. ASSUME NEW i \in 1 .. e + k, NEW j \in 1 .. e + k,
              \/ fs[i].batch > fs[j].batch
              \/ fs[i].batch = fs[j].batch /\ fs[i].start > fs[j].start
       PROVE  fs[i].place < fs[j].place
  <2>1. CASE i \in 1 .. e /\ j \in 1 .. e
    BY <1>8, <1>13, <2>1
  <2>2. ASSUME NEW m \in 1 .. k, j = e + m, i \in 1 .. e PROVE fs[i].place < fs[j].place
    <3>1. fs[i].batch \in 1 .. batch /\ fs[j].batch = batch + 1
      BY <1>5, <1>8, <2>2
    <3>. QED BY <1>2, <1>13, <3>1
  <2>3. ASSUME NEW l \in 1 .. k, i = e + l, j \in 1 .. e PROVE fs[i].place < fs[j].place
    <3>1. fs[i].place = Entrants - e - k + l /\ fs[j].place \in Entrants - e + 1 .. Entrants
      BY <1>5, <1>8, <2>3
    <3>. QED BY <1>1, <1>2, <3>1
  <2>4. ASSUME NEW l \in 1 .. k, i = e + l, NEW m \in 1 .. k, j = e + m
        PROVE  fs[i].place < fs[j].place
    <3>1. fs[i].place = Entrants - e - k + l /\ fs[j].place = Entrants - e - k + m
      BY <1>5, <2>4
    <3>2. fs[i].batch = batch + 1 /\ fs[j].batch = batch + 1
      BY <1>5, <2>4
    <3>3. l < m
      BY <1>2, <1>6, <1>13, <2>4, <3>2
    <3>. QED BY <1>1, <1>2, <3>1, <3>3
  <2>. QED BY <1>9, <2>1, <2>2, <2>3, <2>4
<1>14. \A i \in DOMAIN fs : i > e + k =>
         /\ fs[i].batch = 0 /\ fs[i].place = 1 /\ status' = "Complete"
         /\ returns' = 0 => e + k < Entrants
  <2>. SUFFICES ASSUME NEW i \in DOMAIN fs, i > e + k
               PROVE  /\ fs[i].batch = 0 /\ fs[i].place = 1 /\ status' = "Complete"
                      /\ returns' = 0 => e + k < Entrants
    OBVIOUS
  <2>1. won /\ i = e + k + 1
    <3>1. i \in 1 .. Len(fs) /\ Len(fs) = e + k + (IF won THEN 1 ELSE 0)
      BY <1>4
    <3>. QED BY <1>1, <1>2, <3>1
  <2>2. fs[i].batch = 0 /\ fs[i].place = 1
    BY <1>4, <2>1
  <2>3. status' = "Complete" /\ a # 0
    BY <1>1, <1>3, <2>1 DEF won
  <2>4. returns' = 0 => e + k < Entrants
    BY <1>1, <1>2, <2>3
  <2>. QED BY <2>2, <2>3, <2>4
<1>15. status' = "Complete" /\ Undisturbed' => Len(fs) = e + k + 1 /\ e + k + 1 = Entrants
  <2>. SUFFICES ASSUME status' = "Complete", leaves' = 0, returns' = 0
               PROVE  Len(fs) = e + k + 1 /\ e + k + 1 = Entrants
    BY DEF Undisturbed
  <2>1. Done(stack)
    BY <1>1
  <2>2. leaves = 0 /\ returns = 0
    BY <1>1, <1>2
  <2>3. alive # {}
    BY <2>2 DEF HandEnds, Undisturbed, alive
  <2>4. won /\ a = 1
    BY <1>1, <1>3, <2>1, <2>3 DEF won
  <2>. QED BY <1>1, <1>2, <1>4, <2>2, <2>4
<1>16. Len(fs) \in e + k .. e + k + 1
  BY SMTT(30), <1>1, <1>2, <1>4
<1>17. eliminated' = e + k
  BY <1>1 DEF e
<1>. QED BY <1>10, <1>11, <1>12, <1>13, <1>14, <1>15, <1>16, <1>17 DEF PlacesOK, fs

LEMMA HandFinishers ==
  ASSUME SngInv, NEW stack, NEW accounts, NEW T, HandEnds(stack, accounts, T)
  PROVE  FinishersOK'
<1>. SUFFICES ASSUME returns' = 0
             PROVE  /\ DistinctPlayers(finishers')
                    /\ \A i \in 1 .. eliminated', s \in DOMAIN seated' :
                         finishers'[i].player # sitter'[s]
  BY DEF FinishersOK, DistinctPlayers
<1>. DEFINE busted == BustedIn(stack)
            alive == AliveIn(stack)
            k == Cardinality(busted)
            e == eliminated
            fs == finishers'
            won == Done(stack) /\ alive # {}
<1>1. /\ k \in Nat /\ e \in Nat /\ Len(finishers) = e /\ returns = 0
      /\ eliminated' = e + k /\ busted \in SUBSET DOMAIN seated /\ alive \in SUBSET DOMAIN seated
      /\ alive = DOMAIN seated \ busted
  BY HandCounts, Counts DEF HandEnds, SngInv, AliveIn
<1>2. /\ DOMAIN finishers = 1 .. e
      /\ \A i, j \in 1 .. e : i # j => finishers[i].player # finishers[j].player
      /\ \A i \in 1 .. e, s \in DOMAIN seated : finishers[i].player # sitter[s]
      /\ \A s, u \in DOMAIN seated : s # u => sitter[s] # sitter[u]
  BY <1>1, Counts DEF SngInv, FinishersOK, SeatsOK
<1>3. /\ fs \in Seq(Finisher) /\ Len(fs) = e + k + (IF won THEN 1 ELSE 0)
      /\ \A i \in 1 .. e : fs[i].player = finishers[i].player
      /\ won => \E s \in alive : fs[e + k + 1].player = sitter[s]
  BY NewFinishers
<1>4. /\ \A j \in 1 .. k : /\ SeatAt(busted, j) \in busted
                           /\ fs[e + j].player = sitter[SeatAt(busted, j)]
      /\ \A i, j \in 1 .. k : i # j => SeatAt(busted, i) # SeatAt(busted, j)
  <2>1. \A j \in 1 .. k : fs[e + j] = FinishersOf(busted)[j]
    BY NewFinishers
  <2>. QED BY <1>1, <2>1, RecordsOfBusted DEF SngInv
<1>5. \A s \in DOMAIN seated' : sitter'[s] = sitter[s] /\ s \in DOMAIN seated /\ s \notin busted
  BY WhoStays
<1>. DEFINE seat(j) == SeatAt(busted, j)
<1>. HIDE DEF busted, alive, k, e, fs, won, seat
<1>6. \A i \in DOMAIN fs : \/ i \in 1 .. e
                           \/ \E j \in 1 .. k : i = e + j
                           \/ won /\ i = e + k + 1
  <2>1. ASSUME NEW i \in DOMAIN fs, i \notin 1 .. e
        PROVE  \/ i - e \in 1 .. k /\ i = e + (i - e)
               \/ won /\ i = e + k + 1
    <3>1. i \in 1 .. e + k + (IF won THEN 1 ELSE 0)
      BY <1>3
    <3>. QED BY <1>1, <2>1, <3>1
  <2>. QED BY <2>1
<1>7. \A j \in 1 .. k : /\ seat(j) \in busted /\ seat(j) \in DOMAIN seated
                        /\ fs[e + j].player = sitter[seat(j)]
  BY <1>1, <1>4 DEF seat
<1>8. \A i \in DOMAIN fs : i \in 1 .. e => \A s \in DOMAIN seated : fs[i].player # sitter[s]
  BY <1>2, <1>3
<1>9. ASSUME NEW i \in DOMAIN fs, NEW j \in DOMAIN fs, i < j
      PROVE  fs[i].player # fs[j].player
  <2>1. CASE j \in 1 .. e
    <3>1. i \in 1 .. e /\ i # j
      BY <1>1, <1>3, <1>9, <2>1
    <3>. QED BY <1>2, <1>3, <2>1, <3>1
  <2>2. ASSUME NEW m \in 1 .. k, j = e + m PROVE fs[i].player # fs[j].player
    <3>1. CASE i \in 1 .. e
      BY <1>7, <1>8, <2>2, <3>1
    <3>2. ASSUME NEW l \in 1 .. k, i = e + l PROVE fs[i].player # fs[j].player
      <4>1. l # m
        <5>1. l = m => i = j
          BY <2>2, <3>2
        <5>2. j \in Nat
          BY <1>1, <2>2
        <5>. QED BY <1>9, <5>1, <5>2
      <4>2. seat(l) # seat(m)
        BY <1>4, <4>1 DEF seat
      <4>. QED BY <1>2, <1>7, <2>2, <3>2, <4>2
    <3>3. i # e + k + 1
      BY <1>1, <1>3, <1>9, <2>2
    <3>. QED BY <1>6, <3>1, <3>2, <3>3
  <2>3. CASE won /\ j = e + k + 1
    <3>1. PICK w \in alive : fs[j].player = sitter[w]
      BY <1>3, <2>3
    <3>2. w \in DOMAIN seated /\ w \notin busted
      BY <1>1
    <3>3. CASE i \in 1 .. e
      BY <1>8, <3>1, <3>2, <3>3
    <3>4. ASSUME NEW l \in 1 .. k, i = e + l PROVE fs[i].player # fs[j].player
      BY <1>2, <1>7, <3>1, <3>2, <3>4
    <3>5. i # e + k + 1
      BY <1>1, <1>9, <2>3
    <3>. QED BY <1>6, <3>3, <3>4, <3>5
  <2>. QED BY <1>6, <2>1, <2>2, <2>3
<1>10. DistinctPlayers(fs)
  <2>1. \A i \in DOMAIN fs : i \in Nat
    BY <1>3
  <2>. QED BY <1>9, <2>1 DEF DistinctPlayers
<1>11. ASSUME NEW i \in 1 .. e + k, NEW s \in DOMAIN seated' PROVE fs[i].player # sitter'[s]
  <2>1. i \in DOMAIN fs /\ i # e + k + 1
    BY <1>1, <1>3
  <2>2. CASE i \in 1 .. e
    BY <1>5, <1>8, <2>1, <2>2
  <2>3. ASSUME NEW l \in 1 .. k, i = e + l PROVE fs[i].player # sitter'[s]
    BY <1>2, <1>5, <1>7, <2>3
  <2>. QED BY <1>6, <2>1, <2>2, <2>3
<1>. QED BY <1>1, <1>10, <1>11 DEF fs, e

LEMMA HandPool ==
  ASSUME SngInv, NEW stack, NEW accounts, NEW T, HandEnds(stack, accounts, T)
  PROVE  PoolOK'
<1>. SUFFICES ASSUME ~late' PROVE PoolOK'
  BY DEF PoolOK
<1>1. /\ ~late /\ status = "Running" /\ dealing /\ prizePool \in Nat /\ prizePool' = prizePool
      /\ registered' = registered /\ returns' = returns /\ leaked \in Int /\ leaked' \in Int
      /\ Minted \in Int /\ Minted' = Minted - leaked + leaked'
      /\ status' = (IF Done(stack) THEN "Complete" ELSE status)
      /\ dealing' = (dealing /\ ~Done(stack))
  <2>1. /\ ~late /\ dealing /\ prizePool' = prizePool /\ registered' = registered
        /\ returns' = returns /\ leaked' \in Int
    BY DEF HandEnds
  <2>2. /\ status = "Running" /\ prizePool \in Nat /\ leaked \in Int
        /\ status' = (IF Done(stack) THEN "Complete" ELSE status)
    BY HandCounts, Counts DEF SngInv, TypeOK
  <2>3. dealing' = (dealing /\ ~Done(stack))
    BY DEF HandEnds, OnHandComplete, Done, AliveIn, BustedIn
  <2>4. Cardinality(Players) * StartBalance \in Nat
    <3>1. Cardinality(Players) \in Nat /\ StartBalance \in Nat
      BY SitAndGoAssumption, FS_CardinalityType
    <3>. DEFINE n == Cardinality(Players)
    <3>. HIDE DEF n
    <3>2. n * StartBalance \in Nat
      BY <3>1 DEF n
    <3>. QED BY <3>2 DEF n
  <2>5. Minted \in Int /\ Minted' = Minted - leaked + leaked'
    BY <2>1, <2>2, <2>4 DEF Minted
  <2>. QED BY <2>1, <2>2, <2>3, <2>5
<1>2. /\ SumOver(ledger, Players) + BuyIn * Len(registered) = Minted
      /\ prizePool = BuyIn * Len(registered)
  BY <1>1 DEF SngInv, PoolOK
<1>3. /\ SumOver(ledger, Players) \in Int /\ SumOver(accounts, Players) \in Int
      /\ SumOver(accounts, Players) - leaked' = SumOver(ledger, Players) - leaked
  <2>1. IsFiniteSet(Players) /\ ledger \in [Players -> Nat] /\ accounts \in [Players -> Nat]
    BY SitAndGoAssumption DEF SngInv, TypeOK, HandEnds
  <2>2. \A p \in Players : ledger[p] \in Int /\ accounts[p] \in Int
    BY <2>1
  <2>. QED BY <2>1, <2>2, SumInt DEF HandEnds
<1>4. SumOver(accounts, Players) + prizePool = Minted'
  BY SMTT(30), <1>1, <1>2, <1>3
<1>5. CASE ~Done(stack)
  <2>1. ledger' = accounts /\ status' = "Running" /\ status' # "Complete"
    BY <1>1, <1>5, NewFinishers
  <2>. QED BY <1>1, <1>2, <1>4, <2>1 DEF PoolOK
<1>6. CASE Done(stack)
  <2>1. status' = "Complete" /\ ~dealing'
    BY <1>1, <1>6
  <2>2. ASSUME returns' = 0 PROVE SumOver(ledger', Players) + Unclaimed' = Minted'
    <3>. DEFINE fs == finishers'
                due == [p \in Players |-> PrizeFor(p, fs)]
    <3>1. fs \in Seq(Finisher) /\ ledger' = [p \in Players |-> accounts[p] + PrizeFor(p, fs)]
      BY <1>6, NewFinishers
    <3>2. DistinctPlayers(fs)
      BY <2>2, HandFinishers DEF FinishersOK, DistinctPlayers
    <3>3. DistinctPlaces(fs)
      <4>1. eliminated' \in Nat /\ Entrants \in Nat
        BY SMTT(30), HandCounts, Counts DEF SngInv
      <4>2. /\ Len(fs) \in eliminated' .. eliminated' + 1
            /\ \A i \in 1 .. eliminated' : fs[i].place \in Entrants - eliminated' + 1 .. Entrants
            /\ \A i \in DOMAIN fs : i > eliminated' => fs[i].place = 1 /\ eliminated' < Entrants
            /\ \A i, j \in 1 .. eliminated' : i # j => fs[i].place # fs[j].place
        BY <2>2, HandPlaces DEF PlacesOK
      <4>. HIDE DEF fs
      <4>. QED BY <3>1, <4>1, <4>2, PlacesApart
    <3>4. \A p \in Players : /\ due[p] = PrizeFor(p, fs) /\ due[p] \in Int /\ accounts[p] \in Int
                             /\ ledger'[p] = accounts[p] + due[p] /\ ledger'[p] \in Int
      <4>1. \A p \in Players : PrizeFor(p, fs) \in Nat
        BY <1>1, <3>1, PrizeForNat
      <4>2. \A p \in Players : accounts[p] \in Nat
        BY DEF HandEnds
      <4>. QED BY <3>1, <4>1, <4>2
    <3>5. Unclaimed' = prizePool - PrizesOf(Range(fs))
      BY <1>1 DEF Unclaimed, PrizesOf, PrizeOfPlace, Cuts
    <3>6. PrizesOf(Range(fs)) \in Nat
      BY <1>1, <3>1, FinishersFinite, PrizesOfNat
    <3>. HIDE DEF fs, due
    <3>7. SumOver(due, Players) = PrizesOf(Range(fs))
      BY <1>1, <3>1, <3>2, <3>3, <3>4, CreditsAddUp
    <3>8. SumOver(ledger', Players) = SumOver(accounts, Players) + SumOver(due, Players)
      BY <3>4, SitAndGoAssumption, SumPlus
    <3>. QED BY <1>1, <1>3, <1>4, <3>5, <3>6, <3>7, <3>8
  <2>. QED BY <2>1, <2>2 DEF PoolOK
<1>. QED BY <1>5, <1>6

LEMMA HandKeepsInv ==
  ASSUME SngInv, NEW stack, NEW accounts, NEW T, HandEnds(stack, accounts, T)
  PROVE  SngInv'
BY HandTypes, HandSeats, HandPlaces, HandFinishers, HandPool DEF SngInv

-----------------------------------------------------------------------------
(* The two ways a hand ends *)

\* What no all-in seat covers is less than what is at stake.
LEMMA CoveredSomewhere ==
  ASSUME TypeOK, NEW dealt \in SUBSET DOMAIN seated, NEW S \in SUBSET dealt, S # {}
  PROVE  Uncovered(S, dealt) \in Nat /\ Uncovered(S, dealt) < SumOver(seated, dealt)
<1>. DEFINE stacks == {seated[q] : q \in S}
            most == Max(stacks)
            over == [s \in dealt \ S |-> IF seated[s] > most THEN seated[s] - most ELSE 0]
<1>1. /\ IsFiniteSet(dealt) /\ IsFiniteSet(S) /\ IsFiniteSet(dealt \ S)
      /\ \A s \in dealt : seated[s] \in Nat \ {0} /\ seated[s] \in Int
  BY ChairsFinite, FS_Subset
<1>2. IsFiniteSet(stacks)
  BY <1>1, ImageFinite
<1>3. most \in Nat
  <2>1. stacks \in SUBSET Nat /\ stacks # {}
    BY <1>1
  <2>. HIDE DEF stacks
  <2>. QED BY <1>2, <2>1, MaxOfNat
<1>4. Uncovered(S, dealt) = SumOver(over, dealt \ S)
  BY DEF Uncovered
<1>. HIDE DEF most
<1>5. \A s \in dealt \ S : /\ over[s] \in Nat /\ over[s] \in Int /\ seated[s] \in Int
                           /\ over[s] <= seated[s]
  BY <1>1, <1>3
<1>. HIDE DEF over
<1>6. SumOver(over, dealt \ S) \in Nat /\ SumOver(over, dealt \ S) <= SumOver(seated, dealt \ S)
  BY <1>1, <1>5, SumNat, SumLE
<1>7. SumOver(seated, dealt) = SumOver(seated, S) + SumOver(seated, dealt \ S)
  BY <1>1, SumSplit
<1>8. SumOver(seated, S) \in Nat /\ SumOver(seated, S) > 0
  <2>1. PICK q \in S : TRUE
    OBVIOUS
  <2>2. seated[q] \in Nat \ {0} /\ \A s \in S : seated[s] \in Nat
    BY <1>1
  <2>3. seated[q] <= SumOver(seated, S) /\ SumOver(seated, S) \in Nat
    BY <1>1, <2>2, SumMember, SumNat
  <2>. QED BY <2>2, <2>3
<1>9. SumOver(seated, dealt \ S) \in Nat
  BY <1>1, SumNat
<1>. QED BY <1>4, <1>6, <1>7, <1>8, <1>9

\* With nothing of a leaver in the pot somebody has chips after the hand.
LEMMA SomebodyWins ==
  ASSUME TypeOK, pot = 0, NEW dealt \in SUBSET DOMAIN seated, dealt # {},
         NEW outcome \in Outcomes(dealt)
  PROVE  \E s \in dealt : outcome[s] > 0
<1>. DEFINE total == SumOver(seated, dealt)
            allIn == {S \in SUBSET dealt : Cardinality(S) >= 2}
            over == [S \in allIn |-> Uncovered(S, dealt)]
            losses == {0} \cup {Uncovered(S, dealt) : S \in allIn}
            n == Cardinality(dealt) + 1
<1>1. /\ IsFiniteSet(dealt) /\ n \in Nat
      /\ \A s \in dealt : seated[s] \in Nat \ {0}
  BY ChairsFinite
<1>2. total \in Nat /\ total > 0
  <2>1. PICK q \in dealt : TRUE
    OBVIOUS
  <2>2. seated[q] \in Nat \ {0} /\ \A s \in dealt : seated[s] \in Nat
    BY <1>1
  <2>3. seated[q] <= total /\ total \in Nat
    BY <1>1, <2>2, SumMember, SumNat
  <2>. HIDE DEF total
  <2>. QED BY <2>2, <2>3
<1>3. \A S \in allIn : Uncovered(S, dealt) \in Nat /\ Uncovered(S, dealt) < total
  <2>1. ASSUME NEW S \in allIn PROVE S # {}
    <3>1. Cardinality(S) # 0
      OBVIOUS
    <3>. QED BY <3>1, FS_EmptySet
  <2>. QED BY <2>1, CoveredSomewhere
<1>4. IsFiniteSet(losses)
  <2>1. IsFiniteSet(SUBSET dealt)
    BY <1>1, FS_SUBSET
  <2>2. IsFiniteSet(allIn)
    BY <2>1, FS_Subset
  <2>. HIDE DEF allIn
  <2>3. {Uncovered(S, dealt) : S \in allIn} = {over[S] : S \in allIn}
    OBVIOUS
  <2>. HIDE DEF over
  <2>4. IsFiniteSet({over[S] : S \in allIn})
    BY <2>2, ImageFinite
  <2>. DEFINE tops == {Uncovered(S, dealt) : S \in allIn}
  <2>5. IsFiniteSet(tops)
    BY <2>3, <2>4
  <2>6. losses = tops \cup {0}
    OBVIOUS
  <2>. HIDE DEF tops, losses
  <2>. QED BY <2>5, <2>6, FS_AddElement
<1>5. Max(losses) \in Nat /\ Max(losses) < total
  <2>1. losses \in SUBSET Nat /\ losses # {} /\ \A x \in losses : x < total
    BY <1>2, <1>3
  <2>. HIDE DEF losses
  <2>. QED BY <1>4, <2>1, MaxOfNat
<1>6. MostLost(dealt) = pot * n + Max(losses)
  BY DEF MostLost
<1>7. /\ \A s \in dealt : outcome[s] \in Nat
      /\ SumOver(outcome, dealt) \in (total + pot) - MostLost(dealt) .. total + pot
  <2>1. /\ outcome \in [dealt -> 0 .. total + pot]
        /\ SumOver(outcome, dealt) \in (total + pot) - MostLost(dealt) .. total + pot
    <3>1. /\ outcome \in [dealt -> 0 .. AtStake(dealt)]
          /\ SumOver(outcome, dealt) \in AtStake(dealt) - MostLost(dealt) .. AtStake(dealt)
      BY DEF Outcomes
    <3>. QED BY <3>1 DEF AtStake
  <2>2. total + pot \in Nat
    BY <1>2
  <2>. HIDE DEF total
  <2>. QED BY <2>1, <2>2
<1>. HIDE DEF total, losses, n
<1>8. MostLost(dealt) = Max(losses)
  BY <1>1, <1>5, <1>6
<1>9. SumOver(outcome, dealt) # 0
  BY <1>2, <1>5, <1>7, <1>8
<1>10. SUFFICES ASSUME \A s \in dealt : outcome[s] = 0 PROVE FALSE
  BY <1>7
<1>. QED BY <1>1, <1>9, <1>10, SumZero

\* The stacks a hand leaves.
LEMMA StacksOfHand ==
  ASSUME TypeOK, NEW dealt \in SUBSET DOMAIN seated, NEW outcome \in Outcomes(dealt)
  PROVE  /\ StacksAfter(dealt, outcome) \in [DOMAIN seated -> Nat]
         /\ \A s \in dealt : StacksAfter(dealt, outcome)[s] = outcome[s] /\ outcome[s] \in Nat
<1>1. \A s \in DOMAIN seated : seated[s] \in Nat
  BY ChairsFinite
<1>2. SumOver(seated, dealt) + pot \in Nat
  <2>1. IsFiniteSet(dealt) /\ \A s \in dealt : seated[s] \in Nat
    BY <1>1, ChairsFinite
  <2>2. SumOver(seated, dealt) \in Nat /\ pot \in Nat
    BY <2>1, SumNat, Counts
  <2>. QED BY <2>2
<1>3. \A s \in dealt : outcome[s] \in Nat
  <2>1. outcome \in [dealt -> 0 .. SumOver(seated, dealt) + pot]
    BY DEF Outcomes, AtStake
  <2>. QED BY <1>2, <2>1
<1>. QED BY <1>1, <1>3 DEF StacksAfter

Playable(dealt) == Cardinality(dealt) >= 2 \/ (pot > 0 /\ Cardinality(dealt) = 1)

LEMMA PlayHandEnds ==
  ASSUME SngInv, NEW dealt \in SUBSET DOMAIN seated, Playable(dealt),
         NEW outcome \in Outcomes(dealt), PlayHand(dealt, outcome)
  PROVE  HandEnds(StacksAfter(dealt, outcome), ledger, AliveIn(StacksAfter(dealt, outcome)))
<1>. DEFINE stack == StacksAfter(dealt, outcome)
            alive == AliveIn(stack)
<1>1. /\ stack \in [DOMAIN seated -> Nat]
      /\ \A s \in dealt : stack[s] = outcome[s] /\ outcome[s] \in Nat
  BY StacksOfHand DEF SngInv
<1>2. /\ dealing /\ OnHandComplete(stack, ledger) /\ pot' = 0
      /\ Stay({s \in DOMAIN seated : stack[s] > 0}, stack)
      /\ UNCHANGED <<listed, registered, prizePool, overdue, pc, up, histVars>>
  BY DEF PlayHand
<1>. HIDE DEF stack
<1>3. alive = {s \in DOMAIN seated : stack[s] > 0}
  BY <1>1 DEF AliveIn, BustedIn
<1>4. ledger \in [Players -> Nat] /\ leaked \in Int /\ leaves \in Nat
  BY DEF SngInv, TypeOK
<1>5. leaves' = leaves /\ leaked' = leaked /\ late' = late /\ returns' = returns
  BY <1>2 DEF histVars
<1>6. ASSUME Undisturbed PROVE alive # {}
  <2>1. pot = 0
    BY <1>6 DEF Undisturbed, SngInv, SeatsOK
  <2>2. dealt # {}
    BY <2>1, FS_EmptySet DEF Playable
  <2>3. PICK s \in dealt : outcome[s] > 0
    BY <2>1, <2>2, SomebodyWins DEF SngInv
  <2>. QED BY <1>1, <1>3, <2>3
<1>7. Cardinality(alive) \in Nat
  BY <1>3, ChairsFinite DEF SngInv
<1>8. leaves' = leaves + Cardinality(alive) - Cardinality(alive)
  BY <1>4, <1>5, <1>7
<1>. QED BY <1>1, <1>2, <1>3, <1>4, <1>5, <1>6, <1>8 DEF HandEnds, stack

LEMMA LeaveEndsHandEnds ==
  ASSUME SngInv, NEW dealt \in SUBSET DOMAIN seated, Playable(dealt),
         NEW outcome \in Outcomes(dealt), NEW s, NEW blind,
         LeaveEndsHand(s, dealt, outcome, blind)
  PROVE  HandEnds(StacksAfter(dealt, outcome), [ledger EXCEPT ![sitter[s]] = @ + outcome[s]],
                  {u \in DOMAIN seated \ {s} : StacksAfter(dealt, outcome)[u] > 0})
<1>. DEFINE stack == StacksAfter(dealt, outcome)
            alive == AliveIn(stack)
            accounts == [ledger EXCEPT ![sitter[s]] = @ + outcome[s]]
            rest == {u \in DOMAIN seated \ {s} : stack[u] > 0}
<1>1. /\ stack \in [DOMAIN seated -> Nat]
      /\ \A u \in dealt : stack[u] = outcome[u] /\ outcome[u] \in Nat
  BY StacksOfHand DEF SngInv
<1>2. /\ dealing /\ s \in dealt /\ \A u \in dealt \ {s} : outcome[u] > 0
      /\ blind \in 0 .. outcome[s] /\ OnHandComplete(stack, accounts) /\ Stay(rest, stack)
      /\ pot' = blind /\ leaves' = (IF outcome[s] > 0 THEN leaves + 1 ELSE leaves)
      /\ leaked' = leaked + outcome[s]
      /\ UNCHANGED <<listed, registered, prizePool, overdue, pc, up, late, returns>>
  BY DEF LeaveEndsHand
<1>. HIDE DEF stack
<1>3. alive = {u \in DOMAIN seated : stack[u] > 0}
  BY <1>1 DEF AliveIn, BustedIn
<1>4. /\ s \in DOMAIN seated /\ sitter[s] \in Players /\ outcome[s] \in Nat
      /\ stack[s] = outcome[s]
  BY <1>1, <1>2, ChairsFinite DEF SngInv
<1>5. ledger \in [Players -> Nat] /\ leaked \in Int /\ leaves \in Nat /\ IsFiniteSet(Players)
  BY SitAndGoAssumption DEF SngInv, TypeOK
<1>6. accounts \in [Players -> Nat]
  BY <1>4, <1>5
<1>7. SumOver(accounts, Players) = SumOver(ledger, Players) + outcome[s]
  <2>1. \A p \in Players : ledger[p] \in Int /\ accounts[p] \in Int
    BY <1>5, <1>6
  <2>2. \A p \in Players \ {sitter[s]} : accounts[p] = ledger[p]
    BY <1>5
  <2>3. accounts[sitter[s]] = ledger[sitter[s]] + outcome[s]
    BY <1>4, <1>5
  <2>. HIDE DEF accounts
  <2>4. SumOver(accounts, Players)
          = SumOver(ledger, Players) + (accounts[sitter[s]] - ledger[sitter[s]])
    BY ONLY <1>4, <1>5, <2>1, <2>2, SumChange
  <2>. QED BY <1>4, <1>5, <2>1, <2>3, <2>4
<1>8. SumOver(ledger, Players) \in Int
  BY <1>5, SumInt
<1>9. ASSUME Undisturbed PROVE alive # {}
  <2>1. pot = 0
    BY <1>9 DEF Undisturbed, SngInv, SeatsOK
  <2>2. Cardinality(dealt) >= 2
    BY <2>1 DEF Playable
  <2>3. dealt # {s}
    BY <2>2, FS_Singleton
  <2>4. PICK u \in dealt \ {s} : TRUE
    BY <1>2, <2>3
  <2>. QED BY <1>1, <1>2, <1>3, <2>4
<1>10. /\ rest \in SUBSET alive /\ IsFiniteSet(alive) /\ Cardinality(alive) \in Nat
       /\ Cardinality(rest) \in Nat
  BY <1>3, ChairsFinite DEF SngInv
<1>11. leaves' = leaves + Cardinality(alive) - Cardinality(rest)
  <2>1. rest = alive \ {s} /\ (s \in alive <=> outcome[s] > 0)
    BY <1>3, <1>4
  <2>2. Cardinality(alive \ {s})
          = IF s \in alive THEN Cardinality(alive) - 1 ELSE Cardinality(alive)
    BY <1>10, FS_RemoveElement
  <2>3. Cardinality(rest) = IF outcome[s] > 0 THEN Cardinality(alive) - 1 ELSE Cardinality(alive)
    BY <2>1, <2>2
  <2>. HIDE DEF rest, alive
  <2>. QED BY <1>2, <1>5, <1>10, <2>3
<1>12. pot' \in Nat /\ (leaves' = 0 => pot' = 0)
  BY <1>2, <1>4, <1>5
<1>13. SumOver(accounts, Players) - leaked' = SumOver(ledger, Players) - leaked /\ leaked' \in Int
  BY <1>2, <1>4, <1>5, <1>7, <1>8
<1>. QED BY <1>1, <1>2, <1>6, <1>9, <1>10, <1>11, <1>12, <1>13 DEF HandEnds, stack

-----------------------------------------------------------------------------
(* Refunds *)

\* Whoever is signed up gets its buy-in back once.
LEMMA RefundsAddUp ==
  ASSUME TypeOK, SignUpsOK
  PROVE  /\ Refunded \in [Players -> Nat]
         /\ SumOver(Refunded, Players) = SumOver(ledger, Players) + BuyIn * Len(registered)
<1>. DEFINE n == Len(registered)
            S == Range(registered)
            back == [p \in Players |-> IF p \in S THEN BuyIn ELSE 0]
            each == [p \in Players |-> BuyIn]
<1>1. /\ IsFiniteSet(Players) /\ BuyIn \in Nat /\ ledger \in [Players -> Nat]
      /\ registered \in Seq(Players) /\ DOMAIN registered = 1 .. n /\ n \in Nat
  BY SitAndGoAssumption, Counts DEF TypeOK
<1>2. S \in SUBSET Players
  BY <1>1 DEF Range
<1>3. IsFiniteSet(S) /\ Cardinality(S) = n
  <2>1. registered \in [1 .. n -> S] /\ \A x \in S : \E i \in 1 .. n : registered[i] = x
    BY <1>1 DEF Range
  <2>2. \A i, j \in 1 .. n : i # j => registered[i] # registered[j]
    BY <1>1 DEF SignUpsOK
  <2>. HIDE DEF S, n
  <2>3. registered \in Surjection(1 .. n, S) /\ registered \in Injection(1 .. n, S)
    BY <2>1, <2>2 DEF Surjection, Injection, IsInjective
  <2>4. IsFiniteSet(1 .. n) /\ Cardinality(1 .. n) = n
    BY <1>1, FS_Interval
  <2>. QED BY <2>3, <2>4, FS_Surjection
<1>4. \A p \in Players : /\ ledger[p] \in Int /\ back[p] \in Int /\ Refunded[p] = ledger[p] + back[p]
                         /\ Refunded[p] \in Int /\ each[p] \in Int /\ each[p] = BuyIn
                         /\ back[p] = IF p \in S THEN each[p] ELSE 0
  BY <1>1 DEF Refunded
<1>5. Refunded \in [Players -> Nat]
  BY <1>1 DEF Refunded
<1>. HIDE DEF n, S, back, each
<1>6. SumOver(Refunded, Players) = SumOver(ledger, Players) + SumOver(back, Players)
  BY <1>1, <1>4, SumPlus
<1>7. SumOver(each, S) = SumOver(back, Players)
  BY <1>1, <1>2, <1>4, SumPart
<1>8. SumOver(each, S) = BuyIn * Cardinality(S)
  <2>1. \A p \in S : each[p] = BuyIn
    BY <1>2, <1>4
  <2>2. BuyIn \in Int /\ IsFiniteSet(S)
    BY <1>1, <1>3
  <2>. QED BY ONLY <2>1, <2>2, SumConst
<1>. QED BY <1>3, <1>5, <1>6, <1>7, <1>8 DEF n

\* A refund pays back what is held and leaves nothing signed up.
LEMMA RefundKeepsInv ==
  ASSUME SngInv, Reap \/ Shutdown
  PROVE  SngInv'
<1>. USE DEF SngInv
<1>1. /\ listed' = FALSE
      /\ UNCHANGED <<status, prizePool, overdue, pc, tableVars, ctlVars, histVars>>
      /\ \/ status # "Complete" /\ ~dealing /\ registered' = <<>> /\ ledger' = Refunded
         \/ status = "Complete" /\ UNCHANGED <<registered, ledger>>
  <2>1. CASE Reap
    <3>1. status # "Running" /\ status \in Statuses
      BY <2>1 DEF Reap, Reapable, TypeOK
    <3>. QED BY <2>1, <3>1 DEF Reap, SignUpsOK, Statuses
  <2>2. CASE Shutdown
    BY <2>2 DEF Shutdown, SignUpsOK
  <2>. QED BY <2>1, <2>2
<1>2. UNCHANGED <<seated, sitter, pot, dealing, up, eliminated, batch, finishers, late, leaves,
                  returns, leaked, status, prizePool, overdue, pc>>
  BY <1>1 DEF tableVars, ctlVars, histVars
<1>3. Refunded \in [Players -> Nat]
      /\ SumOver(Refunded, Players) = SumOver(ledger, Players) + BuyIn * Len(registered)
  BY RefundsAddUp
<1>4. TypeOK'
  <2>1. registered' \in Seq(Players) /\ ledger' \in [Players -> Nat]
    <3>1. registered \in Seq(Players) /\ ledger \in [Players -> Nat] /\ <<>> \in Seq(Players)
      BY DEF TypeOK
    <3>. QED BY <1>1, <1>3, <3>1
  <2>. QED BY <1>1, <1>2, <2>1 DEF TypeOK
<1>5. SeatsOK' /\ PlacesOK' /\ FinishersOK'
  BY <1>2 DEF SeatsOK, PlacesOK, FinishersOK, Undisturbed
<1>6. SignUpsOK'
  <2>1. CASE UNCHANGED registered
    BY <1>2, <2>1 DEF SignUpsOK
  <2>2. CASE registered' = <<>>
    <3>1. Len(registered') = 0 /\ DOMAIN registered' = {} /\ Entrants \in Nat /\ Entrants > 0
      BY <2>2, SitAndGoAssumption
    <3>. QED BY <1>2, <3>1 DEF SignUpsOK
  <2>. QED BY <1>1, <2>1, <2>2
<1>7. Unclaimed' = Unclaimed /\ Minted' = Minted
  BY <1>2 DEF Unclaimed, PrizesOf, PrizeOfPlace, Cuts, Minted
<1>8. PoolOK'
  <2>1. CASE UNCHANGED <<registered, ledger>> /\ status = "Complete"
    BY <1>1, <1>2, <1>7, <2>1 DEF PoolOK, SignUpsOK
  <2>2. CASE status # "Complete" /\ ~dealing /\ registered' = <<>> /\ ledger' = Refunded
    <3>1. BuyIn * Len(registered') = 0 /\ SumOver(ledger', Players) \in Int
      <4>1. Len(registered') = 0 /\ BuyIn \in Nat
        BY <2>2, SitAndGoAssumption
      <4>2. \A p \in Players : ledger'[p] \in Int
        BY <1>4 DEF TypeOK
      <4>. QED BY <4>1, <4>2, SitAndGoAssumption, SumInt
    <3>2. ~late => SumOver(ledger', Players) = Minted
      BY <1>3, <2>2 DEF PoolOK
    <3>. QED BY <1>1, <1>2, <1>7, <2>2, <3>1, <3>2 DEF PoolOK
  <2>. QED BY <1>1, <2>1, <2>2
<1>. QED BY <1>4, <1>5, <1>6, <1>8

-----------------------------------------------------------------------------
(* The other steps *)

LEMMA InvInit == Init => SngInv
<1>. SUFFICES ASSUME Init PROVE SngInv
  OBVIOUS
<1>. USE DEF Init
<1>1. /\ IsFiniteSet(Players) /\ StartBalance \in Nat /\ Entrants \in Nat /\ Entrants > 0
      /\ BuyIn \in Nat
  BY SitAndGoAssumption
<1>2. DOMAIN seated = {} /\ DOMAIN sitter = {}
  BY DEF NoSeats
<1>3. TypeOK
  <2>1. <<>> \in Seq(Players) /\ <<>> \in Seq(Finisher)
    OBVIOUS
  <2>2. DOMAIN seated \subseteq Chairs /\ seated \in [DOMAIN seated -> Nat \ {0}]
        /\ sitter \in [DOMAIN seated -> Players]
    BY <1>2
  <2>3. eliminated \in 0 .. Entrants + returns /\ batch \in 0 .. eliminated
    BY <1>1
  <2>4. /\ listed \in BOOLEAN /\ overdue \in BOOLEAN /\ dealing \in BOOLEAN /\ up \in BOOLEAN
        /\ late \in BOOLEAN
    OBVIOUS
  <2>5. pc \in [Players -> {"idle", "found"}] /\ ledger \in [Players -> Nat]
    BY <1>1
  <2>6. /\ status \in Statuses /\ prizePool \in Nat /\ pot \in Nat /\ leaves \in Nat
        /\ returns \in Nat /\ leaked \in Int
    BY DEF Statuses
  <2>7. registered \in Seq(Players) /\ finishers \in Seq(Finisher)
    BY <2>1
  <2>. QED BY ONLY <2>2, <2>3, <2>4, <2>5, <2>6, <2>7 DEF TypeOK
<1>4. /\ Len(registered) = 0 /\ DOMAIN registered = {} /\ Len(finishers) = 0
      /\ DOMAIN finishers = {}
  OBVIOUS
<1>5. SignUpsOK
  BY <1>1, <1>2, <1>4 DEF SignUpsOK
<1>6. SeatsOK
  BY <1>2 DEF SeatsOK
<1>7. PlacesOK
  BY <1>1, <1>4 DEF PlacesOK
<1>8. FinishersOK
  BY <1>4 DEF FinishersOK
<1>9. PoolOK
  <2>1. Cardinality(Players) \in Nat
    BY <1>1, FS_CardinalityType
  <2>2. SumOver(ledger, Players) = StartBalance * Cardinality(Players)
    <3>1. \A p \in Players : ledger[p] = StartBalance
      OBVIOUS
    <3>2. StartBalance \in Int /\ IsFiniteSet(Players)
      BY <1>1
    <3>. QED BY ONLY <3>1, <3>2, SumConst
  <2>. DEFINE n == Cardinality(Players)
              all == SumOver(ledger, Players)
  <2>3. all = StartBalance * n /\ n \in Nat
    BY <2>1, <2>2
  <2>4. Minted = n * StartBalance + 0
    BY DEF Minted
  <2>. HIDE DEF n, all
  <2>5. n * StartBalance = StartBalance * n /\ StartBalance * n \in Nat /\ BuyIn * 0 = 0
    BY <1>1, <2>3
  <2>6. all + BuyIn * Len(registered) = Minted /\ prizePool = BuyIn * Len(registered)
    BY <1>4, <2>3, <2>4, <2>5
  <2>. QED BY <2>6 DEF PoolOK, all
<1>. QED BY <1>3, <1>5, <1>6, <1>7, <1>8, <1>9 DEF SngInv

\* The clock, a lookup and the draining of the table touch neither money nor seats.
LEMMA QuietKeepsInv ==
  ASSUME SngInv, \/ Expire \/ DrainTable \/ UNCHANGED vars
                 \/ \E p \in Players : Find(p)
  PROVE  SngInv'
<1>. USE DEF SngInv
<1>1. /\ overdue' \in BOOLEAN /\ pc' \in [Players -> {"idle", "found"}]
      /\ up' \in BOOLEAN /\ dealing' \in BOOLEAN
      /\ UNCHANGED <<up, dealing>> \/ (~up' /\ ~dealing')
      /\ UNCHANGED <<listed, status, registered, prizePool, ledger, seated, sitter, pot,
                     eliminated, batch, finishers, late, leaves, returns, leaked>>
  <2>. USE DEF sngVars, tableVars, ctlVars, histVars, TypeOK
  <2>1. CASE Expire
    BY <2>1 DEF Expire
  <2>2. CASE DrainTable
    BY <2>2 DEF DrainTable
  <2>3. CASE UNCHANGED vars
    BY <2>3 DEF vars
  <2>4. ASSUME NEW p \in Players, Find(p)
        PROVE  /\ pc' \in [Players -> {"idle", "found"}]
               /\ UNCHANGED <<overdue, up, dealing>>
               /\ UNCHANGED <<listed, status, registered, prizePool, ledger, seated, sitter, pot,
                              eliminated, batch, finishers, late, leaves, returns, leaked>>
    BY <2>4 DEF Find
  <2>. QED BY <2>1, <2>2, <2>3, <2>4
<1>2. TypeOK'
  BY <1>1 DEF TypeOK
<1>3. SignUpsOK'
  BY <1>1 DEF SignUpsOK
<1>4. SeatsOK' /\ PlacesOK' /\ FinishersOK'
  BY <1>1 DEF SeatsOK, PlacesOK, FinishersOK, Undisturbed
<1>5. Unclaimed' = Unclaimed /\ Minted' = Minted
  BY <1>1 DEF Unclaimed, PrizesOf, PrizeOfPlace, Cuts, Minted
<1>6. PoolOK'
  BY <1>1, <1>5 DEF PoolOK
<1>. QED BY <1>2, <1>3, <1>4, <1>6

\* A buy-in goes from the account to the pool; the last one seats everybody.
LEMMA SignupKeepsInv ==
  ASSUME SngInv, NEW p \in Players, Signup(p)
  PROVE  SngInv'
<1>. USE DEF SngInv
<1>. DEFINE accepted == /\ status = "Registering" /\ p \notin Range(registered)
                        /\ ledger[p] >= BuyIn
            n == Len(registered)
            full == n + 1 = Entrants
<1>1. /\ pc' \in [Players -> {"idle", "found"}]
      /\ UNCHANGED <<listed, pot, eliminated, batch, finishers, leaves, returns, leaked>>
  BY DEF Signup, ctlVars, tableVars, TypeOK
<1>2. CASE ~accepted
  <2>1. UNCHANGED <<registered, prizePool, ledger, late, status, overdue, seated, sitter, dealing, up>>
    BY <1>2 DEF Signup, tableVars
  <2>2. TypeOK'
    BY <1>1, <2>1 DEF TypeOK
  <2>3. SignUpsOK'
    BY <1>1, <2>1 DEF SignUpsOK
  <2>4. SeatsOK' /\ PlacesOK' /\ FinishersOK'
    BY <1>1, <2>1 DEF SeatsOK, PlacesOK, FinishersOK, Undisturbed
  <2>5. Unclaimed' = Unclaimed /\ Minted' = Minted
    BY <1>1, <2>1 DEF Unclaimed, PrizesOf, PrizeOfPlace, Cuts, Minted
  <2>6. PoolOK'
    BY <1>1, <2>1, <2>5 DEF PoolOK
  <2>. QED BY <2>2, <2>3, <2>4, <2>6
<1>3. CASE accepted
  <2>1. /\ registered' = Append(registered, p) /\ prizePool' = prizePool + BuyIn
        /\ ledger' = [ledger EXCEPT ![p] = @ - BuyIn] /\ late' = (late \/ ~listed)
        /\ status' = (IF full THEN "Running" ELSE status) /\ overdue' = (overdue /\ ~full)
        /\ seated' = (IF full THEN Seating ELSE seated)
        /\ sitter' = (IF full THEN registered' ELSE sitter)
        /\ dealing' = full /\ up' = full
    BY <1>3 DEF Signup
  <2>2. /\ n \in Nat /\ n < Entrants /\ Entrants \in Nat /\ BuyIn \in Nat /\ prizePool \in Nat
        /\ registered \in Seq(Players) /\ DOMAIN registered = 1 .. n
        /\ ledger \in [Players -> Nat] /\ ledger[p] >= BuyIn /\ IsFiniteSet(Players)
        /\ StartingStack \in Nat \ {0}
    BY <1>3, SitAndGoAssumption, Counts DEF SignUpsOK, TypeOK
  <2>3. /\ DOMAIN seated = {} /\ pot = 0 /\ ~dealing /\ ~up /\ eliminated = 0 /\ finishers = <<>>
        /\ leaves = 0 /\ returns = 0 /\ status = "Registering"
    BY <1>3 DEF SignUpsOK
  <2>4. /\ registered' \in Seq(Players) /\ Len(registered') = n + 1
        /\ DOMAIN registered' = 1 .. n + 1
        /\ \A i \in 1 .. n : registered'[i] = registered[i]
        /\ registered'[n + 1] = p
    BY <2>1, <2>2
  <2>5. \A i, j \in 1 .. n + 1 : i # j => registered'[i] # registered'[j]
    <3>1. \A i \in 1 .. n : registered[i] # p
      BY <1>3, <2>2 DEF Range
    <3>2. \A i, j \in 1 .. n : i # j => registered[i] # registered[j]
      BY <2>2 DEF SignUpsOK
    <3>3. \A i \in 1 .. n + 1 : i \in 1 .. n \/ i = n + 1
      BY <2>2
    <3>. HIDE DEF n
    <3>. QED BY <2>4, <3>1, <3>2, <3>3
  <2>. HIDE DEF n, accepted, full
  <2>6. /\ full => DOMAIN seated' = Chairs /\ DOMAIN registered' = Chairs
                   /\ sitter' = registered' /\ \A s \in Chairs : seated'[s] = StartingStack
        /\ full => n + 1 = Entrants
        /\ ~full => seated' = seated /\ sitter' = sitter /\ n + 1 # Entrants
    <3>1. full => n + 1 = Entrants
      BY DEF full, n
    <3>2. ~full => n + 1 # Entrants
      BY DEF full, n
    <3>. QED BY <2>1, <2>4, <3>1, <3>2 DEF Seating, Chairs
  <2>7. ledger' \in [Players -> Nat] /\ ledger'[p] = ledger[p] - BuyIn
    BY <2>1, <2>2
  <2>8. /\ DOMAIN seated' \subseteq Chairs /\ seated' \in [DOMAIN seated' -> Nat \ {0}]
        /\ sitter' \in [DOMAIN seated' -> Players]
    <3>1. CASE full
      <4>1. seated' = [s \in Chairs |-> StartingStack] /\ sitter' = registered'
        BY <2>1, <3>1 DEF Seating
      <4>2. registered' \in [Chairs -> Players]
        BY <2>4, <2>6, <3>1
      <4>. QED BY <2>2, <4>1, <4>2
    <3>2. CASE ~full
      BY <2>6, <3>2 DEF TypeOK
    <3>. QED BY <3>1, <3>2
  <2>9. TypeOK'
    <3>1. status' \in Statuses /\ prizePool' \in Nat /\ late' \in BOOLEAN /\ overdue' \in BOOLEAN
          /\ dealing' \in BOOLEAN /\ up' \in BOOLEAN
      <4>1. status' \in Statuses /\ prizePool' \in Nat
        BY <2>1, <2>2, <2>3 DEF Statuses
      <4>2. full \in BOOLEAN
        BY DEF full
      <4>3. late \in BOOLEAN /\ overdue \in BOOLEAN /\ listed \in BOOLEAN
        BY DEF TypeOK
      <4>4. late' \in BOOLEAN /\ overdue' \in BOOLEAN
        BY <2>1, <4>2, <4>3
      <4>. QED BY <2>1, <4>1, <4>2, <4>4
    <3>2. /\ listed' \in BOOLEAN /\ pot' \in Nat /\ eliminated' \in 0 .. Entrants + returns'
          /\ batch' \in 0 .. eliminated' /\ finishers' \in Seq(Finisher) /\ leaves' \in Nat
          /\ returns' \in Nat /\ leaked' \in Int
      BY <1>1 DEF TypeOK
    <3>. QED BY <1>1, <2>4, <2>7, <2>8, <3>1, <3>2 DEF TypeOK
  <2>10. SignUpsOK'
    <3>1. Len(registered') <= Entrants /\ (status' = "Registering" => Len(registered') < Entrants)
      BY <2>1, <2>2, <2>3, <2>4, <2>6
    <3>2. \A i, j \in DOMAIN registered' : i # j => registered'[i] # registered'[j]
      BY <2>4, <2>5
    <3>3. status' = "Registering" => ~full
      BY <2>1
    <3>4. dealing' => up' /\ status' = "Running"
      BY <2>1
    <3>. QED BY <1>1, <2>1, <2>3, <2>6, <3>1, <3>2, <3>3, <3>4 DEF SignUpsOK
  <2>11. SeatsOK'
    <3>1. CASE full
      <4>1. Cardinality(Chairs) = Entrants
        BY <2>2, FS_Interval DEF Chairs
      <4>2. \A s, u \in DOMAIN seated' : s # u => sitter'[s] # sitter'[u]
        BY <2>4, <2>5, <2>6, <3>1
      <4>. QED BY <1>1, <2>2, <2>3, <2>6, <3>1, <4>1, <4>2 DEF SeatsOK
    <3>2. CASE ~full
      <4>1. status' = "Registering"
        BY <2>1, <2>3, <3>2
      <4>. QED BY <1>1, <2>3, <2>6, <3>2, <4>1 DEF SeatsOK
    <3>. QED BY <3>1, <3>2
  <2>12. PlacesOK'
    <3>1. status' # "Complete"
      BY <2>1, <2>3
    <3>2. eliminated' = 0 /\ finishers' = <<>> /\ Len(finishers') = 0 /\ DOMAIN finishers' = {}
      BY <1>1, <2>3
    <3>. QED BY <2>2, <3>1, <3>2 DEF PlacesOK
  <2>13. FinishersOK'
    <3>1. eliminated' = 0 /\ DOMAIN finishers' = {}
      BY <1>1, <2>3
    <3>. QED BY <3>1 DEF FinishersOK
  <2>14. PoolOK'
    <3>1. status' # "Complete" /\ Minted' = Minted
      BY <1>1, <2>1, <2>3 DEF Minted
    <3>2. SumOver(ledger', Players) = SumOver(ledger, Players) - BuyIn
          /\ SumOver(ledger, Players) \in Int
      <4>1. \A q \in Players : ledger[q] \in Int /\ ledger'[q] \in Int
        BY <2>2, <2>7
      <4>2. \A q \in Players \ {p} : ledger'[q] = ledger[q]
        BY <2>1, <2>2
      <4>3. SumOver(ledger', Players) = SumOver(ledger, Players) + (ledger'[p] - ledger[p])
        BY <2>2, <4>1, <4>2, SumChange
      <4>4. SumOver(ledger, Players) \in Int
        BY <2>2, <4>1, SumInt
      <4>. QED BY <2>2, <2>7, <4>1, <4>3, <4>4
    <3>3. BuyIn * Len(registered') = BuyIn * n + BuyIn /\ BuyIn * n \in Int
      BY <2>2, <2>4
    <3>4. ~late' => /\ SumOver(ledger, Players) + BuyIn * n = Minted
                    /\ prizePool = BuyIn * n
      BY <2>1, <2>3 DEF PoolOK, n
    <3>. QED BY <2>1, <2>2, <3>1, <3>2, <3>3, <3>4 DEF PoolOK
  <2>. QED BY <2>9, <2>10, <2>11, <2>12, <2>13, <2>14
<1>. QED BY <1>2, <1>3

\* A leaver takes its chips but for those in the pot of a hand that goes on.
LEMMA LeaveKeepsInv ==
  ASSUME SngInv, NEW s \in Chairs, NEW n, Leave(s, n)
  PROVE  SngInv'
<1>. USE DEF SngInv
<1>. DEFINE S == DOMAIN seated \ {s}
            back == seated[s] - n
<1>1. /\ up /\ s \in DOMAIN seated /\ n \in 0 .. seated[s] /\ pot' = pot + n
      /\ seated' = [u \in S |-> seated[u]] /\ sitter' = [u \in S |-> sitter[u]]
      /\ ledger' = [ledger EXCEPT ![sitter[s]] = @ + seated[s] - n]
      /\ leaves' = leaves + 1 /\ leaked' = leaked + seated[s] - n
      /\ UNCHANGED <<listed, status, registered, prizePool, overdue, pc, eliminated, batch,
                     finishers, late, returns, dealing, up>>
  BY DEF Leave, Stay, Restrict, sngVars, ctlVars
<1>2. /\ ledger \in [Players -> Nat] /\ leaked \in Int /\ leaves \in Nat /\ pot \in Nat
      /\ IsFiniteSet(Players) /\ eliminated \in Nat /\ returns \in Nat /\ Entrants \in Nat
  BY Counts, SitAndGoAssumption DEF TypeOK
<1>3. /\ sitter[s] \in Players /\ seated[s] \in Nat /\ back \in Nat /\ n \in Nat
      /\ ledger' = [ledger EXCEPT ![sitter[s]] = @ + back] /\ leaked' = leaked + back
  <2>1. seated[s] \in Nat /\ sitter[s] \in Players
    BY <1>1, ChairsFinite
  <2>2. n \in Nat /\ n <= seated[s] /\ back \in Nat
    BY <1>1, <2>1
  <2>3. \A x \in Int : x + seated[s] - n = x + back
    BY <2>1, <2>2
  <2>4. ledger[sitter[s]] \in Int
    BY <1>2, <2>1
  <2>. QED BY <1>1, <1>2, <2>1, <2>2, <2>3, <2>4
<1>. HIDE DEF back
<1>4. ledger' \in [Players -> Nat] /\ ledger'[sitter[s]] = ledger[sitter[s]] + back
  BY <1>2, <1>3
<1>5. TypeOK'
  <2>1. /\ DOMAIN seated' \subseteq Chairs /\ seated' \in [DOMAIN seated' -> Nat \ {0}]
        /\ sitter' \in [DOMAIN seated' -> Players]
    <3>1. \A u \in S : seated[u] \in Nat \ {0} /\ sitter[u] \in Players /\ u \in Chairs
      BY ChairsFinite
    <3>. QED BY <1>1, <3>1
  <2>2. pot' \in Nat /\ leaves' \in Nat /\ leaked' \in Int
    BY <1>1, <1>2, <1>3
  <2>3. /\ listed' \in BOOLEAN /\ status' \in Statuses /\ overdue' \in BOOLEAN
        /\ registered' \in Seq(Players) /\ prizePool' \in Nat
        /\ pc' \in [Players -> {"idle", "found"}] /\ dealing' \in BOOLEAN /\ up' \in BOOLEAN
        /\ eliminated' \in 0 .. Entrants + returns' /\ batch' \in 0 .. eliminated'
        /\ finishers' \in Seq(Finisher) /\ late' \in BOOLEAN /\ returns' \in Nat
    BY <1>1 DEF TypeOK
  <2>. QED BY <1>4, <2>1, <2>2, <2>3 DEF TypeOK
<1>6. status # "Registering"
  BY <1>1 DEF SignUpsOK
<1>7. SignUpsOK'
  BY <1>1, <1>6 DEF SignUpsOK
<1>8. SeatsOK'
  <2>. DEFINE m == Cardinality(DOMAIN seated)
  <2>1. Cardinality(DOMAIN seated') = m - 1 /\ m \in Nat
    <3>1. DOMAIN seated' = S /\ IsFiniteSet(DOMAIN seated) /\ Cardinality(DOMAIN seated) \in Nat
      BY <1>1, ChairsFinite
    <3>. QED BY <1>1, <3>1, FS_RemoveElement
  <2>2. m + eliminated + leaves = Entrants + returns
    BY <1>6 DEF SeatsOK
  <2>. HIDE DEF m
  <2>3. Cardinality(DOMAIN seated') + eliminated' + leaves' = Entrants + returns'
    BY <1>1, <1>2, <2>1, <2>2
  <2>4. leaves' # 0
    BY <1>1, <1>2
  <2>5. returns' = 0 => \A u, v \in DOMAIN seated' : u # v => sitter'[u] # sitter'[v]
    BY <1>1 DEF SeatsOK
  <2>. QED BY <2>3, <2>4, <2>5 DEF SeatsOK
<1>9. PlacesOK'
  <2>1. ~Undisturbed'
    BY <1>1, <1>2 DEF Undisturbed
  <2>. QED BY <1>1, <2>1 DEF PlacesOK
<1>10. FinishersOK'
  BY <1>1 DEF FinishersOK
<1>11. PoolOK'
  <2>1. Unclaimed' = Unclaimed
    BY <1>1 DEF Unclaimed, PrizesOf, PrizeOfPlace, Cuts
  <2>2. Minted' = Minted + back
    <3>1. Cardinality(Players) * StartBalance \in Int
      <4>1. Cardinality(Players) \in Int /\ StartBalance \in Int
        BY SitAndGoAssumption, FS_CardinalityType
      <4>2. \A x, y \in Int : x * y \in Int
        OBVIOUS
      <4>. QED BY <4>1, <4>2
    <3>. QED BY <1>2, <1>3, <3>1 DEF Minted
  <2>3. SumOver(ledger', Players) = SumOver(ledger, Players) + back
        /\ SumOver(ledger, Players) \in Int
    <3>1. \A q \in Players : ledger[q] \in Int /\ ledger'[q] \in Int
      BY <1>2, <1>4
    <3>. DEFINE owner == sitter[s]
    <3>2. /\ owner \in Players
          /\ IsFiniteSet(Players)
          /\ \A q \in Players \ {owner} : ledger'[q] = ledger[q]
      BY <1>2, <1>3, SitAndGoAssumption
    <3>. HIDE DEF owner
    <3>5. SumOver(ledger', Players) = SumOver(ledger, Players) + (ledger'[owner] - ledger[owner])
      BY ONLY <3>1, <3>2, SumChange
    <3>3. SumOver(ledger', Players)
            = SumOver(ledger, Players) + (ledger'[sitter[s]] - ledger[sitter[s]])
      BY ONLY <3>5 DEF owner
    <3>4. SumOver(ledger, Players) \in Int
      BY <1>2, <3>1, SumInt
    <3>. QED BY <1>3, <1>4, <3>1, <3>3, <3>4
  <2>4. ~late /\ status # "Complete" => SumOver(ledger', Players) + BuyIn * Len(registered) = Minted'
    <3>1. BuyIn * Len(registered) \in Int
      <4>1. BuyIn \in Int /\ Len(registered) \in Int
        BY SitAndGoAssumption, Counts
      <4>2. \A x, y \in Int : x * y \in Int
        OBVIOUS
      <4>. QED BY <4>1, <4>2
    <3>. DEFINE held == BuyIn * Len(registered)
    <3>2. ~late /\ status # "Complete" => SumOver(ledger, Players) + held = Minted
      BY DEF PoolOK
    <3>3. held \in Int
      BY <3>1
    <3>. HIDE DEF held
    <3>4. ~late /\ status # "Complete" => SumOver(ledger', Players) + held = Minted'
      BY <1>3, <2>2, <2>3, <3>2, <3>3
    <3>. QED BY <3>4 DEF held
  <2>5. ~late /\ status = "Complete" /\ returns = 0 =>
          SumOver(ledger', Players) + Unclaimed' = Minted'
    <3>1. Unclaimed \in Int
      <4>1. PrizesOf(Range(finishers)) \in Nat /\ prizePool \in Nat
        BY Counts, FinishersFinite, PrizesOfNat
      <4>. QED BY <4>1 DEF Unclaimed
    <3>2. ~late /\ status = "Complete" /\ returns = 0 =>
            SumOver(ledger, Players) + Unclaimed = Minted
      BY DEF PoolOK
    <3>. QED BY <1>3, <2>1, <2>2, <2>3, <3>1, <3>2
  <2>. QED BY <1>1, <2>4, <2>5 DEF PoolOK
<1>. QED BY <1>5, <1>7, <1>8, <1>9, <1>10, <1>11

\* Whoever sits down again brings chips of its own.
LEMMA SitDownKeepsInv ==
  ASSUME SngInv, NEW p \in Players, NEW s \in Chairs, NEW n \in TableBuyIns, SitDown(p, s, n)
  PROVE  SngInv'
<1>. USE DEF SngInv
<1>. DEFINE S == DOMAIN seated \cup {s}
<1>1. /\ up /\ s \notin DOMAIN seated /\ ledger[p] >= n
      /\ ledger' = [ledger EXCEPT ![p] = @ - n]
      /\ seated' = [u \in S |-> IF u = s THEN n ELSE seated[u]]
      /\ sitter' = [u \in S |-> IF u = s THEN p ELSE sitter[u]]
      /\ returns' = returns + 1 /\ leaked' = leaked - n
      /\ UNCHANGED <<listed, status, registered, prizePool, overdue, pc, eliminated, batch,
                     finishers, pot, late, leaves, dealing, up>>
  BY DEF SitDown, sngVars, ctlVars
<1>2. /\ ledger \in [Players -> Nat] /\ leaked \in Int /\ leaves \in Nat /\ pot \in Nat
      /\ IsFiniteSet(Players) /\ eliminated \in Nat /\ returns \in Nat /\ Entrants \in Nat
      /\ n \in Nat \ {0}
  BY Counts, SitAndGoAssumption DEF TypeOK
<1>3. ledger' \in [Players -> Nat] /\ ledger'[p] = ledger[p] - n
  BY <1>1, <1>2
<1>4. returns' # 0 /\ ~Undisturbed'
  BY <1>1, <1>2 DEF Undisturbed
<1>5. TypeOK'
  <2>1. /\ DOMAIN seated' \subseteq Chairs /\ seated' \in [DOMAIN seated' -> Nat \ {0}]
        /\ sitter' \in [DOMAIN seated' -> Players]
    <3>1. \A u \in DOMAIN seated : seated[u] \in Nat \ {0} /\ sitter[u] \in Players /\ u \in Chairs
      BY ChairsFinite
    <3>. QED BY <1>1, <1>2, <3>1
  <2>2. returns' \in Nat /\ leaked' \in Int /\ eliminated' \in 0 .. Entrants + returns'
    <3>1. eliminated \in 0 .. Entrants + returns
      BY DEF TypeOK
    <3>. QED BY <1>1, <1>2, <3>1
  <2>3. /\ listed' \in BOOLEAN /\ status' \in Statuses /\ overdue' \in BOOLEAN
        /\ registered' \in Seq(Players) /\ prizePool' \in Nat
        /\ pc' \in [Players -> {"idle", "found"}] /\ dealing' \in BOOLEAN /\ up' \in BOOLEAN
        /\ batch' \in 0 .. eliminated' /\ pot' \in Nat
        /\ finishers' \in Seq(Finisher) /\ late' \in BOOLEAN /\ leaves' \in Nat
    BY <1>1 DEF TypeOK
  <2>. QED BY <1>3, <2>1, <2>2, <2>3 DEF TypeOK
<1>6. status # "Registering"
  BY <1>1 DEF SignUpsOK
<1>7. SignUpsOK'
  BY <1>1, <1>6 DEF SignUpsOK
<1>8. SeatsOK'
  <2>. DEFINE m == Cardinality(DOMAIN seated)
  <2>1. Cardinality(DOMAIN seated') = m + 1 /\ m \in Nat
    <3>1. DOMAIN seated' = S /\ IsFiniteSet(DOMAIN seated) /\ Cardinality(DOMAIN seated) \in Nat
      BY <1>1, ChairsFinite
    <3>. QED BY <1>1, <3>1, FS_AddElement
  <2>2. m + eliminated + leaves = Entrants + returns
    BY <1>6 DEF SeatsOK
  <2>. HIDE DEF m
  <2>3. Cardinality(DOMAIN seated') + eliminated' + leaves' = Entrants + returns'
    BY <1>1, <1>2, <2>1, <2>2
  <2>. QED BY <1>1, <1>4, <2>3 DEF SeatsOK
<1>9. PlacesOK'
  BY <1>1, <1>4 DEF PlacesOK
<1>10. FinishersOK'
  BY <1>4 DEF FinishersOK
<1>11. PoolOK'
  <2>1. Minted' = Minted - n
    <3>1. Cardinality(Players) * StartBalance \in Int
      <4>1. Cardinality(Players) \in Int /\ StartBalance \in Int
        BY SitAndGoAssumption, FS_CardinalityType
      <4>2. \A x, y \in Int : x * y \in Int
        OBVIOUS
      <4>. QED BY <4>1, <4>2
    <3>. QED BY <1>1, <1>2, <3>1 DEF Minted
  <2>2. SumOver(ledger', Players) = SumOver(ledger, Players) - n
        /\ SumOver(ledger, Players) \in Int
    <3>1. \A q \in Players : ledger[q] \in Int /\ ledger'[q] \in Int
      BY <1>2, <1>3
    <3>2. \A q \in Players \ {p} : ledger'[q] = ledger[q]
      BY <1>1, <1>2
    <3>3. SumOver(ledger', Players) = SumOver(ledger, Players) + (ledger'[p] - ledger[p])
      BY ONLY <1>2, <3>1, <3>2, SumChange, p \in Players
    <3>4. SumOver(ledger, Players) \in Int
      BY <1>2, <3>1, SumInt
    <3>. QED BY <1>2, <1>3, <3>1, <3>3, <3>4
  <2>3. ~late /\ status # "Complete" => SumOver(ledger', Players) + BuyIn * Len(registered) = Minted'
    <3>. DEFINE held == BuyIn * Len(registered)
    <3>1. held \in Int
      <4>1. BuyIn \in Int /\ Len(registered) \in Int
        BY SitAndGoAssumption, Counts
      <4>2. \A x, y \in Int : x * y \in Int
        OBVIOUS
      <4>. QED BY <4>1, <4>2
    <3>2. ~late /\ status # "Complete" => SumOver(ledger, Players) + held = Minted
      BY DEF PoolOK
    <3>. HIDE DEF held
    <3>3. ~late /\ status # "Complete" => SumOver(ledger', Players) + held = Minted'
      BY <1>2, <2>1, <2>2, <3>1, <3>2
    <3>. QED BY <3>3 DEF held
  <2>. QED BY <1>1, <1>4, <2>3 DEF PoolOK
<1>. QED BY <1>5, <1>7, <1>8, <1>9, <1>10, <1>11

LEMMA InvStep == SngInv /\ [Next]_vars => SngInv'
<1>. SUFFICES ASSUME SngInv, [Next]_vars PROVE SngInv'
  OBVIOUS
<1>1. CASE \/ Expire \/ DrainTable \/ UNCHANGED vars \/ \E p \in Players : Find(p)
  BY <1>1, QuietKeepsInv
<1>2. CASE Reap \/ Shutdown
  BY <1>2, RefundKeepsInv
<1>3. ASSUME NEW p \in Players, Signup(p)
      PROVE  SngInv'
  BY <1>3, SignupKeepsInv
<1>4. ASSUME NEW dealt \in SUBSET DOMAIN seated,
             Cardinality(dealt) >= 2 \/ (pot > 0 /\ Cardinality(dealt) = 1),
             NEW outcome \in Outcomes(dealt),
             \/ PlayHand(dealt, outcome)
             \/ \E s \in Chairs, blind \in 0 .. StartingStack * Entrants :
                  LeaveEndsHand(s, dealt, outcome, blind)
      PROVE  SngInv'
  <2>1. Playable(dealt)
    BY <1>4 DEF Playable
  <2>2. CASE PlayHand(dealt, outcome)
    BY <2>1, <2>2, PlayHandEnds, HandKeepsInv
  <2>3. ASSUME NEW s, NEW blind, LeaveEndsHand(s, dealt, outcome, blind)
        PROVE  SngInv'
    BY <2>1, <2>3, LeaveEndsHandEnds, HandKeepsInv
  <2>. QED BY <1>4, <2>2, <2>3
<1>5. ASSUME NEW s \in Chairs, NEW n, Leave(s, n)
      PROVE  SngInv'
  BY <1>5, LeaveKeepsInv
<1>6. ASSUME NEW p \in Players, NEW s \in Chairs, NEW n \in TableBuyIns, SitDown(p, s, n)
      PROVE  SngInv'
  BY <1>6, SitDownKeepsInv
<1>. QED BY <1>1, <1>2, <1>3, <1>4, <1>5, <1>6 DEF Next

-----------------------------------------------------------------------------
(* The theorems *)

\* The invariant holds for any number of players, seats and chips and any percentages.
THEOREM SngInvariant == Spec => []SngInv
BY InvInit, InvStep, PTL DEF Spec

\* A sit-and-go neither makes nor loses money (manager.go Register, reap, Shutdown; sng.go
\* payout): whatever order signups, reaping, hands, leaves and the shutdown come in, every
\* buy-in is on an account, held, refunded once or paid out once, and with nobody gone from
\* the table the whole pool is paid, ties and rounding included.
THEOREM MoneyAlwaysAccounted == Spec => []MoneyAccounted
BY SngInvariant, MoneyFollows, PTL

\* The controller's places (sng.go onHandComplete) are those of the order in which
\* the players busted, no two finish in one place, and a better place is never paid less
\* (sng.go computePrizes, payout).
THEOREM StandingsAlwaysFair == Spec => []StandingsAreFair
BY SngInvariant, StandingsFollow, PTL

=============================================================================
