------------------------------ MODULE MeshProofs ------------------------------
(***************************************************************************)
(* The log of a nearby game accounts for everything (Mesh): at a peer that *)
(* follows, core and view are what its log makes of a new core, and every  *)
(* entry leads to the hash it carries, whoever numbered it.                *)
(*                                                                         *)
(* A log is only ever extended by one entry that is run as every other     *)
(* peer will run it, or replaced by the replay of a beginning of another   *)
(* such log; running an entry depends on the core alone, and the view on   *)
(* the core and the peer.  A replay and a queue are folds, and the lemmas  *)
(* on them come first.                                                     *)
(*                                                                         *)
(* While nobody is lost, sits out or in or buys in again (Calm), that      *)
(* makes all peers follow one line of dealers: their views agree on who is *)
(* unfit, if not on who is broke, so every log has at most one peer that   *)
(* may number the next entry, who has every entry there is, and nobody     *)
(* ever resyncs.  One log for all, the button at the dealer or, if it is   *)
(* broke, at the next seat dealt in, and no action lost follow from there. *)
(***************************************************************************)
EXTENDS Mesh, HandProofs, SequenceTheorems

-----------------------------------------------------------------------------
(* The folds over a log and over a queue *)

\* One step of the fold over a log (Replay) or over a queue (EmitAll).
Step(how, p, n, x) ==
  IF how = "replay" THEN Committed(n, p, x, RunOnCore(n.core, x))
  ELSE Emit(n, p, x.kind, x.actor, x.id)

FoldBody(how, p, base, s, g, T) ==
  IF T = {} THEN base ELSE Step(how, p, g[T \ {Max(T)}], s[Max(T)])

FoldOf(how, p, base, s) ==
  CHOOSE g : g = [T \in SUBSET DOMAIN s |-> FoldBody(how, p, base, s, g, T)]

\* What the first i members of s make of base.
Partial(how, p, base, s, i) == FoldOf(how, p, base, s)[1 .. i]

LEMMA ReplayIsFold ==
  ASSUME NEW p, NEW log, NEW d
  PROVE  Replay(p, log, d) = FoldOf("replay", p, [NewNode EXCEPT !.dealing = d], log)[DOMAIN log]
BY DEF Replay, FoldLeft, MapThenFoldSet, FoldOf, FoldBody, Step

LEMMA EmitAllIsFold ==
  ASSUME NEW p, NEW n, NEW reqs
  PROVE  EmitAll(n, p, reqs) = FoldOf("emit", p, n, reqs)[DOMAIN reqs]
BY DEF EmitAll, FoldLeft, MapThenFoldSet, FoldOf, FoldBody, Step

LEMMA MaxIsIn ==
  ASSUME NEW N \in Nat, NEW T \in SUBSET (1 .. N), T # {}
  PROVE  Max(T) \in T
<1> DEFINE U == {n \in Nat : \A x \in T : x <= n}
<1>1. N \in U
  OBVIOUS
<1>2. PICK m \in U : \A n \in U : m <= n
  <2> HIDE DEF U
  <2>1. U \in SUBSET Nat /\ U # {}
    BY <1>1 DEF U
  <2>. QED BY <2>1, LeastNat
<1>3. m \in T
  <2>1. SUFFICES ASSUME m \notin T PROVE FALSE
    OBVIOUS
  <2>2. \A x \in T : x <= m - 1 /\ 1 <= x
    BY <1>2, <2>1
  <2>3. m - 1 \in U
    <3>1. PICK x \in T : TRUE
      OBVIOUS
    <3>2. x \in Nat /\ m \in Nat /\ x <= m - 1
      BY <2>2
    <3>3. m - 1 \in Nat
      BY ONLY <3>2
    <3>. QED BY <2>2, <3>3
  <2>4. m <= m - 1
    <3> HIDE DEF U
    <3>. QED BY <1>2, <2>3
  <2>5. m \in Nat
    OBVIOUS
  <2>. QED BY ONLY <2>4, <2>5
<1>4. \A x \in T : m >= x
  BY <1>2
<1>. QED BY <1>3, <1>4 DEF Max

\* The fold is well defined.
LEMMA FoldAt ==
  ASSUME NEW how, NEW p, NEW base, NEW s, NEW N \in Nat, DOMAIN s = 1 .. N
  PROVE  \A T \in SUBSET (1 .. N) :
           FoldOf(how, p, base, s)[T] = FoldBody(how, p, base, s, FoldOf(how, p, base, s), T)
<1> DEFINE S == 1 .. N
           Body(g, T) == FoldBody(how, p, base, s, g, T)
           Upto(g, n) == \A T \in SUBSET S : Cardinality(T) <= n => g[T] = Body(g, T)
           C == {n \in Nat : \E g : Upto(g, n)}
<1>0. IsFiniteSet(S)
  BY FS_Interval
<1>1. \A T \in SUBSET S : IsFiniteSet(T) /\ Cardinality(T) \in Nat /\ Cardinality(T) <= Cardinality(S)
  <2> HIDE DEF S
  <2>. QED BY <1>0, FS_Subset, FS_CardinalityType
<1>2. 0 \in C
  <2>1. Upto([T \in SUBSET S |-> base], 0)
    <3>1. \A T \in SUBSET S : Cardinality(T) <= 0 => T = {}
      <4> HIDE DEF S
      <4>. QED BY <1>1, FS_EmptySet
    <3>. QED BY <3>1 DEF FoldBody
  <2> HIDE DEF Upto
  <2>. QED BY <2>1
<1>3. ASSUME NEW n \in C PROVE n + 1 \in C
  <2>1. PICK g : Upto(g, n)
    OBVIOUS
  <2> DEFINE h == [T \in SUBSET S |-> IF Cardinality(T) <= n THEN g[T] ELSE Body(g, T)]
  <2>2. ASSUME NEW T \in SUBSET S, Cardinality(T) <= n + 1 PROVE h[T] = Body(h, T)
    <3>1. h[T] = Body(g, T)
      <4> HIDE DEF Body
      <4>. QED BY <2>1
    <3>2. ASSUME T # {} PROVE h[T \ {Max(T)}] = g[T \ {Max(T)}]
      <4>1. Max(T) \in T /\ T \ {Max(T)} \in SUBSET S
        BY <3>2, MaxIsIn
      <4>2. Cardinality(T \ {Max(T)}) = Cardinality(T) - 1
        BY <1>1, <4>1, FS_RemoveElement
      <4>3. Cardinality(T \ {Max(T)}) <= n
        BY <1>1, <2>2, <4>2
      <4> HIDE DEF Upto, Body, S
      <4>. QED BY <4>1, <4>3
    <3> HIDE DEF h
    <3>. QED BY <3>1, <3>2 DEF FoldBody
  <2>3. Upto(h, n + 1)
    <3> HIDE DEF h, Body
    <3>. QED BY <2>2
  <2>4. \E k : Upto(k, n + 1)
    <3> HIDE DEF h, Upto
    <3>. QED BY <2>3
  <2>. QED BY <2>4
<1>4. C = Nat
  <2> HIDE DEF C
  <2>1. C \in SUBSET Nat /\ \A n \in C : n + 1 \in C
    BY <1>3 DEF C
  <2>. QED BY <1>2, <2>1, NatInduct
<1>5. PICK g : Upto(g, Cardinality(S))
  <2>1. Cardinality(S) \in C
    <3> HIDE DEF C, S
    <3>. QED BY <1>1, <1>4
  <2>. QED BY <2>1
<1> DEFINE h == [T \in SUBSET S |-> g[T]]
<1>6. h = [T \in SUBSET S |-> FoldBody(how, p, base, s, h, T)]
  <2>1. ASSUME NEW T \in SUBSET S PROVE h[T] = Body(h, T)
    <3>1. h[T] = Body(g, T)
      <4> HIDE DEF Body, S
      <4>. QED BY <1>1, <1>5
    <3>2. T # {} => T \ {Max(T)} \in SUBSET S
      OBVIOUS
    <3>. QED BY <3>1, <3>2 DEF FoldBody
  <2>. QED BY <2>1
<1>7. FoldOf(how, p, base, s)
        = [T \in SUBSET S |-> FoldBody(how, p, base, s, FoldOf(how, p, base, s), T)]
  <2> HIDE DEF h
  <2>. QED BY <1>6 DEF FoldOf
<1> DEFINE k == FoldOf(how, p, base, s)
<1> HIDE DEF k
<1>8. k = [T \in SUBSET S |-> FoldBody(how, p, base, s, k, T)]
  BY <1>7 DEF k
<1>9. \A T \in SUBSET S : k[T] = FoldBody(how, p, base, s, k, T)
  BY <1>8
<1>. QED BY <1>9 DEF k

LEMMA PartialNone ==
  ASSUME NEW how, NEW p, NEW base, NEW s, NEW N \in Nat, DOMAIN s = 1 .. N
  PROVE  Partial(how, p, base, s, 0) = base
<1>1. (1 .. 0) \in SUBSET (1 .. N) /\ 1 .. 0 = {}
  OBVIOUS
<1>. QED BY <1>1, FoldAt DEF Partial, FoldBody

LEMMA PartialNext ==
  ASSUME NEW how, NEW p, NEW base, NEW s, NEW N \in Nat, DOMAIN s = 1 .. N, NEW i \in 0 .. N - 1
  PROVE  Partial(how, p, base, s, i + 1) = Step(how, p, Partial(how, p, base, s, i), s[i + 1])
<1> DEFINE k == i + 1
<1>1. k \in Nat /\ 1 <= k /\ k <= N /\ k - 1 = i
  OBVIOUS
<1> HIDE DEF k
<1>2. (1 .. k) \in SUBSET (1 .. N) /\ k \in 1 .. k
  BY <1>1
<1>3. (1 .. k) \ {k} = 1 .. i
  <2>1. \A x : x \in (1 .. k) \ {k} <=> x \in 1 .. (k - 1)
    BY <1>1
  <2>. QED BY <1>1, <2>1
<1>4. Max(1 .. k) = k
  <2>1. Max(1 .. k) \in 1 .. k
    BY <1>2, MaxIsIn
  <2>2. \A y \in 1 .. k : Max(1 .. k) >= y
    <3>1. \A y \in 1 .. k : k >= y
      BY <1>1
    <3>. QED BY <1>2, <3>1 DEF Max
  <2>3. Max(1 .. k) >= k /\ Max(1 .. k) <= k
    BY <1>1, <1>2, <2>1, <2>2
  <2>. QED BY <1>1, <2>1, <2>3
<1>5. FoldOf(how, p, base, s)[1 .. k] = FoldBody(how, p, base, s, FoldOf(how, p, base, s), 1 .. k)
  BY <1>2, FoldAt
<1>6. Partial(how, p, base, s, k) = Step(how, p, Partial(how, p, base, s, i), s[k])
  BY <1>2, <1>3, <1>4, <1>5 DEF Partial, FoldBody
<1>. QED BY <1>6 DEF k

-----------------------------------------------------------------------------
(* Logs on new cores *)

\* The view after entry e, whose outcome is o.
NextView(view, p, e, o) == [UpdateView(view, p, o) EXCEPT !.running = @ /\ e.kind # "void"]

LEMMA CommittedParts ==
  ASSUME NEW n, NEW p, NEW e, NEW o
  PROVE  /\ Committed(n, p, e, o).core = o.core
         /\ Committed(n, p, e, o).log  = Append(n.log, e)
         /\ Committed(n, p, e, o).view = NextView(n.view, p, e, o)
BY DEF Committed, NextView

LEMMA ReplayNone ==
  ASSUME NEW p, NEW d
  PROVE  Replay(p, <<>>, d) = [NewNode EXCEPT !.dealing = d]
<1> DEFINE base == [NewNode EXCEPT !.dealing = d]
<1>1. DOMAIN <<>> = 1 .. 0
  OBVIOUS
<1>2. Replay(p, <<>>, d) = FoldOf("replay", p, base, <<>>)[DOMAIN <<>>]
  BY ReplayIsFold
<1> HIDE DEF base
<1>3. Partial("replay", p, base, <<>>, 0) = base
  BY <1>1, PartialNone
<1>. QED BY <1>1, <1>2, <1>3 DEF Partial, base

LEMMA ReplayAppend ==
  ASSUME NEW S, NEW log \in Seq(S), NEW e \in S, NEW p, NEW d
  PROVE  Replay(p, Append(log, e), d) =
           Committed(Replay(p, log, d), p, e, RunOnCore(Replay(p, log, d).core, e))
<1> DEFINE base == [NewNode EXCEPT !.dealing = d]
           longer == Append(log, e)
           After(s, i) == Partial("replay", p, base, s, i)
           T == {i \in Nat : i <= Len(log) => After(longer, i) = After(log, i)}
<1>1. /\ Len(log) \in Nat /\ DOMAIN log = 1 .. Len(log)
      /\ DOMAIN longer = 1 .. Len(log) + 1 /\ longer[Len(log) + 1] = e
      /\ \A i \in 1 .. Len(log) : longer[i] = log[i]
  OBVIOUS
<1> HIDE DEF longer, base
<1> DEFINE N == Len(log) + 1
<1> HIDE DEF N
<1>2. /\ After(log, 0) = base
      /\ \A i \in 0 .. Len(log) - 1 :
           After(log, i + 1) = Step("replay", p, After(log, i), log[i + 1])
  <2>1. Len(log) \in Nat /\ DOMAIN log = 1 .. Len(log)
    BY <1>1
  <2>. QED BY ONLY <2>1, PartialNone, PartialNext
<1>3. /\ After(longer, 0) = base
      /\ \A i \in 0 .. N - 1 :
           After(longer, i + 1) = Step("replay", p, After(longer, i), longer[i + 1])
  <2>1. N \in Nat /\ DOMAIN longer = 1 .. N
    BY <1>1 DEF N
  <2>. QED BY ONLY <2>1, PartialNone, PartialNext
<1>4. T = Nat
  <2> HIDE DEF After
  <2>1. 0 \in T
    BY <1>2, <1>3
  <2>2. ASSUME NEW i \in T PROVE i + 1 \in T
    <3> SUFFICES ASSUME i + 1 <= Len(log) PROVE After(longer, i + 1) = After(log, i + 1)
      OBVIOUS
    <3>1. /\ i \in Nat /\ i <= Len(log) /\ i + 1 \in 1 .. Len(log)
          /\ i \in 0 .. Len(log) - 1 /\ i \in 0 .. N - 1
      BY <1>1 DEF N
    <3>2. After(longer, i) = After(log, i)
      BY <3>1
    <3>3. After(log, i + 1) = Step("replay", p, After(log, i), log[i + 1])
      BY ONLY <1>2, <3>1
    <3>4. After(longer, i + 1) = Step("replay", p, After(longer, i), longer[i + 1])
      BY ONLY <1>3, <3>1
    <3>5. longer[i + 1] = log[i + 1]
      BY <1>1, <3>1
    <3>. QED BY ONLY <3>2, <3>3, <3>4, <3>5
  <2> HIDE DEF T
  <2>3. T \in SUBSET Nat
    BY DEF T
  <2>. QED BY <2>1, <2>2, <2>3, NatInduct
<1>5. After(longer, Len(log)) = After(log, Len(log))
  <2> HIDE DEF After
  <2>. QED BY <1>1, <1>4
<1>6. After(longer, Len(log) + 1) = Step("replay", p, After(log, Len(log)), e)
  <2> HIDE DEF After
  <2>1. Len(log) \in 0 .. N - 1
    BY <1>1 DEF N
  <2>. QED BY <1>1, <1>3, <1>5, <2>1
<1>7. /\ Replay(p, log, d) = After(log, Len(log))
      /\ Replay(p, longer, d) = After(longer, Len(log) + 1)
  BY <1>1, ReplayIsFold DEF Partial, base
<1>. QED BY <1>6, <1>7 DEF Step, longer

\* What one more entry does to a log.
LEMMA AppendParts ==
  ASSUME NEW S, NEW log \in Seq(S), NEW e \in S
  PROVE  /\ Append(log, e) \in Seq(S) /\ DOMAIN Append(log, e) = 1 .. Len(log) + 1
         /\ Len(log) \in Nat /\ DOMAIN log = 1 .. Len(log) /\ Len(Append(log, e)) = Len(log) + 1
         /\ Append(log, e)[Len(log) + 1] = e
         /\ \A i \in 1 .. Len(log) :
              Append(log, e)[i] = log[i] /\ SubSeq(Append(log, e), 1, i) = SubSeq(log, 1, i)
         /\ SubSeq(Append(log, e), 1, Len(log) + 1) = Append(log, e)
<1> DEFINE longer == Append(log, e)
<1>1. /\ longer \in Seq(S) /\ DOMAIN longer = 1 .. Len(log) + 1 /\ Len(longer) = Len(log) + 1
      /\ Len(log) \in Nat /\ DOMAIN log = 1 .. Len(log)
      /\ longer[Len(log) + 1] = e
      /\ \A i \in 1 .. Len(log) : longer[i] = log[i]
  OBVIOUS
<1> HIDE DEF longer
<1>2. ASSUME NEW i \in 1 .. Len(log) PROVE SubSeq(longer, 1, i) = SubSeq(log, 1, i)
  <2>1. i \in Nat /\ i <= Len(log) /\ i <= Len(longer)
    BY <1>1
  <2>2. /\ SubSeq(longer, 1, i) \in Seq(S) /\ Len(SubSeq(longer, 1, i)) = i
        /\ SubSeq(log, 1, i) \in Seq(S) /\ Len(SubSeq(log, 1, i)) = i
    BY <1>1, <2>1
  <2>3. \A j \in 1 .. i : SubSeq(longer, 1, i)[j] = SubSeq(log, 1, i)[j]
    BY <1>1, <2>1
  <2>. QED BY <2>2, <2>3, SeqEqual
<1>3. SubSeq(longer, 1, Len(longer)) = longer
  BY <1>1, SubSeqFull
<1>4. SubSeq(longer, 1, Len(log) + 1) = longer
  BY <1>1, <1>3
<1> HIDE DEF longer
<1>5. /\ longer \in Seq(S) /\ DOMAIN longer = 1 .. Len(log) + 1
      /\ Len(log) \in Nat /\ DOMAIN log = 1 .. Len(log) /\ Len(longer) = Len(log) + 1
      /\ longer[Len(log) + 1] = e
      /\ \A i \in 1 .. Len(log) : longer[i] = log[i] /\ SubSeq(longer, 1, i) = SubSeq(log, 1, i)
      /\ SubSeq(longer, 1, Len(log) + 1) = longer
  BY <1>1, <1>2, <1>4
<1>. QED BY <1>5 DEF longer

\* A log is its beginning and its last entry, so that what holds of the empty log and is
\* kept by an entry more holds of every log.
LEMMA LogInduct ==
  ASSUME NEW S, NEW T \in SUBSET Seq(S), <<>> \in T,
         \A log \in T : \A e \in S : Append(log, e) \in T
  PROVE  T = Seq(S)
<1> DEFINE N == {n \in Nat : \A log \in Seq(S) : Len(log) = n => log \in T}
<1>1. 0 \in N
  <2>1. \A log \in Seq(S) : Len(log) = 0 => log = <<>>
    OBVIOUS
  <2>. QED BY <2>1
<1>2. ASSUME NEW n \in N PROVE n + 1 \in N
  <2> SUFFICES ASSUME NEW log \in Seq(S), Len(log) = n + 1 PROVE log \in T
    OBVIOUS
  <2> DEFINE front == SubSeq(log, 1, n)
             last == log[n + 1]
  <2>1. n \in Nat /\ n + 1 \in 1 .. Len(log)
    OBVIOUS
  <2>2. /\ front \in Seq(S) /\ Len(front) = n /\ last \in S
        /\ \A i \in 1 .. n : front[i] = log[i]
    BY <2>1
  <2>3. front \in T
    BY <2>2
  <2> HIDE DEF front
  <2>4. /\ Append(front, last) \in Seq(S) /\ Len(Append(front, last)) = n + 1
        /\ Append(front, last)[n + 1] = last
        /\ \A i \in 1 .. n : Append(front, last)[i] = log[i]
    <3> HIDE DEF last
    <3>1. /\ Append(front, last) \in Seq(S) /\ Len(Append(front, last)) = Len(front) + 1
          /\ Append(front, last)[Len(front) + 1] = last
          /\ \A i \in 1 .. Len(front) : Append(front, last)[i] = front[i]
      BY ONLY <2>2, AppendParts
    <3>. QED BY <2>2, <3>1
  <2>5. \A i \in 1 .. n + 1 : i \in 1 .. n \/ i = n + 1
    BY <2>1
  <2>6. \A i \in 1 .. n + 1 : Append(front, last)[i] = log[i]
    BY <2>4, <2>5
  <2> HIDE DEF last
  <2>7. log = Append(front, last)
    BY <2>1, <2>4, <2>6, SeqEqual
  <2>. QED BY <2>2, <2>3, <2>7
<1>3. N = Nat
  <2> HIDE DEF N
  <2>1. N \in SUBSET Nat
    BY DEF N
  <2>. QED BY <1>1, <1>2, <2>1, NatInduct
<1>4. ASSUME NEW log \in Seq(S) PROVE log \in T
  <2>1. Len(log) \in N
    <3> HIDE DEF N
    <3>. QED BY <1>3
  <2>. QED BY <2>1
<1>. QED BY <1>4

\* The core that a log makes is the same at every peer, and the view does not depend on
\* whether the peer is dealing.
LEMMA ReplayParts ==
  ASSUME NEW S, NEW log \in Seq(S), NEW p, NEW q, NEW d, NEW f
  PROVE  /\ Replay(p, log, d).core = Replay(q, log, f).core
         /\ Replay(p, log, d).view = Replay(p, log, f).view
         /\ Replay(p, log, d).log = log
<1> DEFINE Same(x) == /\ Replay(p, x, d).core = Replay(q, x, f).core
                      /\ Replay(p, x, d).core = Replay(p, x, f).core
                      /\ Replay(p, x, d).view = Replay(p, x, f).view
                      /\ Replay(p, x, d).log = x
           T == {x \in Seq(S) : Same(x)}
<1>1. <<>> \in T
  <2>1. <<>> \in Seq(S)
    OBVIOUS
  <2>2. Replay(p, <<>>, d) = [NewNode EXCEPT !.dealing = d]
        /\ Replay(p, <<>>, f) = [NewNode EXCEPT !.dealing = f]
        /\ Replay(q, <<>>, f) = [NewNode EXCEPT !.dealing = f]
    BY ReplayNone
  <2>3. Same(<<>>)
    BY <2>2 DEF NewNode
  <2>. QED BY <2>1, <2>3
<1>2. ASSUME NEW x \in T, NEW e \in S PROVE Append(x, e) \in T
  <2>1. Append(x, e) \in Seq(S) /\ x \in Seq(S)
    OBVIOUS
  <2>2. /\ Replay(p, x, d).core = Replay(q, x, f).core
        /\ Replay(p, x, d).core = Replay(p, x, f).core
        /\ Replay(p, x, d).view = Replay(p, x, f).view
        /\ Replay(p, x, d).log = x
    OBVIOUS
  <2> HIDE DEF T
  <2>3. ASSUME NEW r, NEW g
        PROVE  LET n == Replay(r, x, g)
                   o == RunOnCore(n.core, e)
               IN  /\ Replay(r, Append(x, e), g).core = o.core
                   /\ Replay(r, Append(x, e), g).view = NextView(n.view, r, e, o)
                   /\ Replay(r, Append(x, e), g).log = Append(n.log, e)
    <3>1. Replay(r, Append(x, e), g) =
            Committed(Replay(r, x, g), r, e, RunOnCore(Replay(r, x, g).core, e))
      BY <2>1, ReplayAppend
    <3>. QED BY <3>1, CommittedParts
  <2>4. /\ Replay(p, Append(x, e), d).core = RunOnCore(Replay(p, x, d).core, e).core
        /\ Replay(p, Append(x, e), f).core = RunOnCore(Replay(p, x, f).core, e).core
        /\ Replay(q, Append(x, e), f).core = RunOnCore(Replay(q, x, f).core, e).core
        /\ Replay(p, Append(x, e), d).log = Append(Replay(p, x, d).log, e)
    BY ONLY <2>3
  <2>5. /\ Replay(p, Append(x, e), d).view =
             NextView(Replay(p, x, d).view, p, e, RunOnCore(Replay(p, x, d).core, e))
        /\ Replay(p, Append(x, e), f).view =
             NextView(Replay(p, x, f).view, p, e, RunOnCore(Replay(p, x, f).core, e))
    BY ONLY <2>3
  <2>6. Same(Append(x, e))
    BY ONLY <2>2, <2>4, <2>5
  <2>. QED BY <2>1, <2>6 DEF T
<1>3. T = Seq(S)
  <2> HIDE DEF T
  <2>1. T \in SUBSET Seq(S)
    BY DEF T
  <2>. QED BY <1>1, <1>2, <2>1, LogInduct
<1>. QED BY <1>3

\* The same, one conclusion at a time.
LEMMA ReplayLog ==
  ASSUME NEW S, NEW log \in Seq(S), NEW p, NEW d
  PROVE  Replay(p, log, d).log = log
BY ReplayParts

LEMMA ReplayCore ==
  ASSUME NEW S, NEW log \in Seq(S), NEW p, NEW q, NEW d
  PROVE  Replay(p, log, d).core = Replay(q, log, FALSE).core
<1>1. ASSUME NEW f PROVE Replay(p, log, d).core = Replay(q, log, f).core
  BY ReplayParts
<1>. QED BY <1>1

LEMMA ReplayView ==
  ASSUME NEW S, NEW log \in Seq(S), NEW p, NEW d
  PROVE  Replay(p, log, d).view = Replay(p, log, FALSE).view
<1>1. ASSUME NEW f PROVE Replay(p, log, d).view = Replay(p, log, f).view
  BY ReplayParts
<1>. QED BY <1>1

-----------------------------------------------------------------------------
(* Walking around the seats *)

\* Where a walk may begin: at a seat, or before seat 0.
Starts == -1 .. NumSeats - 1

LEMMA DistanceFrom ==
  ASSUME NEW a \in Starts
  PROVE  /\ \A i \in Seats : Distance(a, i) \in 1 .. NumSeats
         /\ \A i, j \in Seats : Distance(a, i) = Distance(a, j) => i = j
BY NumSeatsAssumption DEF Distance, Seats, Starts

\* FirstAfter finds the one member that none is closer than.
LEMMA FirstAfterIs ==
  ASSUME NEW a \in Starts, NEW S \in SUBSET Seats, S # {}
  PROVE  /\ FirstAfter(a, S) \in S
         /\ \A j \in S : Distance(a, FirstAfter(a, S)) <= Distance(a, j)
         /\ \A i \in S : (\A j \in S : Distance(a, i) <= Distance(a, j)) => FirstAfter(a, S) = i
<1> DEFINE f == FirstAfter(a, S)
<1>1. f \in S /\ \A j \in S : Distance(a, f) <= Distance(a, j)
  BY FirstAfterIsNearest DEF Starts
<1> HIDE DEF f
<1>2. ASSUME NEW i \in S, \A j \in S : Distance(a, i) <= Distance(a, j)
      PROVE  f = i
  <2>1. f \in Seats /\ i \in Seats /\ f \in S /\ i \in S
    BY <1>1
  <2>2. Distance(a, f) \in 1 .. NumSeats /\ Distance(a, i) \in 1 .. NumSeats
    BY <2>1, DistanceFrom
  <2>3. Distance(a, f) <= Distance(a, i) /\ Distance(a, i) <= Distance(a, f)
    BY <1>1, <1>2, <2>1
  <2>4. Distance(a, f) = Distance(a, i)
    BY ONLY <2>2, <2>3, NumSeatsAssumption
  <2>. QED BY <2>1, <2>4, DistanceFrom
<1>. QED BY <1>1, <1>2 DEF f

\* A member is the first one after the seat to its right.
LEMMA FirstIsNext ==
  ASSUME NEW b \in Seats, NEW S \in SUBSET Seats, b \in S
  PROVE  FirstAfter(b - 1, S) = b
<1>1. b - 1 \in Starts /\ Distance(b - 1, b) = 1
  BY NumSeatsAssumption DEF Seats, Starts, Distance
<1>2. \A j \in S : Distance(b - 1, b) <= Distance(b - 1, j)
  BY <1>1, DistanceFrom, NumSeatsAssumption
<1>. QED BY <1>1, <1>2, FirstAfterIs

\* The first seat of some, looked for from the first of more, is the first of all.
LEMMA FirstPast ==
  ASSUME NEW a \in Starts, NEW S \in SUBSET Seats, NEW T \in SUBSET S, T # {}
  PROVE  FirstAfter(FirstAfter(a, S) - 1, T) = FirstAfter(a, T)
<1> DEFINE n == FirstAfter(a, S)
           f == FirstAfter(a, T)
<1>0. T \in SUBSET Seats /\ S # {}
  OBVIOUS
<1>1. n \in S /\ \A j \in S : Distance(a, n) <= Distance(a, j)
  BY <1>0, FirstAfterIs
<1>2. f \in T /\ \A j \in T : Distance(a, f) <= Distance(a, j)
  BY <1>0, FirstAfterIs
<1> HIDE DEF n, f
<1>3. n \in Seats /\ n - 1 \in Starts
  BY <1>1, NumSeatsAssumption DEF Seats, Starts
<1>4. ASSUME NEW j \in T PROVE Distance(n - 1, j) = Distance(a, j) - Distance(a, n) + 1
  <2>1. j \in Seats /\ Distance(a, n) <= Distance(a, j)
    BY <1>0, <1>1
  <2>. QED BY <1>3, <2>1, NumSeatsAssumption DEF Seats, Starts, Distance
<1>5. ASSUME NEW j \in T PROVE Distance(n - 1, f) <= Distance(n - 1, j)
  <2>1. Distance(a, f) <= Distance(a, j) /\ j \in Seats /\ f \in Seats /\ n \in Seats
    BY <1>0, <1>2, <1>3
  <2>2. Distance(a, f) \in Int /\ Distance(a, j) \in Int /\ Distance(a, n) \in Int
    BY <2>1, NumSeatsAssumption DEF Seats, Starts, Distance
  <2>. QED BY <1>2, <1>4, <2>1, <2>2
<1>6. FirstAfter(n - 1, T) = f
  BY <1>0, <1>2, <1>3, <1>5, FirstAfterIs
<1>. QED BY <1>6 DEF n, f

LEMMA SeatsFinite ==
  ASSUME NEW S \in SUBSET Seats
  PROVE  IsFiniteSet(S) /\ Cardinality(S) \in Nat /\ (Cardinality(S) = 0 <=> S = {})
<1>1. IsFiniteSet(Seats)
  BY FS_Interval, NumSeatsAssumption DEF Seats
<1>2. IsFiniteSet(S)
  BY <1>1, FS_Subset
<1>. QED BY <1>2, FS_CardinalityType, FS_EmptySet

\* Clockwise puts the seats of a set in a row.
LEMMA ClockwiseIsRow ==
  ASSUME NEW a \in Starts, NEW S \in SUBSET Seats
  PROVE  Clockwise(S, a) \in Seq(Seats) /\ Len(Clockwise(S, a)) = Cardinality(S)
<1> DEFINE Nearer == {x \in S \X S : Distance(a, x[1]) < Distance(a, x[2])}
           rank(s) == Cardinality({t \in S : Distance(a, t) < Distance(a, s)})
           N == Cardinality(S)
<1>1. \A s \in S : Distance(a, s) \in Nat
  BY DistanceFrom
<1>2. StrictOrder(Nearer, S)
  <2>1. \A s, t \in S : s # t => Distance(a, s) # Distance(a, t)
    BY DistanceFrom
  <2>. QED BY <1>1, <2>1 DEF StrictOrder
<1>3. \A s \in S : Before(Nearer, S, s) = {t \in S : Distance(a, t) < Distance(a, s)}
  BY DEF Before
<1>4. IsFiniteSet(S) /\ N \in Nat
  BY SeatsFinite
<1> HIDE DEF Nearer
<1>5. \A k \in 0 .. N - 1 : \E s \in S : rank(s) = k
  <2>1. \A k \in 0 .. N - 1 : \E s \in S : Cardinality(Before(Nearer, S, s)) = k
    BY <1>2, <1>4, RankOfEach
  <2>. QED BY <1>3, <2>1
<1> DEFINE at(i) == CHOOSE s \in S : rank(s) = i - 1
<1>6. Clockwise(S, a) = [i \in 1 .. N |-> at(i)]
  BY DEF Clockwise
<1> HIDE DEF rank, N
<1>7. ASSUME NEW i \in 1 .. N PROVE at(i) \in Seats
  <2>1. i - 1 \in 0 .. N - 1
    BY <1>4
  <2>2. \E s \in S : rank(s) = i - 1
    BY <1>5, <2>1
  <2>. QED BY <2>2
<1> HIDE DEF at
<1>8. [i \in 1 .. N |-> at(i)] \in Seq(Seats)
  BY <1>4, <1>7, IsASeq
<1>9. Len([i \in 1 .. N |-> at(i)]) = N
  BY <1>4
<1>. QED BY <1>6, <1>8, <1>9 DEF N

LEMMA MinOfTwo ==
  ASSUME NEW a \in Nat, NEW b \in Nat
  PROVE  Min({a, b}) \in {a, b} /\ Min({a, b}) <= a /\ Min({a, b}) <= b
<1>1. \E x \in {a, b} : \A y \in {a, b} : x <= y
  <2>1. a <= b \/ b <= a
    OBVIOUS
  <2>. QED BY <2>1
<1>. QED BY <1>1 DEF Min

\* There is an order to act in, and it is not empty.
LEMMA ActingOrderType ==
  ASSUME NEW S \in SUBSET Seats, S # {}, NEW b \in S
  PROVE  ActingOrder(S, b) \in Seq(Seats) /\ ActingOrder(S, b) # <<>>
<1> DEFINE third == FirstAfter(FirstAfter(FirstAfter(b, S), S), S)
           first == IF Cardinality(S) = 2 THEN b ELSE third
           order == Clockwise(S, first - 1)
           m == Min({Turns, Len(order)})
<1>1. \A i \in S : i \in Starts
  BY NumSeatsAssumption DEF Seats, Starts
<1>2. first \in S
  <2>1. FirstAfter(b, S) \in S
    BY <1>1, FirstAfterIs
  <2>2. FirstAfter(FirstAfter(b, S), S) \in S
    BY <1>1, <2>1, FirstAfterIs
  <2>3. third \in S
    BY <1>1, <2>2, FirstAfterIs
  <2> HIDE DEF third
  <2>. QED BY <2>3
<1> HIDE DEF first
<1>3. first - 1 \in Starts
  BY <1>2, NumSeatsAssumption DEF Seats, Starts
<1>4. order \in Seq(Seats) /\ Len(order) \in Nat /\ Len(order) # 0
  BY <1>3, ClockwiseIsRow, SeatsFinite
<1>5. ActingOrder(S, b) = SubSeq(order, 1, m)
  BY DEF ActingOrder, first
<1> HIDE DEF order
<1>6. m \in Nat /\ m # 0 /\ m <= Len(order)
  BY <1>4, MinOfTwo, LocalCoreAssumption
<1> HIDE DEF m
<1>7. SubSeq(order, 1, m) \in Seq(Seats) /\ Len(SubSeq(order, 1, m)) = m
  BY <1>4, <1>6
<1>. QED BY <1>5, <1>6, <1>7

-----------------------------------------------------------------------------
(* The core *)

\* A core between two calls: in a hand, somebody is to act.
CoreOK(c) == c \in LocalTable /\ (Running(c) => c.order # <<>>)

IsOutcome(o) ==
  o = [core |-> o.core, told |-> o.told, list |-> o.list] /\ o.list \subseteq Seats

\* Whom a core shows as unable to play; between hands, who is out or broke.
LEMMA UnfitType ==
  ASSUME NEW c, c \in LocalTable
  PROVE  /\ Unfit(c) \subseteq Seats /\ Lost(c) \subseteq Seats
         /\ ~Running(c) => Unfit(c) = c.out \cup c.broke
<1>1. c.out \subseteq Seats /\ c.broke \subseteq Seats /\ c.dealt \subseteq Seats
  BY DEF LocalTable
<1>2. Shoved(c) \subseteq c.dealt
  BY DEF Shoved
<1>3. Lost(c) \subseteq Shoved(c)
  BY DEF Lost
<1>. QED BY <1>1, <1>2, <1>3 DEF Unfit, Running

Deals(c) == ~(Running(c) \/ Cardinality(Ready(c)) < 2 \/ c.seed = NoSeed)

LEMMA StartParts ==
  ASSUME NEW o, IsOutcome(o), CoreOK(o.core)
  PROVE  LET c == o.core
             s == StartHandIfReady(o)
         IN  /\ IsOutcome(s) /\ CoreOK(s.core)
             /\ ~Deals(c) => s = o
             /\ Deals(c) => /\ s.told = o.told \cup {"hand_dealt"}
                            /\ s.core.dealt = Ready(c) /\ Ready(c) # {}
                            /\ s.core.out = c.out /\ s.core.broke = c.broke
                            /\ s.core.seed = NoSeed /\ s.core.deck = c.seed
                            /\ s.core.button = FirstAfter(c.button - 1, Ready(c))
                            /\ s.list = o.list
<1> DEFINE c == o.core
           s == StartHandIfReady(o)
           b == FirstAfter(c.button - 1, Ready(c))
           order == ActingOrder(Ready(c), b)
           n == Cardinality(Ready(c))
           hands == c.hands + 1
           events == c.events + n
<1>1. CASE ~Deals(c)
  BY <1>1 DEF Deals, StartHandIfReady
<1>2. CASE Deals(c)
  <2>1. Ready(c) \in SUBSET Seats /\ n \in Nat /\ ~(n < 2) /\ c \in LocalTable
    BY <1>2, SeatsFinite DEF Deals, Ready, CoreOK
  <2>2. Ready(c) # {}
    BY <2>1, SeatsFinite
  <2>3. c.button - 1 \in Starts
    BY <2>1, NumSeatsAssumption DEF LocalTable, Seats, Starts
  <2>4. b \in Ready(c)
    BY <2>1, <2>2, <2>3, FirstAfterIs
  <2>5. order \in Seq(Seats) /\ order # <<>>
    BY <2>1, <2>2, <2>4, ActingOrderType
  <2>6. s = [core |-> [c EXCEPT !.seed = NoSeed, !.deck = c.seed, !.button = b,
                                !.hands = hands, !.dealt = Ready(c), !.folding = {},
                                !.order = order, !.events = events],
             told |-> o.told \cup {"hand_dealt"}, list |-> o.list]
    <3> DEFINE new == [c EXCEPT !.seed = NoSeed, !.deck = c.seed, !.button = b,
                                !.hands = hands, !.dealt = Ready(c), !.folding = {},
                                !.order = order, !.events = events]
    <3>1. s = [o EXCEPT !.core = new, !.told = @ \cup {"hand_dealt"}]
      BY <1>2 DEF Deals, StartHandIfReady
    <3> HIDE DEF new, s
    <3>2. s = [core |-> new, told |-> o.told \cup {"hand_dealt"}, list |-> o.list]
      BY <3>1 DEF IsOutcome
    <3>. QED BY <3>2 DEF new
  <2>7. hands \in Nat /\ events \in Nat /\ NoSeed \in Seq(Nat) /\ c.seed \in Seq(Nat)
    BY <2>1 DEF LocalTable, NoSeed
  <2> DEFINE R == Ready(c)
             no == NoSeed
             seed == c.seed
             k == [c EXCEPT !.seed = no, !.deck = seed, !.button = b, !.hands = hands,
                            !.dealt = R, !.folding = {}, !.order = order, !.events = events]
  <2>8. k \in LocalTable
    <3>1. b \in Seats /\ R \in SUBSET Seats /\ no \in Seq(Nat) /\ seed \in Seq(Nat)
      BY <2>1, <2>4, <2>7
    <3> HIDE DEF c, b, order, n, hands, events, R, no, seed
    <3>. QED BY <2>1, <2>5, <2>7, <3>1 DEF LocalTable
  <2> HIDE DEF c, s, b, order, n, hands, events
  <2>9. /\ k.dealt = Ready(c) /\ k.out = c.out /\ k.broke = c.broke
        /\ k.seed = NoSeed /\ k.deck = c.seed /\ k.button = b /\ k.order = order
    BY <2>1 DEF LocalTable
  <2>10. s.core = k /\ s.told = o.told \cup {"hand_dealt"} /\ s.list = o.list /\ IsOutcome(s)
    <3> HIDE DEF k
    <3>1. s = [core |-> k, told |-> o.told \cup {"hand_dealt"}, list |-> o.list]
      BY <2>6 DEF k
    <3>. QED BY <3>1 DEF IsOutcome
  <2> HIDE DEF k
  <2>. QED BY <1>2, <2>2, <2>5, <2>8, <2>9, <2>10 DEF CoreOK, c, s, b
<1>. QED BY <1>1, <1>2

LEMMA SettleParts ==
  ASSUME NEW o, IsOutcome(o), o.core \in LocalTable
  PROVE  LET s == SettleHand(o) IN
         /\ IsOutcome(s) /\ CoreOK(s.core)
         /\ o.core.seed = NoSeed =>
              /\ s.told = o.told \cup {"showdown"} /\ s.core.dealt = {}
              /\ o.core.out \subseteq s.core.out /\ o.core.broke \subseteq s.core.broke
              /\ s.core.seed = NoSeed
              /\ s.core.button = FirstAfter(o.core.button, Seats)
<1> DEFINE c == o.core
           b == FirstAfter(c.button, Seats)
           none == <<>>
           events == c.events + 2
           out == c.out \cup Lost(c)
           broke == c.broke \cup Lost(c)
           k == [c EXCEPT !.dealt = {}, !.order = none, !.deck = none, !.out = out,
                          !.broke = broke, !.button = b, !.events = events]
           over == [core |-> k, told |-> o.told \cup {"showdown"}, list |-> o.list]
           s == SettleHand(o)
<1>1. b \in Seats
  <2>1. c.button \in Starts /\ Seats # {} /\ Seats \in SUBSET Seats
    BY NumSeatsAssumption DEF LocalTable, Seats, Starts
  <2>. QED BY <2>1, FirstAfterIs
<1>2. s = StartHandIfReady(over)
  <2> DEFINE z == [o EXCEPT !.core = k, !.told = @ \cup {"showdown"}]
  <2>1. s = StartHandIfReady(z)
    BY DEF SettleHand, NoSeed
  <2> HIDE DEF k, s
  <2>2. z = over
    <3>1. z = [o EXCEPT !.core = k, !.told = @ \cup {"showdown"}]
      OBVIOUS
    <3> HIDE DEF c, z
    <3>. QED BY <3>1 DEF IsOutcome
  <2> HIDE DEF z, over
  <2>. QED BY <2>1, <2>2
<1>3. /\ c \in LocalTable /\ events \in Nat /\ none \in Seq(Nat) /\ none \in Seq(Seats)
      /\ out \subseteq Seats /\ broke \subseteq Seats
      /\ c.out \subseteq out /\ c.broke \subseteq broke
  <2>1. c \in LocalTable
    OBVIOUS
  <2> HIDE DEF c
  <2>2. Lost(c) \subseteq Seats
    BY <2>1, UnfitType
  <2>. QED BY <2>1, <2>2 DEF LocalTable
<1> HIDE DEF b, c, events, none, out, broke
<1>4. /\ k \in LocalTable /\ k.dealt = {} /\ k.out = out /\ k.broke = broke
      /\ k.seed = c.seed /\ k.button = b
  BY <1>1, <1>3 DEF LocalTable
<1> HIDE DEF k
<1>7. over.core = k /\ over.told = o.told \cup {"showdown"} /\ IsOutcome(over)
  BY DEF IsOutcome
<1> HIDE DEF over, s
<1>5. CoreOK(over.core) /\ (c.seed = NoSeed => ~Deals(over.core))
  BY <1>4, <1>7 DEF CoreOK, Running, Deals
<1>6. IsOutcome(s) /\ CoreOK(s.core) /\ (~Deals(over.core) => s = over)
  BY <1>2, <1>5, <1>7, StartParts
<1>. QED BY <1>3, <1>4, <1>5, <1>6, <1>7 DEF b, c, s

\* Whom an action reaches, and what it leaves of the order.
NextIn(order, folding) ==
  LET rest == Tail(order)
      I == {i \in 1 .. Len(rest) : rest[i] \notin folding}
  IN  IF I # {} THEN Min(I) ELSE 0

Left(order, folding) ==
  IF NextIn(order, folding) = 0 THEN <<>>
  ELSE SubSeq(Tail(order), NextIn(order, folding), Len(Tail(order)))

LEMMA LeftType ==
  ASSUME NEW order \in Seq(Seats), order # <<>>, NEW folding
  PROVE  /\ Left(order, folding) \in Seq(Seats)
         /\ Len(Left(order, folding)) \in Nat /\ Len(Left(order, folding)) <= Len(order)
<1> DEFINE rest == Tail(order)
           n == Len(rest)
           I == {i \in 1 .. n : rest[i] \notin folding}
           next == NextIn(order, folding)
<1>1. rest \in Seq(Seats) /\ Len(order) = n + 1 /\ n \in Nat
  OBVIOUS
<1>2. I \in SUBSET Nat /\ I \in SUBSET (1 .. n)
  OBVIOUS
<1>3. next = IF I # {} THEN Min(I) ELSE 0
  BY DEF NextIn
<1> HIDE DEF I, next
<1>4. I # {} => Min(I) \in I
  <2>1. I # {} => \E x \in I : \A y \in I : x <= y
    BY <1>2, LeastNat
  <2>. QED BY <2>1 DEF Min
<1>5. next \in 0 .. n
  <2>1. I # {} => Min(I) \in 1 .. n
    BY <1>2, <1>4
  <2> HIDE DEF n
  <2>. QED BY <1>1, <1>3, <2>1
<1> DEFINE left == IF next = 0 THEN <<>> ELSE SubSeq(rest, next, n)
<1>6. Left(order, folding) = left
  BY DEF Left, next
<1> HIDE DEF rest
<1>7. left \in Seq(Seats) /\ Len(left) \in Nat /\ Len(left) <= n
  <2>1. CASE next = 0
    BY <1>1, <2>1
  <2>2. CASE next # 0
    <3>1. next \in 1 .. n
      BY <1>1, <1>5, <2>2
    <3>2. SubSeq(rest, next, n) \in Seq(Seats) /\ Len(SubSeq(rest, next, n)) = n - next + 1
      BY <1>1, <3>1
    <3>3. n - next + 1 \in Nat /\ n - next + 1 <= n
      BY <1>1, <3>1
    <3>. QED BY <2>2, <3>2, <3>3
  <2>. QED BY <2>1, <2>2
<1> HIDE DEF left, n
<1>. QED BY <1>1, <1>6, <1>7

\* An action ends the hand or leaves somebody to act.
LEMMA ApplyParts ==
  ASSUME NEW o, IsOutcome(o), o.core \in LocalTable, o.core.order # <<>>
  PROVE  LET a == ApplyAction(o) IN
         /\ IsOutcome(a) /\ CoreOK(a.core)
         /\ o.core.seed = NoSeed =>
              /\ o.core.out \subseteq a.core.out /\ o.core.broke \subseteq a.core.broke
              /\ a.core.seed = NoSeed
              /\ \/ /\ a.told = o.told /\ a.core.out = o.core.out /\ a.core.broke = o.core.broke
                    /\ a.core.dealt = o.core.dealt /\ a.core.button = o.core.button
                    /\ a.core.deck = o.core.deck
                 \/ /\ a.told = o.told \cup {"showdown"} /\ a.core.dealt = {}
                    /\ a.core.button = FirstAfter(o.core.button, Seats)
<1> DEFINE c == o.core
           left == Left(c.order, c.folding)
           events == c.events + Len(c.order) - Len(left)
           c1 == [c EXCEPT !.order = left]
           k == [c1 EXCEPT !.events = events]
           o1 == [o EXCEPT !.core.order = left]
           acted == [o EXCEPT !.core.order = left, !.core.events = @ + Len(c.order) - Len(left)]
           a == ApplyAction(o)
<1>0. c \in LocalTable /\ c.order \in Seq(Seats) /\ c.order # <<>> /\ c.events \in Nat
  BY DEF LocalTable
<1>1. left \in Seq(Seats) /\ events \in Nat
  <2>1. left \in Seq(Seats) /\ Len(left) \in Nat /\ Len(left) <= Len(c.order)
    BY <1>0, LeftType
  <2>2. Len(c.order) \in Nat
    BY <1>0
  <2> DEFINE x == c.events
             y == Len(c.order)
             z == Len(left)
  <2> HIDE DEF x, y, z
  <2>3. x \in Nat /\ y \in Nat /\ z \in Nat /\ z <= y
    BY <1>0, <2>1, <2>2 DEF x, y, z
  <2>4. x + y - z \in Nat
    BY ONLY <2>3
  <2>. QED BY <2>1, <2>4 DEF x, y, z
<1>2. a = IF left = <<>> THEN SettleHand(acted) ELSE acted
  BY DEF ApplyAction, Left, NextIn, SelectInSeq
<1>3. c1 \in LocalTable /\ c1.events = c.events
  <2> HIDE DEF left
  <2>. QED BY <1>0, <1>1 DEF LocalTable
<1>4. acted = [core |-> k, told |-> o.told, list |-> o.list]
  <2>1. o1 = [core |-> c1, told |-> o.told, list |-> o.list]
    <3> HIDE DEF left
    <3>. QED BY <1>0 DEF IsOutcome
  <2>2. o1.core = c1 /\ o1.told = o.told
    <3> HIDE DEF o1, c1
    <3>. QED BY <2>1
  <2>3. o1.core.events + Len(c.order) - Len(left) = events
    <3> HIDE DEF o1, c1, left
    <3>. QED BY <1>3, <2>2
  <2>4. acted = [o1 EXCEPT !.core = [o1.core EXCEPT !.events = events]]
    <3>1. acted = [o1 EXCEPT !.core.events = @ + Len(c.order) - Len(left)]
      <4> HIDE DEF left
      <4>. QED OBVIOUS
    <3> HIDE DEF o1, left, events, acted
    <3>. QED BY <2>3, <3>1, Zenon
  <2> HIDE DEF o1, c1, events, left, acted
  <2>. QED BY <2>1, <2>2, <2>4
<1> HIDE DEF left, events, a, c
<1>5. /\ k \in LocalTable /\ k.out = c.out /\ k.broke = c.broke /\ k.seed = c.seed /\ k.dealt = c.dealt
      /\ k.button = c.button /\ k.deck = c.deck /\ k.order = left
  BY <1>0, <1>1 DEF LocalTable
<1> HIDE DEF k
<1> DEFINE after == [core |-> k, told |-> o.told, list |-> o.list]
<1> HIDE DEF acted
<1>7. after.core = k /\ after.told = o.told /\ IsOutcome(after)
  BY DEF IsOutcome
<1> HIDE DEF after
<1>8. CASE left = <<>>
  <2>1. a = SettleHand(after)
    BY <1>2, <1>4, <1>8 DEF after
  <2>. QED BY <1>5, <1>7, <2>1, SettleParts DEF c, a
<1>9. CASE left # <<>>
  <2>1. a = after
    BY <1>2, <1>4, <1>9 DEF after
  <2>2. CoreOK(a.core)
    BY <1>5, <1>7, <1>9, <2>1 DEF CoreOK
  <2>. QED BY <1>5, <1>7, <2>1, <2>2 DEF c, a
<1>. QED BY <1>8, <1>9

\* What a core that differs in nothing but its order of play has in common with the other.
Alike(c, d) ==
  /\ c.out = d.out /\ c.broke = d.broke /\ c.button = d.button /\ c.seed = d.seed
  /\ c.dealt = d.dealt /\ c.deck = d.deck

LEMMA SeatUpdateParts ==
  ASSUME NEW o, IsOutcome(o), CoreOK(o.core)
  PROVE  LET u == SeatUpdate(o) IN
         /\ IsOutcome(u) /\ CoreOK(u.core) /\ u.told = o.told \cup {"seat_update"}
         /\ Alike(u.core, o.core) /\ u.list = Unfit(o.core)
<1> DEFINE c == o.core
           events == c.events + 1
           k == [c EXCEPT !.events = events]
           told == o.told \cup {"seat_update"}
           list == Unfit(c)
           u == SeatUpdate(o)
<1>1. c \in LocalTable /\ events \in Nat
  BY DEF CoreOK, LocalTable
<1>2. u = [core |-> k, told |-> told, list |-> list]
  <2>1. u = [o EXCEPT !.core.events = @ + 1, !.told = @ \cup {"seat_update"}, !.list = list]
    BY DEF SeatUpdate
  <2> HIDE DEF u, list
  <2>. QED BY <1>1, <2>1 DEF IsOutcome
<1>6. list \subseteq Seats
  <2> HIDE DEF c
  <2>. QED BY <1>1, UnfitType
<1> HIDE DEF c, events, list
<1>3. /\ k \in LocalTable /\ k.out = c.out /\ k.broke = c.broke /\ k.seed = c.seed
      /\ k.dealt = c.dealt /\ k.button = c.button /\ k.deck = c.deck /\ k.order = c.order
  BY <1>1 DEF LocalTable
<1> HIDE DEF k, told, u
<1>4. u.core = k /\ u.told = told /\ u.list = list /\ IsOutcome(u)
  BY <1>2, <1>6 DEF IsOutcome
<1>5. CoreOK(k) /\ Alike(k, c)
  BY <1>3 DEF CoreOK, Running, Alike, c
<1>. QED BY <1>4, <1>5 DEF c, u, told, list

LEMMA QuietParts ==
  ASSUME NEW c
  PROVE  Quiet(c).core = c /\ Quiet(c).told = {} /\ IsOutcome(Quiet(c))
BY DEF Quiet, IsOutcome

\* A sit_in tells of the seats, and deals if the seed is there.
LEMMA SitInParts ==
  ASSUME NEW c, CoreOK(c), NEW s \in Seats
  PROVE  \E u : /\ IsOutcome(u) /\ CoreOK(u.core) /\ u.told = {"seat_update"}
                /\ u.core.out = c.out \ {s} /\ u.core.broke = c.broke
                /\ u.core.button = c.button
                /\ u.core.seed = c.seed /\ u.core.dealt = c.dealt
                /\ ~Running(c) => u.list = (c.out \ {s}) \cup c.broke
                /\ HandleSitIn(Quiet(c), s) = StartHandIfReady(u)
<1> DEFINE k == [c EXCEPT !.out = @ \ {s}, !.folding = @ \ {s}]
           o == [core |-> k, told |-> {}, list |-> {}]
           u == SeatUpdate(o)
<1>1. [Quiet(c) EXCEPT !.core.out = @ \ {s}, !.core.folding = @ \ {s}] = o
  <2>1. c \in LocalTable
    BY DEF CoreOK
  <2> DEFINE q == Quiet(c)
             out == c.out \ {s}
             folding == c.folding \ {s}
             q1 == [q EXCEPT !.core.out = out]
             k1 == [c EXCEPT !.out = out]
  <2>2. q = [core |-> c, told |-> {}, list |-> {}] /\ q.core = c
    BY DEF Quiet
  <2> HIDE DEF q
  <2>3. q.core.out \ {s} = out /\ q.core.folding \ {s} = folding
    BY <2>2
  <2>4. [q EXCEPT !.core.out = @ \ {s}, !.core.folding = @ \ {s}]
          = [q EXCEPT !.core.out = out, !.core.folding = @ \ {s}]
    <3> HIDE DEF out
    <3>. QED BY <2>3, Zenon
  <2> HIDE DEF out
  <2>5. q1 = [core |-> k1, told |-> {}, list |-> {}]
        /\ k1 \in [DOMAIN c -> {k1[f] : f \in DOMAIN c}]
    BY <2>2
  <2>6. k1.folding = c.folding
    BY <2>1 DEF LocalTable
  <2>7. [q EXCEPT !.core.out = out, !.core.folding = @ \ {s}] = [q1 EXCEPT !.core.folding = @ \ {s}]
    OBVIOUS
  <2>8. q1.core.folding \ {s} = folding
    <3> HIDE DEF q1, k1
    <3>. QED BY <2>5, <2>6
  <2>9. [q1 EXCEPT !.core.folding = @ \ {s}] = [q1 EXCEPT !.core.folding = folding]
    <3> HIDE DEF q1, folding
    <3>. QED BY <2>8, Zenon
  <2>10. [q1 EXCEPT !.core.folding = folding]
           = [core |-> [k1 EXCEPT !.folding = folding], told |-> {}, list |-> {}]
    <3> HIDE DEF q1, k1, folding
    <3>. QED BY <2>5
  <2>11. [c EXCEPT !.out = @ \ {s}, !.folding = @ \ {s}] = [k1 EXCEPT !.folding = folding]
    BY <2>1 DEF LocalTable, out
  <2> HIDE DEF q1, k1, folding
  <2>12. [q EXCEPT !.core.out = @ \ {s}, !.core.folding = @ \ {s}] = o
    BY <2>4, <2>7, <2>9, <2>10, <2>11, Zenon
  <2>. QED BY <2>12 DEF q
<1>2. HandleSitIn(Quiet(c), s) = StartHandIfReady(u)
  <2> HIDE DEF o
  <2>. QED BY <1>1 DEF HandleSitIn
<1>3. c \in LocalTable
  BY DEF CoreOK
<1>4. /\ k \in LocalTable /\ k.out = c.out \ {s} /\ k.broke = c.broke /\ k.seed = c.seed
      /\ k.dealt = c.dealt /\ k.button = c.button /\ k.order = c.order
  BY <1>3 DEF LocalTable
<1> HIDE DEF k
<1>5. o.core = k /\ o.told = {} /\ IsOutcome(o)
  BY DEF IsOutcome
<1>6. CoreOK(k)
  BY <1>4 DEF CoreOK, Running
<1> HIDE DEF o
<1>7. IsOutcome(u) /\ CoreOK(u.core) /\ u.told = {"seat_update"} /\ Alike(u.core, k)
      /\ u.list = Unfit(k)
  BY <1>5, <1>6, SeatUpdateParts
<1>8. ~Running(c) => u.list = (c.out \ {s}) \cup c.broke
  BY <1>4, <1>7, UnfitType DEF Running
<1> HIDE DEF u
<1>. QED BY <1>2, <1>4, <1>7, <1>8 DEF Alike

\* New chips do no less, and refused they do less.
LEMMA RebuyType ==
  ASSUME NEW c, CoreOK(c), NEW s \in Seats
  PROVE  IsOutcome(HandleRebuy(Quiet(c), s)) /\ CoreOK(HandleRebuy(Quiet(c), s).core)
<1> DEFINE q == Quiet(c)
           a == HandleRebuy(q, s)
<1>1. q = [core |-> c, told |-> {}, list |-> {}] /\ q.core = c
  BY DEF Quiet
<1>2. c \in LocalTable
  BY DEF CoreOK
<1> HIDE DEF q
<1>3. CASE Running(c)
  <2> DEFINE more == c.events + 1
             k == [c EXCEPT !.events = more]
  <2>1. a = [q EXCEPT !.core.events = @ + 1]
    BY <1>1, <1>3 DEF HandleRebuy
  <2>2. q.core.events + 1 = more
    BY <1>1
  <2>3. a = [q EXCEPT !.core.events = more]
    <3> HIDE DEF more, a
    <3>. QED BY <2>1, <2>2, Zenon
  <2>4. more \in Nat
    BY <1>2 DEF LocalTable
  <2> HIDE DEF more, a
  <2>5. k \in LocalTable /\ k.dealt = c.dealt /\ k.order = c.order
    BY <1>2, <2>4 DEF LocalTable
  <2>6. a = [core |-> k, told |-> {}, list |-> {}]
    BY <1>1, <2>3
  <2> HIDE DEF k
  <2>7. a.core = k /\ IsOutcome(a)
    BY <2>6 DEF IsOutcome
  <2>. QED BY <2>5, <2>7 DEF CoreOK, Running, a, q
<1>4. CASE ~Running(c)
  <2> DEFINE out == c.out \ {s}
             broke == c.broke \ {s}
             q1 == [q EXCEPT !.core.out = out]
             k1 == [c EXCEPT !.out = out]
             k == [k1 EXCEPT !.broke = broke]
             o == [core |-> k, told |-> {}, list |-> {}]
             then == [q EXCEPT !.core.out = @ \ {s}, !.core.broke = @ \ {s}]
  <2>1. a = StartHandIfReady(SeatUpdate(then))
    BY <1>1, <1>4 DEF HandleRebuy
  <2>2. then = o
    <3>1. q.core.out \ {s} = out
      BY <1>1
    <3>2. then = [q EXCEPT !.core.out = out, !.core.broke = @ \ {s}]
      <4> HIDE DEF out
      <4>. QED BY <3>1, Zenon
    <3>3. then = [q1 EXCEPT !.core.broke = @ \ {s}]
      <4> HIDE DEF out, then
      <4>. QED BY <3>2
    <3>4. q1 = [core |-> k1, told |-> {}, list |-> {}]
      <4> HIDE DEF out
      <4>. QED BY <1>1
    <3>5. k1.broke = c.broke
      BY <1>2 DEF LocalTable
    <3>6. q1.core.broke \ {s} = broke
      <4> HIDE DEF q1, k1
      <4>. QED BY <3>4, <3>5
    <3>7. then = [q1 EXCEPT !.core.broke = broke]
      <4> HIDE DEF q1, broke, then
      <4>. QED BY <3>3, <3>6, Zenon
    <3> HIDE DEF q1, k1, broke, then
    <3>. QED BY <3>4, <3>7
  <2> HIDE DEF then
  <2>3. out \subseteq Seats /\ broke \subseteq Seats
    BY <1>2 DEF LocalTable
  <2> HIDE DEF out, broke
  <2>4. k1 \in LocalTable /\ k1.dealt = c.dealt
    BY <1>2, <2>3 DEF LocalTable
  <2> HIDE DEF k1
  <2>5. k \in LocalTable /\ k.dealt = c.dealt
    BY <2>3, <2>4 DEF LocalTable
  <2> HIDE DEF k
  <2>6. o.core = k /\ IsOutcome(o)
    BY DEF IsOutcome
  <2>7. CoreOK(k)
    BY <1>4, <2>5 DEF CoreOK, Running
  <2> HIDE DEF o
  <2>8. IsOutcome(SeatUpdate(o)) /\ CoreOK(SeatUpdate(o).core)
    BY <2>6, <2>7, SeatUpdateParts
  <2>. QED BY <2>1, <2>2, <2>8, StartParts DEF q
<1>. QED BY <1>3, <1>4

\* A bet of a seat tells nobody, or ends the hand; out of turn it changes no seat.
LEMMA BetParts ==
  ASSUME NEW c, CoreOK(c), NEW s
  PROVE  LET a == HandleBet(Quiet(c), s) IN
         /\ IsOutcome(a) /\ CoreOK(a.core)
         /\ c.seed = NoSeed =>
              \/ a.told = {} /\ Alike(a.core, c)
              \/ /\ Running(c) /\ a.told = {"showdown"} /\ a.core.dealt = {}
                 /\ c.out \subseteq a.core.out /\ c.broke \subseteq a.core.broke
                 /\ a.core.seed = NoSeed
                 /\ a.core.button = FirstAfter(c.button, Seats)
<1> DEFINE a == HandleBet(Quiet(c), s)
<1>1. CASE ToAct(c, s)
  <2>1. a = ApplyAction(Quiet(c))
    BY <1>1, QuietParts DEF HandleBet
  <2>2. Running(c) /\ c \in LocalTable /\ c.order # <<>>
    BY <1>1 DEF ToAct, CoreOK
  <2> DEFINE o == Quiet(c)
  <2>3. o.core = c /\ o.told = {} /\ IsOutcome(o)
    BY QuietParts
  <2> HIDE DEF o
  <2>4. /\ IsOutcome(a) /\ CoreOK(a.core)
        /\ c.seed = NoSeed =>
             /\ c.out \subseteq a.core.out /\ c.broke \subseteq a.core.broke
             /\ a.core.seed = NoSeed
             /\ \/ /\ a.told = o.told /\ a.core.out = c.out /\ a.core.broke = c.broke
                   /\ a.core.dealt = c.dealt /\ a.core.button = c.button
                   /\ a.core.deck = c.deck
                \/ /\ a.told = o.told \cup {"showdown"} /\ a.core.dealt = {}
                   /\ a.core.button = FirstAfter(c.button, Seats)
    BY <2>1, <2>2, <2>3, ApplyParts DEF o
  <2> HIDE DEF a
  <2>. QED BY <2>2, <2>3, <2>4 DEF Alike, a
<1>2. CASE ~ToAct(c, s)
  <2> DEFINE k == [c EXCEPT !.events = @ + 1]
  <2>1. c \in LocalTable
    BY DEF CoreOK
  <2>2. a = [core |-> k, told |-> {}, list |-> {}]
    <3>1. a = [Quiet(c) EXCEPT !.core.events = @ + 1]
      BY <1>2, QuietParts DEF HandleBet
    <3> HIDE DEF a
    <3>. QED BY <2>1, <3>1 DEF Quiet, LocalTable
  <2>3. /\ k.out = c.out /\ k.broke = c.broke /\ k.seed = c.seed /\ k.dealt = c.dealt
        /\ k.button = c.button /\ k.deck = c.deck /\ k.order = c.order
    BY <2>1 DEF LocalTable
  <2>4. k \in LocalTable
    <3>1. c.events + 1 \in Nat
      BY <2>1 DEF LocalTable
    <3> DEFINE more == c.events + 1
    <3>2. k = [c EXCEPT !.events = more] /\ more \in Nat
      BY <3>1
    <3> HIDE DEF more, k
    <3>. QED BY ONLY <2>1, <3>2 DEF LocalTable
  <2> HIDE DEF k, a
  <2>5. a.core = k /\ a.told = {} /\ IsOutcome(a)
    BY <2>2 DEF IsOutcome
  <2>6. CoreOK(k)
    BY ONLY <2>3, <2>4, CoreOK(c) DEF CoreOK, Running
  <2>7. Alike(k, c)
    BY ONLY <2>3 DEF Alike
  <2>. QED BY <2>5, <2>6, <2>7 DEF a
<1>. QED BY <1>1, <1>2

\* So does the end of a seat's time, which sits it out.
LEMMA TimeoutParts ==
  ASSUME NEW c, CoreOK(c)
  PROVE  LET a == HandleFoldOnTimeout(Quiet(c)) IN
         /\ IsOutcome(a) /\ CoreOK(a.core)
         /\ c.seed = NoSeed /\ Running(c) =>
              /\ c.out \subseteq a.core.out /\ c.broke \subseteq a.core.broke
              /\ a.core.seed = NoSeed
              /\ \/ /\ a.told = {} /\ a.core.dealt = c.dealt /\ a.core.button = c.button
                    /\ a.core.deck = c.deck
                 \/ /\ a.told = {"showdown"} /\ a.core.dealt = {}
                    /\ a.core.button = FirstAfter(c.button, Seats)
<1> DEFINE a == HandleFoldOnTimeout(Quiet(c))
<1>1. CASE ~Running(c)
  <2>1. a = Quiet(c)
    BY <1>1, QuietParts DEF HandleFoldOnTimeout
  <2>. QED BY <1>1, <2>1, QuietParts
<1>2. CASE Running(c)
  <2> DEFINE h == Head(c.order)
             out == c.out \cup {h}
             k == [c EXCEPT !.out = out]
             o == [core |-> k, told |-> {}, list |-> {}]
  <2>1. c \in LocalTable /\ c.order # <<>>
    BY <1>2 DEF CoreOK
  <2>2. h \in Seats
    BY <2>1 DEF LocalTable
  <2>3. a = ApplyAction(o)
    <3>1. a = ApplyAction([Quiet(c) EXCEPT !.core.out = @ \cup {Head(Quiet(c).core.order)}])
      BY <1>2, QuietParts DEF HandleFoldOnTimeout
    <3>2. [Quiet(c) EXCEPT !.core.out = @ \cup {Head(Quiet(c).core.order)}] = o
      <4>1. Quiet(c).core.order = c.order
        BY QuietParts
      <4>2. [Quiet(c) EXCEPT !.core.out = @ \cup {h}] = o
        <5> DEFINE q == Quiet(c)
        <5>1. q = [core |-> c, told |-> {}, list |-> {}] /\ q.core = c
          BY DEF Quiet
        <5>2. q.core.out \cup {h} = out
          <6> HIDE DEF q, h
          <6>. QED BY <5>1
        <5> HIDE DEF q, h, out
        <5>3. [q EXCEPT !.core.out = out] = o
          BY <5>1
        <5>4. [q EXCEPT !.core.out = @ \cup {h}] = [q EXCEPT !.core.out = out]
          BY <5>2, Zenon
        <5>5. [q EXCEPT !.core.out = @ \cup {h}] = o
          <6> HIDE DEF o
          <6>. QED BY <5>3, <5>4
        <5>. QED BY <5>5 DEF q
      <4>. QED BY <4>1, <4>2
    <3> HIDE DEF o, a
    <3>. QED BY <3>1, <3>2
  <2> HIDE DEF h, a
  <2>4. /\ k \in LocalTable /\ k.out = out /\ k.broke = c.broke /\ k.seed = c.seed
        /\ k.dealt = c.dealt /\ k.button = c.button /\ k.deck = c.deck /\ k.order = c.order
        /\ c.out \subseteq out /\ out \subseteq Seats
    BY <2>1, <2>2 DEF LocalTable
  <2> HIDE DEF k, out
  <2>5. o.core = k /\ o.told = {} /\ IsOutcome(o)
    BY DEF IsOutcome
  <2> HIDE DEF o
  <2>6. /\ IsOutcome(a) /\ CoreOK(a.core)
        /\ k.seed = NoSeed =>
             /\ k.out \subseteq a.core.out /\ k.broke \subseteq a.core.broke
             /\ a.core.seed = NoSeed
             /\ \/ /\ a.told = o.told /\ a.core.dealt = k.dealt /\ a.core.button = k.button
                   /\ a.core.deck = k.deck
                \/ /\ a.told = o.told \cup {"showdown"} /\ a.core.dealt = {}
                   /\ a.core.button = FirstAfter(k.button, Seats)
    BY <2>1, <2>3, <2>4, <2>5, ApplyParts
  <2>. QED BY <2>4, <2>5, <2>6 DEF a
<1>. QED BY <1>1, <1>2

LEMMA SitOutType ==
  ASSUME NEW c, CoreOK(c), NEW s \in Seats
  PROVE  IsOutcome(HandleSitOut(Quiet(c), s)) /\ CoreOK(HandleSitOut(Quiet(c), s).core)
<1> DEFINE q == Quiet(c)
           out == c.out \cup {s}
           k == [c EXCEPT !.out = out]
           outNow == [q EXCEPT !.core.out = @ \cup {s}]
           folding == c.folding \cup {s}
           later == [outNow EXCEPT !.core.folding = @ \cup {s}]
           then == IF ToAct(q.core, s) THEN ApplyAction(outNow)
                   ELSE IF s \in q.core.dealt THEN later ELSE outNow
<1>1. q = [core |-> c, told |-> {}, list |-> {}] /\ q.core = c
  BY DEF Quiet
<1>2. HandleSitOut(q, s) = SeatUpdate(then)
  BY DEF HandleSitOut
<1> HIDE DEF q
<1>3. c \in LocalTable
  BY DEF CoreOK
<1>4. /\ k \in LocalTable /\ k.dealt = c.dealt /\ k.order = c.order /\ k.folding = c.folding
  BY <1>3 DEF LocalTable
<1>5. outNow = [core |-> k, told |-> {}, list |-> {}]
  <2>1. q.core.out \cup {s} = out
    BY <1>1
  <2>2. outNow = [q EXCEPT !.core.out = out]
    <3> HIDE DEF out
    <3>. QED BY <2>1, Zenon
  <2> HIDE DEF out, outNow
  <2>. QED BY <1>1, <2>2
<1> HIDE DEF k, outNow
<1>6. outNow.core = k /\ IsOutcome(outNow)
  BY <1>5 DEF IsOutcome
<1>7. CoreOK(k)
  BY <1>4 DEF CoreOK, Running
<1>8. IsOutcome(later) /\ CoreOK(later.core)
  <2> DEFINE l == [k EXCEPT !.folding = folding]
  <2>1. outNow.core.folding \cup {s} = folding
    BY <1>4, <1>6
  <2>2. later = [outNow EXCEPT !.core.folding = folding]
    <3> HIDE DEF folding
    <3>. QED BY <2>1, Zenon
  <2>3. l \in LocalTable /\ l.dealt = k.dealt /\ l.order = k.order
    BY <1>3, <1>4 DEF LocalTable
  <2> HIDE DEF folding, later
  <2>4. later = [core |-> l, told |-> {}, list |-> {}]
    BY <1>5, <2>2
  <2> HIDE DEF l
  <2>5. later.core = l /\ IsOutcome(later)
    BY <2>4 DEF IsOutcome
  <2>. QED BY <1>7, <2>3, <2>5 DEF CoreOK, Running
<1>9. ToAct(c, s) => IsOutcome(ApplyAction(outNow)) /\ CoreOK(ApplyAction(outNow).core)
  <2> SUFFICES ASSUME ToAct(c, s)
               PROVE  IsOutcome(ApplyAction(outNow)) /\ CoreOK(ApplyAction(outNow).core)
    OBVIOUS
  <2>1. k.order # <<>> /\ k \in LocalTable
    BY <1>4 DEF CoreOK, ToAct
  <2>. QED BY <1>6, <2>1, ApplyParts
<1> HIDE DEF later
<1>10. IsOutcome(then) /\ CoreOK(then.core)
  BY <1>1, <1>6, <1>7, <1>8, <1>9
<1> HIDE DEF then
<1>. QED BY <1>2, <1>10, SeatUpdateParts DEF q

LEMMA VoidType ==
  ASSUME NEW c, CoreOK(c)
  PROVE  IsOutcome(VoidHand(Quiet(c))) /\ CoreOK(VoidHand(Quiet(c)).core)
<1>1. CASE ~Running(c)
  <2>1. VoidHand(Quiet(c)) = Quiet(c)
    BY <1>1, QuietParts DEF VoidHand
  <2>. QED BY <2>1, QuietParts
<1>2. CASE Running(c)
  <2> DEFINE none == <<>>
             events == c.events + 2
             k == [c EXCEPT !.dealt = {}, !.order = none, !.deck = none, !.events = events]
             told == {} \cup {"seat_update"}
             list == c.out \cup c.broke
             v == VoidHand(Quiet(c))
  <2>1. /\ c \in LocalTable /\ events \in Nat /\ none \in Seq(Nat) /\ none \in Seq(Seats)
        /\ list \subseteq Seats
    BY DEF CoreOK, LocalTable
  <2>2. v = [core |-> k, told |-> told, list |-> list]
    BY <1>2 DEF VoidHand, Quiet, NoSeed
  <2> HIDE DEF none, events, told, list, v
  <2>3. k \in LocalTable /\ k.dealt = {}
    BY <2>1 DEF LocalTable
  <2> HIDE DEF k
  <2>4. v.core = k /\ IsOutcome(v)
    BY <2>1, <2>2 DEF IsOutcome
  <2>. QED BY <2>3, <2>4 DEF CoreOK, Running, v
<1>. QED BY <1>1, <1>2

\* The seed of the next hand is kept.
LEMMA SeedParts ==
  ASSUME NEW c, CoreOK(c), NEW seed \in Seq(Nat)
  PROVE  LET k == [c EXCEPT !.seed = seed] IN
         /\ CoreOK(k) /\ k.seed = seed /\ k.out = c.out /\ k.broke = c.broke
         /\ k.button = c.button /\ k.dealt = c.dealt
<1> DEFINE k == [c EXCEPT !.seed = seed]
<1>1. c \in LocalTable
  BY DEF CoreOK
<1>2. /\ k \in LocalTable /\ k.seed = seed /\ k.out = c.out /\ k.broke = c.broke
      /\ k.button = c.button /\ k.dealt = c.dealt /\ k.order = c.order
  BY <1>1 DEF LocalTable
<1> HIDE DEF k
<1>3. CoreOK(k)
  BY <1>2 DEF CoreOK, Running
<1>. QED BY <1>2, <1>3 DEF k

AllKinds == Kinds \cup {"seed", "void", "timeout", "sit_in"}

\* What an entry is by itself; its hash is another matter.
WellMade(e) ==
  /\ e = [seq |-> e.seq, kind |-> e.kind, actor |-> e.actor, by |-> e.by, id |-> e.id,
          hash |-> e.hash]
  /\ e.kind \in AllKinds /\ e.actor \in Peers /\ e.by \in Peers /\ e.id \in 0 .. MaxActions
  /\ e.seq \in Nat

LEMMA RunType ==
  ASSUME NEW c, CoreOK(c), NEW e, WellMade(e)
  PROVE  IsOutcome(RunOnCore(c, e)) /\ CoreOK(RunOnCore(c, e).core)
<1> DEFINE o == RunOnCore(c, e)
<1>1. e.kind \in {"seed", "void", "timeout", "act", "sit_in", "sit_out", "rebuy"}
      /\ e.actor \in Seats /\ e.by \in Nat /\ e.seq \in Nat
  BY MeshAssumption, NumSeatsAssumption DEF WellMade, AllKinds, Peers, Seats
<1>2. CASE e.kind = "seed"
  <2> DEFINE seed == <<e.by, e.seq>>
             k == [c EXCEPT !.seed = seed]
  <2>1. o = Quiet(k)
    BY <1>2 DEF RunOnCore
  <2>2. seed \in Seq(Nat)
    BY <1>1
  <2> HIDE DEF seed
  <2>3. CoreOK(k)
    BY <2>2, SeedParts
  <2> HIDE DEF k
  <2>. QED BY <2>1, <2>3, QuietParts
<1>3. CASE e.kind = "void"
  <2>1. o = VoidHand(Quiet(c))
    BY <1>3 DEF RunOnCore
  <2>. QED BY <2>1, VoidType
<1>4. CASE e.kind = "timeout"
  <2>1. o = HandleFoldOnTimeout(Quiet(c))
    BY <1>4 DEF RunOnCore
  <2>. QED BY <2>1, TimeoutParts
<1>5. CASE e.kind = "act"
  <2>1. o = HandleBet(Quiet(c), e.actor)
    BY <1>5 DEF RunOnCore
  <2>. QED BY <2>1, BetParts
<1>6. CASE e.kind = "sit_in"
  <2>1. o = HandleSitIn(Quiet(c), e.actor)
    BY <1>6 DEF RunOnCore
  <2>2. PICK u : IsOutcome(u) /\ CoreOK(u.core) /\ o = StartHandIfReady(u)
    BY <1>1, <2>1, SitInParts
  <2>. QED BY <2>2, StartParts
<1>7. CASE e.kind = "sit_out"
  <2>1. o = HandleSitOut(Quiet(c), e.actor)
    BY <1>7 DEF RunOnCore
  <2>. QED BY <1>1, <2>1, SitOutType
<1>8. CASE e.kind = "rebuy"
  <2>1. o = HandleRebuy(Quiet(c), e.actor)
    BY <1>8 DEF RunOnCore
  <2>. QED BY <1>1, <2>1, RebuyType
<1>. QED BY <1>1, <1>2, <1>3, <1>4, <1>5, <1>6, <1>7, <1>8

LEMMA NextViewParts ==
  ASSUME NEW view, NEW p, NEW e, NEW o
  PROVE  LET v == NextView(view, p, e, o)
             dealt == "hand_dealt" \in o.told /\ p \in o.core.dealt
         IN  /\ v.out = IF "seat_update" \in o.told THEN o.list ELSE view.out
             /\ v.button = IF dealt THEN o.core.button ELSE view.button
             /\ v.running <=> /\ dealt \/ (view.running /\ "showdown" \notin o.told)
                              /\ e.kind # "void"
BY DEF NextView, UpdateView

ViewOK(v) ==
  v.out \subseteq Seats /\ v.button \in Starts /\ (v.running => v.button \in Seats)

LEMMA NextViewType ==
  ASSUME NEW view, ViewOK(view), NEW o, IsOutcome(o), CoreOK(o.core), NEW p, NEW e
  PROVE  ViewOK(NextView(view, p, e, o))
<1>0. o.list \subseteq Seats
  BY DEF IsOutcome
<1>1. o.core.out \subseteq Seats /\ o.core.button \in Starts /\ o.core.button \in Seats
  BY NumSeatsAssumption DEF CoreOK, LocalTable, Seats, Starts
<1> DEFINE v == NextView(view, p, e, o)
           dealt == "hand_dealt" \in o.told /\ p \in o.core.dealt
<1>2. /\ v.out = IF "seat_update" \in o.told THEN o.list ELSE view.out
      /\ v.button = IF dealt THEN o.core.button ELSE view.button
      /\ v.running => dealt \/ view.running
  BY NextViewParts
<1> HIDE DEF v, dealt
<1>3. ViewOK(v)
  BY <1>0, <1>1, <1>2 DEF ViewOK
<1>. QED BY <1>3 DEF v

\* Whatever log of entries of the mesh a core runs, the core and the view are well formed.
LEMMA ReplayType ==
  ASSUME NEW S, \A e \in S : WellMade(e), NEW log \in Seq(S), NEW p, NEW d
  PROVE  CoreOK(Replay(p, log, d).core) /\ ViewOK(Replay(p, log, d).view)
<1> DEFINE Fit(x) == CoreOK(Replay(p, x, d).core) /\ ViewOK(Replay(p, x, d).view)
           T == {x \in Seq(S) : Fit(x)}
<1>1. <<>> \in T
  <2>1. <<>> \in Seq(S)
    OBVIOUS
  <2>2. Replay(p, <<>>, d).core = NewLocalTable /\ Replay(p, <<>>, d).view = NewView
    <3>1. Replay(p, <<>>, d) = [NewNode EXCEPT !.dealing = d]
      BY ReplayNone
    <3>2. NewNode = [core |-> NewLocalTable, log |-> <<>>, view |-> NewView, dealing |-> FALSE]
      BY DEF NewNode
    <3> HIDE DEF NewLocalTable, NewView
    <3>. QED BY <3>1, <3>2
  <2>3. NewLocalTable \in LocalTable /\ NewLocalTable.dealt = {}
    BY NumSeatsAssumption DEF NewLocalTable, LocalTable, NoSeed, Seats
  <2>4. CoreOK(NewLocalTable)
    BY <2>3 DEF CoreOK, Running
  <2>5. ViewOK(NewView)
    BY NumSeatsAssumption DEF ViewOK, NewView, Nobody, Starts
  <2>. QED BY <2>1, <2>2, <2>4, <2>5
<1>2. ASSUME NEW x \in T, NEW e \in S PROVE Append(x, e) \in T
  <2> DEFINE n == Replay(p, x, d)
             o == RunOnCore(n.core, e)
             m == Replay(p, Append(x, e), d)
  <2>1. Append(x, e) \in Seq(S) /\ x \in Seq(S)
    OBVIOUS
  <2>2. CoreOK(n.core) /\ ViewOK(n.view) /\ WellMade(e)
    OBVIOUS
  <2>3. m = Committed(n, p, e, o)
    BY <2>1, ReplayAppend
  <2>4. m.core = o.core /\ m.view = NextView(n.view, p, e, o)
    BY <2>3, CommittedParts
  <2> HIDE DEF n, m
  <2>5. IsOutcome(o) /\ CoreOK(o.core)
    BY <2>2, RunType
  <2> HIDE DEF o
  <2>7. ViewOK(NextView(n.view, p, e, o))
    BY <2>2, <2>5, NextViewType
  <2>. QED BY <2>1, <2>4, <2>5, <2>7 DEF m
<1>3. T = Seq(S)
  <2> HIDE DEF T
  <2>1. T \in SUBSET Seq(S)
    BY DEF T
  <2>. QED BY <1>1, <1>2, <2>1, LogInduct
<1>. QED BY <1>3

-----------------------------------------------------------------------------
(* Numbering entries *)

Unstamped(n, p, kind, actor, id) ==
  [seq |-> NextSeq(n), kind |-> kind, actor |-> actor, by |-> p, id |-> id, hash |-> ""]

\* The entry that Emit makes.
Numbered(n, p, kind, actor, id) ==
  [Unstamped(n, p, kind, actor, id) EXCEPT
     !.hash = StateHash(RunOnCore(n.core, Unstamped(n, p, kind, actor, id)).core)]

LEMMA NumberedFields ==
  ASSUME NEW n, NEW p, NEW kind, NEW actor, NEW id
  PROVE  Numbered(n, p, kind, actor, id) =
           [seq |-> NextSeq(n), kind |-> kind, actor |-> actor, by |-> p, id |-> id,
            hash |-> StateHash(RunOnCore(n.core, Unstamped(n, p, kind, actor, id)).core)]
<1> DEFINE h == StateHash(RunOnCore(n.core, Unstamped(n, p, kind, actor, id)).core)
<1>1. Numbered(n, p, kind, actor, id) = [Unstamped(n, p, kind, actor, id) EXCEPT !.hash = h]
  BY DEF Numbered
<1> HIDE DEF h
<1>2. Numbered(n, p, kind, actor, id) =
        [seq |-> NextSeq(n), kind |-> kind, actor |-> actor, by |-> p, id |-> id, hash |-> h]
  BY <1>1 DEF Unstamped
<1>. QED BY <1>2 DEF h

\* The coordinator runs what everybody else will run, and stamps the outcome.
LEMMA EmitIsCommitted ==
  ASSUME NEW n, NEW p, NEW kind, NEW actor, NEW id
  PROVE  LET e == Numbered(n, p, kind, actor, id)
             o == RunOnCore(n.core, e)
         IN  Emit(n, p, kind, actor, id) = Committed(n, p, e, o) /\ e.hash = StateHash(o.core)
<1> DEFINE u == Unstamped(n, p, kind, actor, id)
           e == Numbered(n, p, kind, actor, id)
<1>1. /\ e.seq = u.seq /\ e.kind = u.kind /\ e.actor = u.actor /\ e.by = u.by
      /\ e.hash = StateHash(RunOnCore(n.core, u).core)
  BY NumberedFields DEF Unstamped
<1>2. Emit(n, p, kind, actor, id) = Committed(n, p, e, RunOnCore(n.core, u))
  BY DEF Emit, Unstamped, Numbered
<1> HIDE DEF u, e
<1>3. RunOnCore(n.core, e) = RunOnCore(n.core, u)
  BY <1>1 DEF RunOnCore
<1>. QED BY <1>1, <1>2, <1>3 DEF e, u

-----------------------------------------------------------------------------
(* Nodes whose log says all of core and view *)

\* Core and view are what the log makes of a new core, and every entry of the log leads to
\* the hash that it carries.
Faithful(n, p) ==
  /\ n.core = Replay(p, n.log, FALSE).core /\ n.view = Replay(p, n.log, FALSE).view
  /\ \A i \in DOMAIN n.log :
       n.log[i].hash = StateHash(Replay(p, SubSeq(n.log, 1, i), FALSE).core)

LEMMA CommittedIsFaithful ==
  ASSUME NEW S, NEW n, n.log \in Seq(S), NEW p, Faithful(n, p), NEW e \in S, NEW o,
         o = RunOnCore(n.core, e), e.hash = StateHash(o.core)
  PROVE  Faithful(Committed(n, p, e, o), p)
<1> DEFINE m == Committed(n, p, e, o)
           before == Replay(p, n.log, FALSE)
           after == Replay(p, Append(n.log, e), FALSE)
<1>1. m.core = o.core /\ m.log = Append(n.log, e) /\ m.view = NextView(n.view, p, e, o)
  BY CommittedParts
<1>2. before.core = n.core /\ before.view = n.view
  BY DEF Faithful
<1>3. after = Committed(before, p, e, RunOnCore(before.core, e))
  <2> DEFINE d == FALSE
  <2> HIDE DEF d
  <2>1. Replay(p, Append(n.log, e), d) =
          Committed(Replay(p, n.log, d), p, e, RunOnCore(Replay(p, n.log, d).core, e))
    BY ReplayAppend
  <2>. QED BY <2>1 DEF d
<1>4. after.core = o.core /\ after.view = NextView(n.view, p, e, o)
  <2> HIDE DEF before, after
  <2>. QED BY <1>2, <1>3, CommittedParts
<1>5. ASSUME NEW i \in DOMAIN m.log
      PROVE  m.log[i].hash = StateHash(Replay(p, SubSeq(m.log, 1, i), FALSE).core)
  <2>0. i \in 1 .. Len(n.log) \/ i = Len(n.log) + 1
    BY <1>1, AppendParts
  <2>1. CASE i \in 1 .. Len(n.log)
    <3>1. i \in DOMAIN n.log /\ m.log[i] = n.log[i] /\ SubSeq(m.log, 1, i) = SubSeq(n.log, 1, i)
      BY <1>1, <2>1, AppendParts
    <3>. QED BY <3>1 DEF Faithful
  <2>2. CASE i = Len(n.log) + 1
    <3>1. m.log[i] = e /\ SubSeq(m.log, 1, i) = Append(n.log, e)
      BY <1>1, <2>2, AppendParts
    <3>. QED BY <1>4, <3>1
  <2>. QED BY <2>0, <2>1, <2>2
<1> HIDE DEF m
<1>6. m.core = Replay(p, m.log, FALSE).core /\ m.view = Replay(p, m.log, FALSE).view
  BY <1>1, <1>4
<1>7. Faithful(m, p)
  BY <1>5, <1>6 DEF Faithful
<1>. QED BY <1>7 DEF m

-----------------------------------------------------------------------------
(* What a coordinator adds to its log *)

IsLog(l) == \E S : l \in Seq(S)

Shaped(n) == n = [core |-> n.core, log |-> n.log, view |-> n.view, dealing |-> n.dealing]

\* A node of peer p; R are the peers that wait for a snapshot.
Fine(n, p, R) ==
  /\ Shaped(n) /\ IsLog(n.log) /\ CoreOK(n.core) /\ ViewOK(n.view)
  /\ p \notin R => Faithful(n, p)

\* The entry that p numbered i.
Own(e, i, p) == WellMade(e) /\ e.seq = i /\ e.by = p /\ e.hash \in LocalTable

\* Log m goes on where log l ends, with entries that p numbered.
Extends(m, l, p) ==
  /\ Len(l) <= Len(m)
  /\ \A i \in 1 .. Len(l) : m[i] = l[i]
  /\ \A i \in Len(l) + 1 .. Len(m) : Own(m[i], i, p)

LEMMA LogParts ==
  ASSUME NEW l, IsLog(l)
  PROVE  Len(l) \in Nat /\ DOMAIN l = 1 .. Len(l)
BY DEF IsLog

LEMMA AppendIsLog ==
  ASSUME NEW l, IsLog(l), NEW e
  PROVE  /\ IsLog(Append(l, e)) /\ Len(Append(l, e)) = Len(l) + 1
         /\ Append(l, e)[Len(l) + 1] = e
         /\ \A i \in 1 .. Len(l) : Append(l, e)[i] = l[i]
<1>1. PICK S : l \in Seq(S)
  BY DEF IsLog
<1>2. l \in Seq(S \cup {e})
  BY <1>1
<1> DEFINE W == S \cup {e}
<1>3. e \in W
  OBVIOUS
<1> HIDE DEF W
<1>4. Append(l, e) \in Seq(W) /\ l \in Seq(W)
  BY <1>2, <1>3 DEF W
<1>. QED BY <1>3, <1>4, AppendParts DEF IsLog

LEMMA ExtendsTrans ==
  ASSUME NEW k, NEW l, NEW m, IsLog(k), IsLog(l), IsLog(m), NEW p,
         Extends(l, k, p), Extends(m, l, p)
  PROVE  Extends(m, k, p)
<1>1. Len(k) \in Nat /\ Len(l) \in Nat /\ Len(m) \in Nat /\ Len(k) <= Len(l) /\ Len(l) <= Len(m)
  BY LogParts DEF Extends
<1>2. ASSUME NEW i \in 1 .. Len(k) PROVE m[i] = k[i]
  <2>1. i \in 1 .. Len(l)
    BY <1>1
  <2>. QED BY <2>1 DEF Extends
<1>3. ASSUME NEW i \in Len(k) + 1 .. Len(m)
      PROVE  Own(m[i], i, p)
  <2>1. (i \in Len(k) + 1 .. Len(l) /\ i \in 1 .. Len(l)) \/ i \in Len(l) + 1 .. Len(m)
    BY <1>1
  <2>. QED BY <2>1 DEF Extends
<1>. QED BY <1>1, <1>2, <1>3 DEF Extends

LEMMA ExtendsSame ==
  ASSUME NEW l, IsLog(l), NEW p
  PROVE  Extends(l, l, p)
<1>1. Len(l) \in Nat
  BY LogParts
<1>2. Len(l) <= Len(l) /\ \A i : i \notin Len(l) + 1 .. Len(l)
  BY <1>1
<1>. QED BY <1>2 DEF Extends

LEMMA CommittedIsFine ==
  ASSUME NEW R, NEW p, NEW n, Fine(n, p, R), NEW e, WellMade(e), NEW o, o = RunOnCore(n.core, e),
         e.hash = StateHash(o.core)
  PROVE  Fine(Committed(n, p, e, o), p, R)
<1> DEFINE m == Committed(n, p, e, o)
<1>1. PICK S : n.log \in Seq(S)
  BY DEF Fine, IsLog
<1> DEFINE W == S \cup {e}
<1>2. n.log \in Seq(W) /\ e \in W
  BY <1>1
<1> HIDE DEF W
<1>3. p \notin R => Faithful(m, p)
  <2>1. Faithful(n, p) => Faithful(m, p)
    BY <1>2, CommittedIsFaithful
  <2> HIDE DEF m
  <2>. QED BY <2>1 DEF Fine
<1>4. IsLog(m.log)
  <2>1. IsLog(n.log)
    BY DEF Fine
  <2>2. IsLog(Append(n.log, e))
    BY <2>1, AppendIsLog
  <2>3. m.log = Append(n.log, e)
    BY CommittedParts
  <2>. QED BY ONLY <2>2, <2>3
<1>5. Shaped(m)
  BY DEF Committed, Shaped
<1>6. m.core = o.core /\ m.view = NextView(n.view, p, e, o)
  BY CommittedParts
<1>7. IsOutcome(o) /\ CoreOK(o.core)
  BY RunType DEF Fine
<1>8. ViewOK(NextView(n.view, p, e, o))
  BY <1>7, NextViewType DEF Fine
<1> HIDE DEF m
<1>9. Fine(m, p, R)
  BY <1>3, <1>4, <1>5, <1>6, <1>7, <1>8 DEF Fine
<1>. QED BY <1>9 DEF m

LEMMA HashType ==
  ASSUME NEW c \in LocalTable
  PROVE  StateHash(c) \in LocalTable
<1> DEFINE none == <<>>
<1>1. none \in Seq(Nat)
  OBVIOUS
<1>2. StateHash(c) = [c EXCEPT !.seed = none, !.folding = {}]
  BY DEF StateHash, NoSeed
<1> HIDE DEF none
<1>. QED BY <1>1, <1>2 DEF LocalTable

\* The coordinator's own entries keep its node fine, and add to its log one each.
LEMMA EmitGrows ==
  ASSUME NEW p \in Peers, NEW R, NEW n, Fine(n, p, R), NEW kind \in AllKinds,
         NEW actor \in Peers, NEW id \in 0 .. MaxActions
  PROVE  LET m == Emit(n, p, kind, actor, id) IN
         /\ Fine(m, p, R) /\ Extends(m.log, n.log, p)
         /\ Len(m.log) = Len(n.log) + 1
         /\ m.log[Len(n.log) + 1].kind = kind /\ m.log[Len(n.log) + 1].id = id
<1> DEFINE e == Numbered(n, p, kind, actor, id)
           o == RunOnCore(n.core, e)
           m == Emit(n, p, kind, actor, id)
<1>1. m = Committed(n, p, e, o) /\ e.hash = StateHash(o.core)
  BY EmitIsCommitted
<1>2. Len(n.log) \in Nat /\ IsLog(n.log)
  BY LogParts DEF Fine
<1>3. WellMade(e) /\ e.seq = Len(n.log) + 1 /\ e.by = p /\ e.kind = kind /\ e.id = id
  <2> DEFINE h == StateHash(RunOnCore(n.core, Unstamped(n, p, kind, actor, id)).core)
             l == Len(n.log) + 1
  <2> HIDE DEF h
  <2>1. e = [seq |-> l, kind |-> kind, actor |-> actor, by |-> p, id |-> id, hash |-> h]
    BY NumberedFields DEF NextSeq, h
  <2>2. l \in Nat
    BY <1>2
  <2> HIDE DEF e, l
  <2>3. WellMade(e) /\ e.seq = l /\ e.by = p /\ e.kind = kind /\ e.id = id
    BY <2>1, <2>2 DEF WellMade
  <2>. QED BY <2>3 DEF l
<1> HIDE DEF e
<1>4. Fine(Committed(n, p, e, o), p, R)
  BY <1>1, <1>3, CommittedIsFine
<1>5. m.log = Append(n.log, e)
  BY <1>1, CommittedParts
<1>6. e.hash \in LocalTable
  <2>1. CoreOK(o.core)
    BY <1>3, RunType DEF Fine
  <2> HIDE DEF o
  <2>. QED BY <1>1, <2>1, HashType DEF CoreOK
<1> HIDE DEF o, m
<1>7. /\ Len(m.log) = Len(n.log) + 1 /\ m.log[Len(n.log) + 1] = e
      /\ \A i \in 1 .. Len(n.log) : m.log[i] = n.log[i]
  BY <1>2, <1>5, AppendIsLog
<1>8. Extends(m.log, n.log, p)
  <2>1. \A i \in Len(n.log) + 1 .. Len(m.log) : i = Len(n.log) + 1
    BY <1>2, <1>7
  <2>2. Len(n.log) <= Len(m.log)
    BY <1>2, <1>7
  <2>. QED BY <1>3, <1>6, <1>7, <2>1, <2>2 DEF Extends, Own
<1>9. Fine(m, p, R)
  BY <1>1, <1>4
<1>. QED BY <1>3, <1>7, <1>8, <1>9 DEF m

\* Node m is node n after the first i requests.
Emitted(m, n, p, R, reqs, i) ==
  /\ Fine(m, p, R) /\ Extends(m.log, n.log, p) /\ Len(m.log) = Len(n.log) + i
  /\ \A j \in 1 .. i :
       m.log[Len(n.log) + j].kind = reqs[j].kind /\ m.log[Len(n.log) + j].id = reqs[j].id

LEMMA EmitNext ==
  ASSUME NEW p \in Peers, NEW R, NEW n, Fine(n, p, R), NEW reqs, NEW i \in Nat,
         NEW r \in ActionRequest, reqs[i + 1] = r, NEW m, Emitted(m, n, p, R, reqs, i)
  PROVE  Emitted(Emit(m, p, r.kind, r.actor, r.id), n, p, R, reqs, i + 1)
<1> DEFINE k == Emit(m, p, r.kind, r.actor, r.id)
           L == Len(n.log)
           M == Len(m.log)
<1>1. L \in Nat /\ M = L + i /\ IsLog(n.log) /\ IsLog(m.log)
  BY LogParts DEF Fine, Emitted
<1>2. r.kind \in AllKinds /\ r.actor \in Peers /\ r.id \in 0 .. MaxActions
  BY MeshAssumption DEF ActionRequest, AllKinds
<1>3. /\ Fine(k, p, R) /\ Extends(k.log, m.log, p)
      /\ Len(k.log) = M + 1 /\ k.log[M + 1].kind = r.kind /\ k.log[M + 1].id = r.id
  <2> DEFINE kind == r.kind
             actor == r.actor
             id == r.id
  <2>1. Fine(m, p, R)
    BY DEF Emitted
  <2>2. kind \in AllKinds /\ actor \in Peers /\ id \in 0 .. MaxActions
    BY <1>2
  <2> HIDE DEF kind, actor, id
  <2>3. LET l == Emit(m, p, kind, actor, id) IN
        /\ Fine(l, p, R) /\ Extends(l.log, m.log, p)
        /\ Len(l.log) = Len(m.log) + 1
        /\ l.log[Len(m.log) + 1].kind = kind /\ l.log[Len(m.log) + 1].id = id
    BY ONLY <2>1, <2>2, p \in Peers, EmitGrows
  <2>. QED BY <2>3 DEF kind, actor, id
<1> HIDE DEF k
<1>4. Extends(k.log, n.log, p)
  <2>1. Extends(m.log, n.log, p) /\ IsLog(k.log)
    BY <1>3 DEF Emitted, Fine
  <2>. QED BY <1>1, <1>3, <2>1, ExtendsTrans
<1>5. /\ \A j \in 1 .. M : k.log[j] = m.log[j]
      /\ \A j \in 1 .. i : m.log[L + j].kind = reqs[j].kind /\ m.log[L + j].id = reqs[j].id
  BY <1>3 DEF Extends, Emitted
<1> DEFINE K == Len(k.log)
<1>6. /\ K = L + (i + 1)
      /\ \A j \in 1 .. i + 1 : k.log[L + j].kind = reqs[j].kind /\ k.log[L + j].id = reqs[j].id
  <2>1. K = M + 1
    BY <1>3
  <2> HIDE DEF L, M, K
  <2>2. K = L + (i + 1)
    BY <1>1, <2>1
  <2>3. ASSUME NEW j \in 1 .. i + 1
        PROVE  k.log[L + j].kind = reqs[j].kind /\ k.log[L + j].id = reqs[j].id
    <3>1. (j = i + 1 /\ L + j = M + 1) \/ (j \in 1 .. i /\ L + j \in 1 .. M)
      BY <1>1
    <3>. QED BY <1>3, <1>5, <3>1
  <2>. QED BY <2>2, <2>3
<1>7. Emitted(k, n, p, R, reqs, i + 1)
  BY <1>3, <1>4, <1>6 DEF Emitted
<1>. QED BY <1>7 DEF k

\* A request is numbered as it was made.
LEMMA EmitAllGrows ==
  ASSUME NEW p \in Peers, NEW R, NEW n, Fine(n, p, R), NEW reqs \in Seq(ActionRequest)
  PROVE  Emitted(EmitAll(n, p, reqs), n, p, R, reqs, Len(reqs))
<1> DEFINE After(i) == Partial("emit", p, n, reqs, i)
           T == {i \in Nat : i <= Len(reqs) => Emitted(After(i), n, p, R, reqs, i)}
<1>1. Len(n.log) \in Nat /\ Len(reqs) \in Nat /\ DOMAIN reqs = 1 .. Len(reqs) /\ IsLog(n.log)
  BY LogParts DEF Fine
<1>2. /\ After(0) = n
      /\ \A i \in 0 .. Len(reqs) - 1 : After(i + 1) = Step("emit", p, After(i), reqs[i + 1])
  <2>1. Len(reqs) \in Nat /\ DOMAIN reqs = 1 .. Len(reqs)
    BY <1>1
  <2>. QED BY ONLY <2>1, PartialNone, PartialNext
<1> HIDE DEF After
<1>3. 0 \in T
  <2>1. Extends(n.log, n.log, p)
    BY <1>1, ExtendsSame
  <2>2. Emitted(n, n, p, R, reqs, 0)
    BY <1>1, <2>1 DEF Emitted
  <2>. QED BY <1>2, <2>2
<1>4. ASSUME NEW i \in T PROVE i + 1 \in T
  <2>0. i \in Nat /\ i + 1 \in Nat
    OBVIOUS
  <2>1. ASSUME i + 1 <= Len(reqs) PROVE Emitted(After(i + 1), n, p, R, reqs, i + 1)
    <3>1. /\ i <= Len(reqs) /\ i + 1 \in 1 .. Len(reqs) /\ i \in 0 .. Len(reqs) - 1
          /\ reqs[i + 1] \in ActionRequest
      BY <1>1, <2>0, <2>1
    <3> DEFINE m == After(i)
               r == reqs[i + 1]
    <3>2. Emitted(m, n, p, R, reqs, i)
      BY <3>1
    <3>3. After(i + 1) = Step("emit", p, m, r)
      BY ONLY <1>2, <3>1
    <3>4. r \in ActionRequest /\ reqs[i + 1] = r
      BY <3>1
    <3> HIDE DEF m, r
    <3>5. After(i + 1) = Emit(m, p, r.kind, r.actor, r.id)
      BY <3>3 DEF Step
    <3>6. Emitted(Emit(m, p, r.kind, r.actor, r.id), n, p, R, reqs, i + 1)
      BY <2>0, <3>2, <3>4, EmitNext
    <3>. QED BY <3>5, <3>6
  <2>. QED BY <2>0, <2>1
<1>5. T = Nat
  <2> HIDE DEF T
  <2>1. T \in SUBSET Nat
    BY DEF T
  <2>. QED BY <1>3, <1>4, <2>1, NatInduct
<1>6. Emitted(After(Len(reqs)), n, p, R, reqs, Len(reqs))
  BY <1>1, <1>5
<1>7. EmitAll(n, p, reqs) = After(Len(reqs))
  BY <1>1, EmitAllIsFold DEF Partial, After
<1>. QED BY <1>6, <1>7

\* What the coordinator does besides: an entry more, or none.
LEMMA DutiesGrow ==
  ASSUME NEW p \in Peers, NEW R, NEW n, Fine(n, p, R), NEW alive, NEW timer, NEW revealed
  PROVE  LET m == Duties(n, p, alive, timer, revealed).node IN
         /\ Fine(m, p, R) /\ Extends(m.log, n.log, p)
         /\ Len(m.log) \in {Len(n.log), Len(n.log) + 1}
<1> DEFINE m == Duties(n, p, alive, timer, revealed).node
           void == Emit(n, p, "void", p, NoId)
           timeout == Emit(n, p, "timeout", p, NoId)
<1>1. m = [void EXCEPT !.dealing = FALSE] \/ m = timeout \/ m = n
  BY DEF Duties
<1>2. NoId \in 0 .. MaxActions /\ {"void", "timeout"} \subseteq AllKinds
  BY MeshAssumption DEF NoId, AllKinds
<1>3. /\ Fine(void, p, R) /\ Extends(void.log, n.log, p) /\ Len(void.log) = Len(n.log) + 1
      /\ Fine(timeout, p, R) /\ Extends(timeout.log, n.log, p) /\ Len(timeout.log) = Len(n.log) + 1
  BY <1>2, EmitGrows
<1> HIDE DEF m, void, timeout
<1>4. CASE m = [void EXCEPT !.dealing = FALSE]
  <2>1. m.core = void.core /\ m.log = void.log /\ m.view = void.view /\ Shaped(m)
    BY <1>3, <1>4 DEF Fine, Shaped
  <2>2. Fine(m, p, R)
    BY <1>3, <2>1 DEF Fine, Faithful
  <2>. QED BY <1>3, <2>1, <2>2 DEF m
<1>5. CASE m = timeout
  BY <1>3, <1>5 DEF m
<1>6. CASE m = n
  <2>1. Extends(m.log, n.log, p)
    BY <1>6, ExtendsSame DEF Fine
  <2>. QED BY <1>6, <2>1 DEF m
<1>. QED BY <1>1, <1>4, <1>5, <1>6

LEMMA DealingPart ==
  ASSUME NEW n, Shaped(n), NEW d
  PROVE  LET m == [n EXCEPT !.dealing = d]
         IN  m.core = n.core /\ m.log = n.log /\ m.view = n.view /\ Shaped(m)
<1>1. PICK c, l, v, f : n = [core |-> c, log |-> l, view |-> v, dealing |-> f]
  BY DEF Shaped
<1>2. [n EXCEPT !.dealing = d] = [core |-> c, log |-> l, view |-> v, dealing |-> d]
  BY <1>1
<1>. QED BY <1>1, <1>2 DEF Shaped

\* The seed, and the sit_in that deals.
LEMMA SeedGrows ==
  ASSUME NEW p \in Peers, NEW R, NEW n, Fine(n, p, R)
  PROVE  LET seeded == Emit([n EXCEPT !.dealing = TRUE], p, "seed", p, NoId)
             m == Emit(seeded, p, "sit_in", p, NoId)
         IN  /\ Fine(m, p, R) /\ Extends(m.log, n.log, p) /\ Len(m.log) = Len(n.log) + 2
             /\ m.log[Len(n.log) + 1].kind = "seed" /\ m.log[Len(n.log) + 2].kind = "sit_in"
             /\ m.log[Len(n.log) + 1].id = NoId /\ m.log[Len(n.log) + 2].id = NoId
<1> DEFINE begun == [n EXCEPT !.dealing = TRUE]
           seeded == Emit(begun, p, "seed", p, NoId)
           m == Emit(seeded, p, "sit_in", p, NoId)
<1>1. NoId \in 0 .. MaxActions /\ {"seed", "sit_in"} \subseteq AllKinds
  BY MeshAssumption DEF NoId, AllKinds
<1>2. begun.core = n.core /\ begun.log = n.log /\ begun.view = n.view /\ Shaped(begun)
  <2> DEFINE d == TRUE
             b == [n EXCEPT !.dealing = d]
  <2> HIDE DEF d
  <2>1. b.core = n.core /\ b.log = n.log /\ b.view = n.view /\ Shaped(b)
    BY DealingPart DEF Fine
  <2>. QED BY <2>1, Zenon DEF b, d
<1> HIDE DEF begun
<1>3. Fine(begun, p, R)
  BY <1>2 DEF Fine, Faithful
<1>4. /\ Fine(seeded, p, R) /\ Extends(seeded.log, n.log, p) /\ Len(seeded.log) = Len(n.log) + 1
      /\ seeded.log[Len(n.log) + 1].kind = "seed" /\ seeded.log[Len(n.log) + 1].id = NoId
  BY <1>1, <1>2, <1>3, EmitGrows
<1> HIDE DEF seeded
<1>5. /\ Fine(m, p, R) /\ Extends(m.log, seeded.log, p) /\ Len(m.log) = Len(seeded.log) + 1
      /\ m.log[Len(seeded.log) + 1].kind = "sit_in" /\ m.log[Len(seeded.log) + 1].id = NoId
  <2> DEFINE kind == "sit_in"
  <2>1. kind \in AllKinds /\ Fine(seeded, p, R)
    BY <1>1, <1>4
  <2> HIDE DEF kind
  <2>. QED BY <1>1, <2>1, EmitGrows DEF kind
<1> HIDE DEF m
<1>6. Extends(m.log, n.log, p)
  BY <1>4, <1>5, ExtendsTrans DEF Fine
<1>7. Len(n.log) \in Nat
  BY LogParts DEF Fine
<1>8. Len(n.log) + 1 + 1 = Len(n.log) + 2 /\ Len(n.log) + 1 \in 1 .. Len(seeded.log)
  BY <1>4, <1>7
<1>9. m.log[Len(n.log) + 1] = seeded.log[Len(n.log) + 1]
  BY <1>5, <1>8 DEF Extends
<1>10. /\ Fine(m, p, R) /\ Extends(m.log, n.log, p) /\ Len(m.log) = Len(n.log) + 2
       /\ m.log[Len(n.log) + 1].kind = "seed" /\ m.log[Len(n.log) + 2].kind = "sit_in"
       /\ m.log[Len(n.log) + 1].id = NoId /\ m.log[Len(n.log) + 2].id = NoId
  BY <1>4, <1>5, <1>6, <1>8, <1>9
<1>. QED BY <1>10 DEF m, seeded, begun

-----------------------------------------------------------------------------
(* Requests *)

RequestsOK ==
  /\ actions \in 0 .. MaxActions
  /\ wire \subseteq [to : Peers, req : ActionRequest]
  /\ queue \in [Peers -> Seq(ActionRequest)]
  /\ pending \in [Peers -> SUBSET [req : ActionRequest, tries : 1 .. MaxTries]]
  /\ undelivered \subseteq 1 .. actions
  /\ \A p \in Peers : processed[p] \subseteq 1 .. MaxActions
  /\ processed = [p \in Peers |-> processed[p]]

\* A peer waits for some requests, and tells them apart by their ids.
OwnRequests ==
  \A p \in Peers : /\ IsFiniteSet(pending[p])
                   /\ \A w \in pending[p] : w.req.id \in 1 .. actions
                   /\ \A v, w \in pending[p] : v.req.id = w.req.id => v.req = w.req

NetOK ==
  /\ sees \in [Peers -> SUBSET Peers] /\ up \subseteq Peers
  /\ losses \in Nat /\ losses <= MaxLosses
  /\ round \in [Peers -> {"none", "open", "complete"}] /\ leftover \subseteq Peers

\* ById puts every request in the row, and nothing else.
LEMMA ByIdIsRow ==
  ASSUME NEW R \in SUBSET ActionRequest, IsFiniteSet(R), \A r, s \in R : r.id = s.id => r = s
  PROVE  /\ ById(R) \in Seq(ActionRequest)
         /\ \A r \in R : \E i \in DOMAIN ById(R) : ById(R)[i] = r
<1> DEFINE Earlier == {x \in R \X R : x[1].id < x[2].id}
           rank(r) == Cardinality({s \in R : s.id < r.id})
           N == Cardinality(R)
<1>1. \A r \in R : r.id \in Nat
  BY MeshAssumption DEF ActionRequest
<1>2. StrictOrder(Earlier, R)
  BY <1>1 DEF StrictOrder
<1>3. \A r \in R : Before(Earlier, R, r) = {s \in R : s.id < r.id}
  BY DEF Before
<1>4. N \in Nat
  BY FS_CardinalityType
<1> HIDE DEF Earlier
<1>5. /\ \A r \in R : rank(r) \in 0 .. N - 1
      /\ \A k \in 0 .. N - 1 : \E r \in R : rank(r) = k
      /\ \A r, s \in R : <<r, s>> \in Earlier => rank(r) < rank(s)
  <2>1. /\ \A r \in R : Cardinality(Before(Earlier, R, r)) \in 0 .. N - 1
        /\ \A k \in 0 .. N - 1 : \E r \in R : Cardinality(Before(Earlier, R, r)) = k
        /\ \A r, s \in R : <<r, s>> \in Earlier
             => Cardinality(Before(Earlier, R, r)) < Cardinality(Before(Earlier, R, s))
    BY <1>2, RankOfEach
  <2>. QED BY <1>3, <2>1
<1> DEFINE at(i) == CHOOSE r \in R : rank(r) = i - 1
<1>6. ById(R) = [i \in 1 .. N |-> at(i)]
  BY DEF ById
<1> HIDE DEF rank, N
<1>7. ASSUME NEW i \in 1 .. N PROVE at(i) \in R /\ rank(at(i)) = i - 1
  <2>1. i - 1 \in 0 .. N - 1
    BY <1>4
  <2>2. \E r \in R : rank(r) = i - 1
    BY <1>5, <2>1
  <2>. QED BY <2>2
<1>8. ASSUME NEW r \in R PROVE \E i \in 1 .. N : at(i) = r
  <2> DEFINE k == rank(r) + 1
             s == at(k)
  <2>1. k \in 1 .. N /\ k - 1 = rank(r)
    BY <1>4, <1>5
  <2> HIDE DEF at, k
  <2>2. s \in R /\ rank(s) = rank(r)
    BY <1>7, <2>1
  <2>3. s.id = r.id
    <3>1. <<s, r>> \notin Earlier /\ <<r, s>> \notin Earlier
      <4>1. rank(r) \in Int /\ ~(rank(r) < rank(r))
        BY <1>4, <1>5
      <4>. QED BY <1>5, <2>2, <4>1
    <3>2. ~(s.id < r.id) /\ ~(r.id < s.id)
      BY <2>2, <3>1 DEF Earlier
    <3>3. s.id \in Nat /\ r.id \in Nat
      BY <1>1, <2>2
    <3> HIDE DEF s
    <3>. QED BY ONLY <3>2, <3>3
  <2>. QED BY <2>1, <2>2, <2>3
<1> HIDE DEF at
<1>9. \A i \in 1 .. N : at(i) \in ActionRequest
  BY <1>7
<1>10. [i \in 1 .. N |-> at(i)] \in Seq(ActionRequest)
  BY <1>4, <1>9, IsASeq
<1>. QED BY <1>6, <1>8, <1>10

-----------------------------------------------------------------------------
(* The logs of all peers *)

\* Log l holds entries of S, numbered from 1.
LogFrom(l, S) == l \in Seq(S) /\ \A i \in 1 .. Len(l) : l[i].seq = i

LogsOK ==
  /\ node = [p \in Peers |-> node[p]] /\ resyncing \subseteq Peers
  /\ IsFiniteSet(sent) /\ Cardinality(sent) <= MaxEntries
  /\ \A e \in sent : WellMade(e) /\ e.seq \in 1 .. MaxEntries /\ e.hash \in LocalTable
  /\ \A p \in Peers : Fine(node[p], p, resyncing) /\ LogFrom(node[p].log, sent)

LEMMA LogFromMore ==
  ASSUME NEW S, NEW T, S \subseteq T, NEW l, LogFrom(l, S)
  PROVE  LogFrom(l, T)
<1>1. l \in Seq(T)
  BY DEF LogFrom
<1>. QED BY <1>1 DEF LogFrom

\* Entries that are numbered differ, so that there are as many as the last number says.
LEMMA LogLength ==
  ASSUME NEW S, IsFiniteSet(S), NEW l, LogFrom(l, S)
  PROVE  Len(l) <= Cardinality(S)
<1> DEFINE N == Len(l)
           f == [i \in 1 .. N |-> l[i]]
<1>1. N \in Nat /\ \A i \in 1 .. N : l[i] \in S /\ l[i].seq = i
  BY DEF LogFrom
<1> HIDE DEF N
<1>2. f \in Injection(1 .. N, S)
  BY <1>1 DEF Injection, IsInjective
<1> HIDE DEF f
<1>3. Cardinality(1 .. N) <= Cardinality(S)
  BY <1>2, FS_Injection
<1>4. Cardinality(1 .. N) = N
  <2>1. Cardinality(1 .. N) = IF 1 > N THEN 0 ELSE N - 1 + 1
    BY <1>1, FS_Interval
  <2>. QED BY <1>1, <2>1
<1>. QED BY <1>3, <1>4 DEF N

\* A peer that numbers entries and broadcasts them keeps the logs in order.
LEMMA BroadcastKeepsLogs ==
  ASSUME LogsOK, NEW p \in Peers, NEW m, Fine(m, p, resyncing),
         Extends(m.log, node[p].log, p), sent' = sent \cup NewEntries(m, node[p]),
         Cardinality(sent') <= MaxEntries,
         node' = [node EXCEPT ![p] = m], resyncing' = resyncing
  PROVE  LogsOK'
<1> DEFINE n == node[p]
           W == sent \cup NewEntries(m, n)
           new == {m.log[i] : i \in Len(n.log) + 1 .. Len(m.log)}
<1>1. Len(n.log) \in Nat /\ Len(m.log) \in Nat /\ LogFrom(n.log, sent)
  BY LogParts DEF LogsOK, Fine
<1>2. W = sent \cup new /\ sent' = W
  BY DEF NewEntries
<1>3. IsFiniteSet(W)
  <2>1. IsFiniteSet(Len(n.log) + 1 .. Len(m.log))
    <3>1. Len(n.log) + 1 \in Int /\ Len(m.log) \in Int
      BY <1>1
    <3>. QED BY <3>1, FS_Interval
  <2> DEFINE I == Len(n.log) + 1 .. Len(m.log)
             f == m.log
  <2>2. IsFiniteSet(I)
    BY <2>1
  <2> HIDE DEF I, f
  <2>3. IsFiniteSet({f[i] : i \in I})
    BY <2>2, ImageFinite
  <2>4. IsFiniteSet(new)
    BY <2>3 DEF I, f
  <2> HIDE DEF new, W
  <2>. QED BY <1>2, <2>4, FS_Union DEF LogsOK
<1>4. ASSUME NEW i \in 1 .. Len(m.log) PROVE m.log[i] \in W /\ m.log[i].seq = i
  <2>1. i \in 1 .. Len(n.log) \/ i \in Len(n.log) + 1 .. Len(m.log)
    BY <1>1
  <2>2. CASE i \in 1 .. Len(n.log)
    <3>1. m.log[i] = n.log[i]
      BY <2>2 DEF Extends
    <3>2. n.log[i] \in sent /\ n.log[i].seq = i
      BY <1>1, <2>2 DEF LogFrom
    <3>. QED BY <3>1, <3>2
  <2>3. CASE i \in Len(n.log) + 1 .. Len(m.log)
    <3>1. m.log[i] \in new
      BY <2>3
    <3>. QED BY <1>2, <2>3, <3>1 DEF Extends, Own
  <2>. QED BY <2>1, <2>2, <2>3
<1>5. LogFrom(m.log, W)
  <2>1. PICK S : m.log \in Seq(S)
    BY DEF Fine, IsLog
  <2>2. m.log \in Seq(W)
    <3>1. \A i \in 1 .. Len(m.log) : m.log[i] \in W
      BY <1>4
    <3> HIDE DEF W
    <3>. QED BY <2>1, <3>1
  <2>. QED BY <1>4, <2>2 DEF LogFrom
<1>6. Len(m.log) <= MaxEntries
  <2>1. Len(m.log) <= Cardinality(W)
    BY <1>3, <1>5, LogLength
  <2>2. Cardinality(W) <= MaxEntries /\ Cardinality(W) \in Nat
    BY <1>2, <1>3, FS_CardinalityType
  <2>. QED BY <1>1, <2>1, <2>2, MeshAssumption
<1>7. ASSUME NEW e \in W PROVE WellMade(e) /\ e.seq \in 1 .. MaxEntries /\ e.hash \in LocalTable
  <2>1. CASE e \in sent
    BY <2>1 DEF LogsOK
  <2>2. CASE e \in new
    <3>1. PICK i \in Len(n.log) + 1 .. Len(m.log) : e = m.log[i]
      BY <2>2
    <3>2. Own(e, i, p)
      BY <3>1 DEF Extends
    <3>3. i \in 1 .. MaxEntries
      BY <1>1, <1>6, <3>1, MeshAssumption
    <3>. QED BY <3>2, <3>3 DEF Own
  <2>. QED BY <1>2, <2>1, <2>2
<1> HIDE DEF W
<1>8. ASSUME NEW q \in Peers
      PROVE  Fine(node'[q], q, resyncing) /\ LogFrom(node'[q].log, W)
  <2>1. CASE q = p
    <3>1. node'[q] = m
      BY <2>1 DEF LogsOK
    <3>. QED BY <1>5, <2>1, <3>1
  <2>2. CASE q # p
    <3>1. node'[q] = node[q]
      BY <2>2 DEF LogsOK
    <3>2. sent \subseteq W
      BY <1>2
    <3>3. LogFrom(node[q].log, W)
      BY <3>2, LogFromMore DEF LogsOK
    <3>. QED BY <3>1, <3>3 DEF LogsOK
  <2>. QED BY <2>1, <2>2
<1>9. node' = [q \in Peers |-> node'[q]]
  BY DEF LogsOK
<1>10. sent' = W /\ Cardinality(W) <= MaxEntries
  BY <1>2
<1>. QED BY <1>3, <1>7, <1>8, <1>9, <1>10 DEF LogsOK

\* So does a peer that follows, whether the entry reproduces its hash there or not.
LEMMA IngestKeepsLogs ==
  ASSUME LogsOK, NEW p \in Peers, NEW e \in sent, Ingest(p, e)
  PROVE  LogsOK'
<1> DEFINE n == node[p]
           o == RunOnCore(n.core, e)
           m == Committed(n, p, e, o)
<1>1. /\ Fine(n, p, resyncing) /\ LogFrom(n.log, sent) /\ WellMade(e) /\ p \notin resyncing
      /\ e.seq = Len(n.log) + 1 /\ sent' = sent
  BY DEF LogsOK, Ingest, NextSeq
<1>2. CASE StateHash(o.core) = e.hash
  <2>1. node' = [node EXCEPT ![p] = m] /\ resyncing' = resyncing
    BY <1>2 DEF Ingest
  <2>2. Fine(m, p, resyncing)
    BY <1>1, <1>2, CommittedIsFine
  <2>3. m.log = Append(n.log, e)
    BY CommittedParts
  <2> HIDE DEF m
  <2>4. LogFrom(m.log, sent)
    <3>1. n.log \in Seq(sent) /\ e \in sent
      BY <1>1 DEF LogFrom
    <3>2. /\ Append(n.log, e) \in Seq(sent) /\ Len(Append(n.log, e)) = Len(n.log) + 1
          /\ Len(n.log) \in Nat /\ Append(n.log, e)[Len(n.log) + 1] = e
          /\ \A i \in 1 .. Len(n.log) : Append(n.log, e)[i] = n.log[i]
      BY <3>1, AppendParts
    <3>3. \A i \in 1 .. Len(n.log) + 1 : i \in 1 .. Len(n.log) \/ i = Len(n.log) + 1
      BY <3>2
    <3>. QED BY <1>1, <2>3, <3>2, <3>3 DEF LogFrom
  <2>5. \A q \in Peers : Fine(node'[q], q, resyncing) /\ LogFrom(node'[q].log, sent)
    BY <2>1, <2>2, <2>4 DEF LogsOK
  <2>. QED BY <1>1, <2>1, <2>5 DEF LogsOK
<1>3. CASE StateHash(o.core) # e.hash
  <2> DEFINE k == [n EXCEPT !.core = o.core]
  <2>1. node' = [node EXCEPT ![p] = k] /\ resyncing' = resyncing \cup {p}
    <3>1. node' = [node EXCEPT ![p].core = o.core] /\ resyncing' = resyncing \cup {p}
      BY <1>3 DEF Ingest
    <3> HIDE DEF o
    <3>. QED BY <3>1
  <2>2. CoreOK(o.core)
    BY <1>1, RunType DEF Fine
  <2> HIDE DEF o
  <2>3. k.log = n.log /\ k.view = n.view /\ k.core = o.core /\ Shaped(k)
    <3>1. PICK c, l, v, d : n = [core |-> c, log |-> l, view |-> v, dealing |-> d]
      BY <1>1 DEF Fine, Shaped
    <3>2. k = [core |-> o.core, log |-> l, view |-> v, dealing |-> d]
      BY <3>1
    <3> HIDE DEF k
    <3>. QED BY <3>1, <3>2 DEF Shaped
  <2> HIDE DEF k
  <2>4. ASSUME NEW q \in Peers
        PROVE  Fine(node'[q], q, resyncing') /\ LogFrom(node'[q].log, sent)
    <3>1. CASE q = p
      <4>1. node'[q] = k
        BY <2>1, <3>1 DEF LogsOK
      <4>. QED BY <1>1, <2>1, <2>2, <2>3, <3>1, <4>1 DEF Fine
    <3>2. CASE q # p
      <4>1. node'[q] = node[q]
        BY <2>1, <3>2 DEF LogsOK
      <4>. QED BY <2>1, <4>1 DEF LogsOK, Fine
    <3>. QED BY <3>1, <3>2
  <2>5. node' = [q \in Peers |-> node'[q]] /\ resyncing' \subseteq Peers
    BY <2>1 DEF LogsOK
  <2>. QED BY <1>1, <2>4, <2>5 DEF LogsOK
<1>. QED BY <1>2, <1>3

LEMMA ReplayShaped ==
  ASSUME NEW S, NEW log \in Seq(S), NEW p, NEW d
  PROVE  Shaped(Replay(p, log, d))
<1> DEFINE T == {x \in Seq(S) : Shaped(Replay(p, x, d))}
<1>1. <<>> \in T
  <2>1. Replay(p, <<>>, d) = [NewNode EXCEPT !.dealing = d]
    BY ReplayNone
  <2>2. Shaped([NewNode EXCEPT !.dealing = d])
    <3> DEFINE c == NewLocalTable
               v == NewView
    <3>1. NewNode = [core |-> c, log |-> <<>>, view |-> v, dealing |-> FALSE]
      BY DEF NewNode
    <3> HIDE DEF c, v
    <3>2. [NewNode EXCEPT !.dealing = d] = [core |-> c, log |-> <<>>, view |-> v, dealing |-> d]
      BY <3>1
    <3>. QED BY <3>2 DEF Shaped
  <2>3. <<>> \in Seq(S)
    OBVIOUS
  <2>. QED BY <2>1, <2>2, <2>3
<1>2. ASSUME NEW x \in T, NEW e \in S PROVE Append(x, e) \in T
  <2>1. Append(x, e) \in Seq(S) /\ x \in Seq(S)
    OBVIOUS
  <2>2. Replay(p, Append(x, e), d) =
          Committed(Replay(p, x, d), p, e, RunOnCore(Replay(p, x, d).core, e))
    BY <2>1, ReplayAppend
  <2>3. \A n, o : Shaped(Committed(n, p, e, o))
    BY DEF Committed, Shaped
  <2>. QED BY <2>1, <2>2, <2>3
<1>3. T = Seq(S)
  <2> HIDE DEF T
  <2>1. T \in SUBSET Seq(S)
    BY DEF T
  <2>. QED BY <1>1, <1>2, <2>1, LogInduct
<1>. QED BY <1>3

\* A peer that takes the beginning of a log that says all can say all itself.
LEMMA ReplayIsFaithful ==
  ASSUME NEW S, NEW log \in Seq(S), NEW p, NEW q, NEW n, n.log = log, Faithful(n, q),
         NEW len \in 0 .. Len(log), NEW d
  PROVE  Faithful(Replay(p, SubSeq(log, 1, len), d), p)
<1> DEFINE l == SubSeq(log, 1, len)
           m == Replay(p, l, d)
<1>1. l \in Seq(S) /\ Len(l) = len /\ len \in Nat /\ \A i \in 1 .. len : l[i] = log[i]
  OBVIOUS
<1>2. ASSUME NEW i \in 1 .. len PROVE SubSeq(l, 1, i) = SubSeq(log, 1, i)
  <2>1. i \in Nat /\ i <= len /\ i <= Len(log)
    BY <1>1
  <2>2. /\ SubSeq(l, 1, i) \in Seq(S) /\ Len(SubSeq(l, 1, i)) = i
        /\ SubSeq(log, 1, i) \in Seq(S) /\ Len(SubSeq(log, 1, i)) = i
    <3> HIDE DEF l
    <3>. QED BY <1>1, <2>1
  <2>3. \A j \in 1 .. i : SubSeq(l, 1, i)[j] = SubSeq(log, 1, i)[j]
    <3> HIDE DEF l
    <3>. QED BY <1>1, <2>1
  <2> HIDE DEF l
  <2>. QED BY <2>2, <2>3, SeqEqual
<1> HIDE DEF l
<1>3. m.log = l
  BY <1>1, ReplayLog
<1>4. m.core = Replay(p, l, FALSE).core /\ m.view = Replay(p, l, FALSE).view
  BY <1>1, ReplayCore, ReplayView
<1>5. ASSUME NEW i \in 1 .. len
      PROVE  l[i].hash = StateHash(Replay(p, SubSeq(l, 1, i), FALSE).core)
  <2>1. i \in DOMAIN log
    BY <1>1
  <2>2. log[i].hash = StateHash(Replay(q, SubSeq(log, 1, i), FALSE).core)
    BY <2>1 DEF Faithful
  <2> DEFINE k == SubSeq(log, 1, i)
  <2>3. k \in Seq(S)
    BY <2>1
  <2> HIDE DEF k
  <2>4. Replay(q, k, FALSE).core = Replay(p, k, FALSE).core
    <3>1. ASSUME NEW x PROVE Replay(q, k, x).core = Replay(p, k, FALSE).core
      BY <2>3, ReplayCore
    <3>. QED BY <3>1
  <2>. QED BY <1>1, <1>2, <2>2, <2>4 DEF k
<1> HIDE DEF m
<1>6. DOMAIN m.log = 1 .. len
  BY <1>1, <1>3
<1>7. Faithful(m, p)
  BY <1>3, <1>4, <1>5, <1>6 DEF Faithful
<1>. QED BY <1>7 DEF m, l

LEMMA AdoptKeepsLogs ==
  ASSUME LogsOK, NEW p \in Peers, NEW q \in Peers, NEW len \in Nat, Adopt(p, q, len)
  PROVE  LogsOK'
<1> DEFINE log == node[q].log
           l == SubSeq(log, 1, len)
           d == node[p].dealing
           m == Replay(p, l, d)
<1>1. /\ q \notin resyncing /\ len <= Len(log) /\ node' = [node EXCEPT ![p] = m]
      /\ resyncing' = resyncing \ {p} /\ sent' = sent
  BY DEF Adopt
<1>2. log \in Seq(sent) /\ Faithful(node[q], q) /\ \A i \in 1 .. Len(log) : log[i].seq = i
  BY <1>1 DEF LogsOK, LogFrom, Fine
<1>3. len \in 0 .. Len(log)
  BY <1>1, <1>2
<1>4. Faithful(m, p)
  BY <1>2, <1>3, ReplayIsFaithful
<1>5. l \in Seq(sent) /\ Len(l) = len /\ \A i \in 1 .. len : l[i] = log[i] /\ i \in 1 .. Len(log)
  BY <1>2, <1>3
<1> HIDE DEF l, log, d
<1>6. m.log = l /\ Shaped(m)
  BY <1>5, ReplayLog, ReplayShaped
<1>7. CoreOK(m.core) /\ ViewOK(m.view)
  <2>1. \A e \in sent : WellMade(e)
    BY DEF LogsOK
  <2>. QED BY <1>5, <2>1, ReplayType
<1> HIDE DEF m
<1>8. IsLog(m.log) /\ LogFrom(m.log, sent)
  BY <1>2, <1>5, <1>6 DEF IsLog, LogFrom
<1>9. ASSUME NEW r \in Peers
      PROVE  Fine(node'[r], r, resyncing') /\ LogFrom(node'[r].log, sent)
  <2>1. CASE r = p
    <3>1. node'[r] = m
      BY <1>1, <2>1 DEF LogsOK
    <3>. QED BY <1>4, <1>6, <1>7, <1>8, <2>1, <3>1 DEF Fine
  <2>2. CASE r # p
    <3>1. node'[r] = node[r]
      BY <1>1, <2>2 DEF LogsOK
    <3>. QED BY <1>1, <2>2, <3>1 DEF LogsOK, Fine
  <2>. QED BY <2>1, <2>2
<1>10. node' = [r \in Peers |-> node'[r]] /\ resyncing' \subseteq Peers
  BY <1>1 DEF LogsOK
<1>. QED BY <1>1, <1>9, <1>10 DEF LogsOK

-----------------------------------------------------------------------------
(* Every step keeps the logs *)

LEMMA CoordinatorType ==
  ASSUME LogsOK, NetOK, NEW p \in Peers
  PROVE  Coordinator(p) \in Peers
<1> DEFINE v == node[p].view
           S == EligibleIn(v, Alive(p))
           from == IF v.running THEN v.button - 1 ELSE v.button
<1>1. ViewOK(v)
  BY DEF LogsOK, Fine
<1>2. S \in SUBSET Seats
  BY DEF NetOK, Alive, EligibleIn, Peers
<1>3. from \in Starts
  BY <1>1, NumSeatsAssumption DEF ViewOK, Starts, Seats
<1>4. CoordinatorSeat(v, Alive(p)) = FirstAfter(from, S)
  BY DEF CoordinatorSeat
<1> HIDE DEF v, S, from
<1>5. FirstAfter(from, S) \in Seats \/ FirstAfter(from, S) = Nobody
  <2>1. CASE S = {}
    BY <2>1 DEF FirstAfter
  <2>2. CASE S # {}
    BY <1>2, <1>3, <2>2, FirstAfterIs
  <2>. QED BY <2>1, <2>2
<1>6. Host \in Peers
  BY NumSeatsAssumption DEF Host, Peers, Seats
<1>. QED BY <1>4, <1>5, <1>6 DEF Coordinator, Peers, v

LEMMA TakenOverType ==
  ASSUME RequestsOK, OwnRequests, NEW p \in Peers, NEW due \in SUBSET pending[p]
  PROVE  /\ TakenOver(p, due) \in Seq(ActionRequest)
         /\ Coordinator(p) = p => \A w \in due \ GivenUp(due) :
              \E i \in DOMAIN TakenOver(p, due) : TakenOver(p, due)[i] = w.req
<1> DEFINE rest == due \ GivenUp(due)
           R == {w.req : w \in rest}
<1>1. rest \in SUBSET pending[p] /\ IsFiniteSet(rest)
  BY FS_Subset DEF OwnRequests
<1>2. R \in SUBSET ActionRequest
  BY <1>1 DEF RequestsOK
<1>3. IsFiniteSet(R)
  <2> DEFINE f == [w \in rest |-> w.req]
  <2>1. f \in Surjection(rest, R)
    BY DEF Surjection
  <2> HIDE DEF f, rest, R
  <2>. QED BY <1>1, <2>1, FS_Surjection
<1>4. \A r, s \in R : r.id = s.id => r = s
  BY <1>1 DEF OwnRequests
<1> HIDE DEF R
<1>5. /\ ById(R) \in Seq(ActionRequest)
      /\ \A r \in R : \E i \in DOMAIN ById(R) : ById(R)[i] = r
  BY <1>2, <1>3, <1>4, ByIdIsRow
<1>6. TakenOver(p, due) = IF Coordinator(p) # p THEN <<>> ELSE ById(R)
  BY DEF TakenOver, R
<1>7. \A w \in rest : w.req \in R
  BY DEF R
<1>. QED BY <1>5, <1>6, <1>7

LEMMA TickKeepsLogs ==
  ASSUME LogsOK, RequestsOK, OwnRequests, NEW p \in Peers, NEW due, NEW timer, NEW revealed,
         Tick(p, due, timer, revealed)
  PROVE  LogsOK'
<1> DEFINE n == node[p]
           todo == queue[p] \o TakenOver(p, due)
           k == EmitAll(n, p, todo)
           m == Duties(k, p, Alive(p), timer, revealed).node
<1>1. due \in SUBSET pending[p] /\ resyncing' = resyncing
  BY DEF Tick
<1>2. todo \in Seq(ActionRequest)
  BY <1>1, TakenOverType DEF RequestsOK
<1>3. Fine(n, p, resyncing)
  BY DEF LogsOK
<1> HIDE DEF todo
<1>4. Fine(k, p, resyncing) /\ Extends(k.log, n.log, p)
  BY <1>2, <1>3, EmitAllGrows DEF Emitted
<1>5. Fine(m, p, resyncing) /\ Extends(m.log, k.log, p)
  <2> HIDE DEF k
  <2>. QED BY <1>4, DutiesGrow
<1>6. CASE IsCoordinator(p)
  <2>1. /\ sent' = sent \cup NewEntries(m, n) /\ Cardinality(sent') <= MaxEntries
        /\ node' = [node EXCEPT ![p] = m]
    BY <1>6 DEF Tick, todo
  <2> HIDE DEF k, m
  <2>2. Extends(m.log, n.log, p)
    BY <1>3, <1>4, <1>5, ExtendsTrans DEF Fine
  <2> HIDE DEF n
  <2>. QED BY <1>1, <1>5, <2>1, <2>2, BroadcastKeepsLogs DEF n
<1>7. CASE ~IsCoordinator(p)
  <2>1. node' = node /\ sent' = sent
    BY <1>7 DEF Tick
  <2>. QED BY <1>1, <2>1 DEF LogsOK
<1>. QED BY <1>6, <1>7

LEMMA SeedReadyKeepsLogs ==
  ASSUME LogsOK, NEW p \in Peers, SeedReady(p)
  PROVE  LogsOK'
<1> DEFINE n == node[p]
           seeded == Emit([n EXCEPT !.dealing = TRUE], p, "seed", p, NoId)
           m == Emit(seeded, p, "sit_in", p, NoId)
<1>1. /\ sent' = sent \cup NewEntries(m, n) /\ Cardinality(sent') <= MaxEntries
      /\ node' = [node EXCEPT ![p] = m] /\ resyncing' = resyncing
  BY DEF SeedReady
<1>2. Fine(n, p, resyncing)
  BY DEF LogsOK
<1>3. Fine(m, p, resyncing) /\ Extends(m.log, n.log, p)
  BY <1>2, SeedGrows
<1> HIDE DEF m
<1>. QED BY <1>1, <1>3, BroadcastKeepsLogs

-----------------------------------------------------------------------------
(* Every step keeps the requests *)

MeshInv == LogsOK /\ RequestsOK /\ OwnRequests /\ NetOK

LEMMA MeshInit ==
  ASSUME Init
  PROVE  MeshInv
<1>1. CoreOK(NewLocalTable)
  <2>1. NoSeed \in Seq(Nat) /\ <<>> \in Seq(Seats)
    BY DEF NoSeed
  <2>. QED BY <2>1, NumSeatsAssumption DEF CoreOK, NewLocalTable, LocalTable, Running, Seats
<1>2. ViewOK(NewView)
  BY NumSeatsAssumption DEF ViewOK, NewView, Nobody, Starts
<1>3. ASSUME NEW p
      PROVE  Faithful(NewNode, p)
  <2>1. Replay(p, <<>>, FALSE) = [NewNode EXCEPT !.dealing = FALSE]
    BY ReplayNone
  <2>2. /\ [NewNode EXCEPT !.dealing = FALSE].core = NewNode.core
        /\ [NewNode EXCEPT !.dealing = FALSE].view = NewNode.view
        /\ NewNode.log = <<>>
    BY DEF NewNode
  <2> DEFINE none == [NewNode EXCEPT !.dealing = FALSE]
  <2>3. DOMAIN NewNode.log = {}
    BY <2>2
  <2>4. /\ NewNode.core = Replay(p, NewNode.log, FALSE).core
        /\ NewNode.view = Replay(p, NewNode.log, FALSE).view
    <3>1. Replay(p, NewNode.log, FALSE) = none
      BY <2>1, <2>2
    <3>2. none.core = NewNode.core /\ none.view = NewNode.view
      BY <2>2
    <3> HIDE DEF none
    <3>. QED BY <3>1, <3>2
  <2>. QED BY <2>3, <2>4 DEF Faithful
<1>4. <<>> \in Seq(sent) /\ Len(<<>>) = 0
  OBVIOUS
<1>5. Shaped(NewNode) /\ NewNode.core = NewLocalTable /\ NewNode.view = NewView
      /\ NewNode.log = <<>>
  BY DEF NewNode, Shaped
<1>6. \A p \in Peers : Fine(NewNode, p, resyncing) /\ LogFrom(NewNode.log, sent)
  BY <1>1, <1>2, <1>3, <1>4, <1>5 DEF Fine, LogFrom, IsLog
<1>7. LogsOK
  <2>1. /\ sent = {} /\ resyncing = {} /\ node = [p \in Peers |-> NewNode]
    BY DEF Init
  <2>2. IsFiniteSet(sent) /\ Cardinality(sent) = 0 /\ MaxEntries \in Nat
    BY <2>1, FS_EmptySet, MeshAssumption
  <2>. QED BY <1>6, <2>1, <2>2 DEF LogsOK
<1>8. RequestsOK
  BY MeshAssumption DEF Init, RequestsOK
<1>9. OwnRequests
  BY FS_EmptySet DEF Init, OwnRequests
<1>10. NetOK
  BY MeshAssumption DEF Init, NetOK
<1>. QED BY <1>7, <1>8, <1>9, <1>10 DEF MeshInv

LEMMA SubmitKeeps ==
  ASSUME MeshInv, NEW p \in Peers, NEW kind \in Kinds, Submit(p, kind)
  PROVE  RequestsOK' /\ OwnRequests'
<1> DEFINE id == actions + 1
           r  == [actor |-> p, kind |-> kind, id |-> id]
           w  == [req |-> r, tries |-> 1]
<1>1. /\ actions < MaxActions /\ actions' = id
      /\ processed' = processed /\ undelivered' = undelivered
  BY DEF Submit
<1>2. actions \in Nat /\ MaxActions \in Nat /\ MaxTries \in Nat \ {0}
  BY MeshAssumption DEF MeshInv, RequestsOK
<1>3. id \in 1 .. MaxActions /\ r \in ActionRequest
  BY <1>1, <1>2 DEF ActionRequest
<1>4. undelivered' \subseteq 1 .. actions' /\ actions' \in 0 .. MaxActions
  BY <1>1, <1>2 DEF MeshInv, RequestsOK
<1>5. w \in [req : ActionRequest, tries : 1 .. MaxTries] /\ w.req = r /\ r.id = id
  BY <1>2, <1>3
<1>6. Coordinator(p) \in Peers
  BY CoordinatorType DEF MeshInv
<1> HIDE DEF r
<1>7. CASE Coordinator(p) = p
  <2>1. queue' = [queue EXCEPT ![p] = Append(@, r)] /\ pending' = pending /\ wire' = wire
    BY <1>7 DEF Submit, r
  <2>2. queue' \in [Peers -> Seq(ActionRequest)]
    BY <1>3, <2>1 DEF MeshInv, RequestsOK
  <2>3. RequestsOK'
    BY <1>1, <1>4, <2>1, <2>2 DEF MeshInv, RequestsOK
  <2>4. OwnRequests'
    BY <1>1, <1>2, <2>1 DEF MeshInv, OwnRequests
  <2>. QED BY <2>3, <2>4
<1>8. CASE Coordinator(p) # p
  <2>1. /\ pending' = [pending EXCEPT ![p] = @ \cup {w}] /\ queue' = queue
        /\ wire' = wire \cup {[to |-> Coordinator(p), req |-> r]}
    BY <1>8 DEF Submit, r
  <2>2. wire' \subseteq [to : Peers, req : ActionRequest]
    BY <1>3, <1>6, <2>1 DEF MeshInv, RequestsOK
  <2> HIDE DEF w
  <2>3. pending' \in [Peers -> SUBSET [req : ActionRequest, tries : 1 .. MaxTries]]
    BY <1>5, <2>1 DEF MeshInv, RequestsOK
  <2>4. RequestsOK'
    BY <1>1, <1>4, <2>1, <2>2, <2>3 DEF MeshInv, RequestsOK
  <2>5. ASSUME NEW q \in Peers
        PROVE  /\ IsFiniteSet(pending'[q])
               /\ \A v \in pending'[q] : v.req.id \in 1 .. actions'
               /\ \A v, u \in pending'[q] : v.req.id = u.req.id => v.req = u.req
    <3>1. CASE q = p
      <4>1. pending'[q] = pending[q] \cup {w}
        BY <2>1, <3>1 DEF MeshInv, RequestsOK
      <4>2. IsFiniteSet(pending[q]) /\ \A v \in pending[q] : v.req.id \in 1 .. actions
        BY DEF MeshInv, OwnRequests
      <4>3. \A v \in pending'[q] : v = w \/ v \in pending[q]
        BY <4>1
      <4>4. w.req.id = id
        BY <1>5
      <4>5. \A v \in pending[q] : v.req.id # w.req.id /\ v.req.id \in 1 .. id
        BY <1>2, <4>2, <4>4
      <4>6. id \in 1 .. id
        BY <1>2
      <4>7. IsFiniteSet(pending'[q])
        BY <4>1, <4>2, FS_AddElement
      <4>. QED BY <1>1, <4>3, <4>4, <4>5, <4>6, <4>7 DEF MeshInv, OwnRequests
    <3>2. CASE q # p
      <4>1. pending'[q] = pending[q]
        BY <2>1, <3>2 DEF MeshInv, RequestsOK
      <4>. QED BY <1>1, <1>2, <4>1 DEF MeshInv, OwnRequests
    <3>. QED BY <3>1, <3>2
  <2>. QED BY <2>4, <2>5 DEF OwnRequests
<1>. QED BY <1>7, <1>8

LEMMA RetriedParts ==
  ASSUME RequestsOK, OwnRequests, NEW p \in Peers, NEW due \in SUBSET pending[p]
  PROVE  LET R == RetriedAs(p, due) IN
         /\ IsFiniteSet(R) /\ R \subseteq [req : ActionRequest, tries : 1 .. MaxTries]
         /\ \A v \in R : \E w \in pending[p] : v.req = w.req
         /\ Coordinator(p) # p => \A w \in due \ GivenUp(due) : \E v \in R : v.req = w.req
<1> DEFINE rest == due \ GivenUp(due)
           again(w) == [w EXCEPT !.tries = @ + 1]
           A == {again(w) : w \in rest}
           R == RetriedAs(p, due)
<1>1. R = IF Coordinator(p) = p THEN {} ELSE A
  BY DEF RetriedAs
<1>2. rest \in SUBSET pending[p] /\ IsFiniteSet(rest)
  BY FS_Subset DEF OwnRequests
<1>3. ASSUME NEW w \in rest
      PROVE  again(w) \in [req : ActionRequest, tries : 1 .. MaxTries] /\ again(w).req = w.req
  <2>1. w \in [req : ActionRequest, tries : 1 .. MaxTries]
    BY <1>2 DEF RequestsOK
  <2>2. ~(w.tries >= MaxTries)
    BY DEF GivenUp
  <2>3. w.tries + 1 \in 1 .. MaxTries
    BY <2>1, <2>2, MeshAssumption
  <2>. QED BY <2>1, <2>3
<1>4. IsFiniteSet(A)
  <2> DEFINE f == [w \in rest |-> again(w)]
  <2>1. f \in Surjection(rest, A)
    <3> HIDE DEF again
    <3>. QED BY DEF Surjection
  <2> HIDE DEF f, rest, A
  <2>. QED BY <1>2, <2>1, FS_Surjection
<1>5. \A v \in A : \E w \in rest : v = again(w)
  OBVIOUS
<1>6. \A w \in rest : again(w) \in A
  OBVIOUS
<1> HIDE DEF rest, again, A, R
<1>7. \A v \in A : /\ v \in [req : ActionRequest, tries : 1 .. MaxTries]
                   /\ \E w \in pending[p] : v.req = w.req
  BY <1>2, <1>3, <1>5
<1>8. \A w \in rest : \E v \in A : v.req = w.req
  BY <1>3, <1>6
<1>. QED BY <1>1, <1>4, <1>7, <1>8, FS_EmptySet DEF R, rest

LEMMA TickKeeps ==
  ASSUME MeshInv, NEW p \in Peers, NEW due, NEW timer \in BOOLEAN, NEW revealed \in BOOLEAN,
         Tick(p, due, timer, revealed)
  PROVE  RequestsOK' /\ OwnRequests' /\ NetOK'
<1> DEFINE todo == queue[p] \o TakenOver(p, due)
           R == RetriedAs(p, due)
           lost == GivenUp(due)
<1>1. /\ due \in SUBSET pending[p]
      /\ pending' = [pending EXCEPT ![p] = (@ \ due) \cup R]
      /\ undelivered' = undelivered \cup {w.req.id : w \in lost}
      /\ wire' = wire \cup {[to |-> Coordinator(p), req |-> w.req] : w \in R}
      /\ processed' = processed /\ actions' = actions
      /\ sees' = sees /\ up' = up /\ losses' = losses
  BY DEF Tick, netVars
<1>2. RequestsOK /\ OwnRequests /\ NetOK /\ Coordinator(p) \in Peers
  BY CoordinatorType DEF MeshInv
<1>3. /\ IsFiniteSet(R) /\ R \subseteq [req : ActionRequest, tries : 1 .. MaxTries]
      /\ \A v \in R : \E w \in pending[p] : v.req = w.req
  BY <1>1, <1>2, RetriedParts
<1>4. lost \in SUBSET pending[p]
  BY <1>1 DEF GivenUp
<1>5. todo \in Seq(ActionRequest)
  BY <1>1, <1>2, TakenOverType DEF RequestsOK
<1>6. queue' \in [Peers -> Seq(ActionRequest)]
  <2> HIDE DEF todo
  <2>1. queue' = [queue EXCEPT ![p] = <<>>] \/ queue' = [queue EXCEPT ![p] = todo]
    BY DEF Tick, todo
  <2>2. queue \in [Peers -> Seq(ActionRequest)] /\ <<>> \in Seq(ActionRequest)
    BY <1>2 DEF RequestsOK
  <2>. QED BY <1>5, <2>1, <2>2
<1>7. round' \in [Peers -> {"none", "open", "complete"}]
  <2> DEFINE done == Duties(EmitAll(node[p], p, todo), p, Alive(p), timer, revealed).round
  <2>1. round[p] \in {"none", "open", "complete"}
    BY <1>2 DEF NetOK
  <2>2. done \in {"none", "open", "complete"}
    BY <2>1 DEF Duties, NextRound
  <2>3. round' = [round EXCEPT ![p] = "none"] \/ round' = [round EXCEPT ![p] = done]
    BY DEF Tick
  <2> HIDE DEF done
  <2>. QED BY <1>2, <2>2, <2>3 DEF NetOK
<1>8. NetOK'
  <2>1. leftover' \in {leftover, leftover \cup {p}}
    BY DEF Tick
  <2>. QED BY <1>1, <1>2, <1>7, <2>1 DEF NetOK
<1> HIDE DEF R, lost, todo
<1>9. undelivered' \subseteq 1 .. actions
  BY <1>1, <1>2, <1>4 DEF RequestsOK, OwnRequests
<1>10. wire' \subseteq [to : Peers, req : ActionRequest]
  BY <1>1, <1>2, <1>3 DEF RequestsOK
<1>11. pending' \in [Peers -> SUBSET [req : ActionRequest, tries : 1 .. MaxTries]]
  BY <1>1, <1>2, <1>3 DEF RequestsOK
<1>12. RequestsOK'
  BY <1>1, <1>2, <1>6, <1>9, <1>10, <1>11 DEF RequestsOK
<1>13. ASSUME NEW q \in Peers
       PROVE  /\ IsFiniteSet(pending'[q])
              /\ \A v \in pending'[q] : v.req.id \in 1 .. actions'
              /\ \A v, u \in pending'[q] : v.req.id = u.req.id => v.req = u.req
  <2>1. CASE q = p
    <3>1. pending'[q] = (pending[q] \ due) \cup R
      BY <1>1, <1>2, <2>1 DEF RequestsOK
    <3>2. IsFiniteSet(pending[q] \ due)
      BY <1>2, FS_Subset DEF OwnRequests
    <3>3. IsFiniteSet(pending'[q])
      <4> DEFINE D == pending[q] \ due
      <4>1. IsFiniteSet(D) /\ IsFiniteSet(R)
        BY <1>3, <3>2
      <4>2. IsFiniteSet(D \cup R)
        <5> HIDE DEF D
        <5>. QED BY <4>1, FS_Union
      <4>. QED BY <3>1, <4>2
    <3>4. \A v \in pending'[q] : \E w \in pending[q] : v.req = w.req
      BY <1>3, <2>1, <3>1
    <3>. QED BY <1>1, <1>2, <3>3, <3>4 DEF OwnRequests
  <2>2. CASE q # p
    <3>1. pending'[q] = pending[q]
      BY <1>1, <1>2, <2>2 DEF RequestsOK
    <3>. QED BY <1>1, <1>2, <3>1 DEF OwnRequests
  <2>. QED BY <2>1, <2>2
<1>. QED BY <1>8, <1>12, <1>13 DEF OwnRequests

LEMMA OnRequestKeeps ==
  ASSUME MeshInv, NEW p \in Peers, NEW f \in wire, OnRequest(p, f)
  PROVE  RequestsOK' /\ OwnRequests'
<1>1. /\ processed' = [processed EXCEPT ![p] = @ \cup {f.req.id}]
      /\ queue' = [queue EXCEPT ![p] = Append(@, f.req)]
      /\ pending' = pending /\ wire' = wire /\ actions' = actions /\ undelivered' = undelivered
  BY DEF OnRequest
<1>2. f.req \in ActionRequest /\ f.req.id \in 1 .. MaxActions
  BY DEF MeshInv, RequestsOK, ActionRequest
<1>3. queue' \in [Peers -> Seq(ActionRequest)]
  BY <1>1, <1>2 DEF MeshInv, RequestsOK
<1>4. processed = [q \in Peers |-> processed[q]]
  BY DEF MeshInv, RequestsOK
<1>5. /\ processed' = [q \in Peers |-> processed'[q]]
      /\ \A q \in Peers : processed'[q] \subseteq 1 .. MaxActions
  BY <1>1, <1>2, <1>4 DEF MeshInv, RequestsOK
<1>. QED BY <1>1, <1>3, <1>5 DEF MeshInv, RequestsOK, OwnRequests

LEMMA OnAckKeeps ==
  ASSUME MeshInv, NEW p \in Peers, NEW w \in pending[p], NEW q \in Peers, OnAck(p, w, q)
  PROVE  RequestsOK' /\ OwnRequests'
<1>1. /\ pending' = [pending EXCEPT ![p] = @ \ {w}]
      /\ processed' = processed /\ queue' = queue
      /\ wire' = wire /\ actions' = actions /\ undelivered' = undelivered
  BY DEF OnAck
<1>2. RequestsOK'
  BY <1>1 DEF MeshInv, RequestsOK
<1>3. ASSUME NEW r \in Peers
      PROVE  pending'[r] \subseteq pending[r] /\ IsFiniteSet(pending'[r])
  <2>1. pending'[r] \in SUBSET pending[r]
    BY <1>1 DEF MeshInv, RequestsOK
  <2>2. IsFiniteSet(pending[r])
    BY DEF MeshInv, OwnRequests
  <2> DEFINE D == pending'[r]
  <2>3. D \in SUBSET pending[r]
    BY <2>1
  <2> HIDE DEF D
  <2>4. IsFiniteSet(D)
    BY <2>2, <2>3, FS_Subset
  <2>. QED BY <2>1, <2>4 DEF D
<1>4. ASSUME NEW r \in Peers
      PROVE  /\ \A v \in pending'[r] : v.req.id \in 1 .. actions'
             /\ \A v, u \in pending'[r] : v.req.id = u.req.id => v.req = u.req
  <2>1. /\ \A v \in pending[r] : v.req.id \in 1 .. actions
        /\ \A v, u \in pending[r] : v.req.id = u.req.id => v.req = u.req
    BY DEF MeshInv, OwnRequests
  <2>2. \A v \in pending'[r] : v \in pending[r]
    BY <1>3
  <2>. QED BY <1>1, <2>1, <2>2
<1>. QED BY <1>2, <1>3, <1>4 DEF OwnRequests

\* The invariant is inductive.
LEMMA MeshStep ==
  ASSUME MeshInv, [Next]_vars
  PROVE  MeshInv'
<1>1. ASSUME NEW p \in Peers, NEW kind \in Kinds, Submit(p, kind)
      PROVE  MeshInv'
  <2>1. RequestsOK' /\ OwnRequests'
    BY <1>1, SubmitKeeps
  <2>2. LogsOK' /\ NetOK'
    BY <1>1 DEF MeshInv, Submit, nodeVars, netVars, LogsOK, NetOK
  <2>. QED BY <2>1, <2>2 DEF MeshInv
<1>2. ASSUME NEW p \in Peers, NEW f \in wire, OnRequest(p, f)
      PROVE  MeshInv'
  <2>1. RequestsOK' /\ OwnRequests'
    BY <1>2, OnRequestKeeps
  <2>2. LogsOK' /\ NetOK'
    BY <1>2 DEF MeshInv, OnRequest, nodeVars, netVars, LogsOK, NetOK
  <2>. QED BY <2>1, <2>2 DEF MeshInv
<1>3. ASSUME NEW p \in Peers, NEW w \in pending[p], NEW q \in Peers, OnAck(p, w, q)
      PROVE  MeshInv'
  <2>1. RequestsOK' /\ OwnRequests'
    BY <1>3, OnAckKeeps
  <2>2. LogsOK' /\ NetOK'
    BY <1>3 DEF MeshInv, OnAck, nodeVars, netVars, LogsOK, NetOK
  <2>. QED BY <2>1, <2>2 DEF MeshInv
<1>4. ASSUME NEW p \in Peers, NEW due \in SUBSET pending[p], NEW timer \in BOOLEAN,
             NEW revealed \in BOOLEAN, Tick(p, due, timer, revealed)
      PROVE  MeshInv'
  BY <1>4, TickKeepsLogs, TickKeeps DEF MeshInv
<1>5. ASSUME NEW p \in Peers, SeedReady(p)
      PROVE  MeshInv'
  <2>1. LogsOK'
    BY <1>5, SeedReadyKeepsLogs DEF MeshInv
  <2>2. RequestsOK' /\ OwnRequests' /\ NetOK'
    BY <1>5 DEF MeshInv, SeedReady, reqVars, netVars, RequestsOK, OwnRequests, NetOK
  <2>. QED BY <2>1, <2>2 DEF MeshInv
<1>6. ASSUME NEW p \in Peers, NEW e \in sent, Ingest(p, e)
      PROVE  MeshInv'
  <2>1. LogsOK'
    BY <1>6, IngestKeepsLogs DEF MeshInv
  <2>2. RequestsOK' /\ OwnRequests' /\ NetOK'
    BY <1>6 DEF MeshInv, Ingest, reqVars, netVars, RequestsOK, OwnRequests, NetOK
  <2>. QED BY <2>1, <2>2 DEF MeshInv
<1>7. ASSUME NEW p \in Peers, Crash(p)
      PROVE  MeshInv'
  <2>1. LogsOK' /\ RequestsOK' /\ OwnRequests'
    BY <1>7 DEF MeshInv, Crash, nodeVars, reqVars, LogsOK, RequestsOK, OwnRequests
  <2>2. NetOK'
    BY <1>7, MeshAssumption DEF MeshInv, Crash, nodeVars, NetOK
  <2>. QED BY <2>1, <2>2 DEF MeshInv
<1>8. ASSUME NEW p \in Peers, NEW q \in Peers, NEW len \in 0 .. MaxEntries, Adopt(p, q, len)
      PROVE  MeshInv'
  <2>1. LogsOK'
    BY <1>8, AdoptKeepsLogs DEF MeshInv
  <2>2. RequestsOK' /\ OwnRequests' /\ NetOK'
    BY <1>8 DEF MeshInv, Adopt, reqVars, netVars, RequestsOK, OwnRequests, NetOK
  <2>. QED BY <2>1, <2>2 DEF MeshInv
<1>9. ASSUME NEW p \in Peers, NEW q \in Peers, Miss(p, q) \/ Heartbeat(p, q)
      PROVE  MeshInv'
  <2>1. LogsOK' /\ RequestsOK' /\ OwnRequests'
    BY <1>9 DEF MeshInv, Miss, Heartbeat, nodeVars, reqVars, LogsOK, RequestsOK, OwnRequests
  <2>2. sees \in [Peers -> SUBSET Peers] /\ up \subseteq Peers /\ losses \in Nat
        /\ losses <= MaxLosses /\ round \in [Peers -> {"none", "open", "complete"}]
        /\ leftover \subseteq Peers
    BY DEF MeshInv, NetOK
  <2>3. sees' \in [Peers -> SUBSET Peers] /\ up' = up /\ round' = round /\ leftover' = leftover
    BY <1>9, <2>2 DEF Miss, Heartbeat, nodeVars
  <2>4. losses' \in Nat /\ losses' <= MaxLosses
    BY <1>9, <2>2, MeshAssumption DEF Miss, Heartbeat
  <2>. QED BY <2>1, <2>2, <2>3, <2>4 DEF MeshInv, NetOK
<1>10. CASE UNCHANGED vars
  BY <1>10 DEF vars, nodeVars, reqVars, netVars, MeshInv, LogsOK, RequestsOK, OwnRequests, NetOK
<1>. QED BY <1>1, <1>2, <1>3, <1>4, <1>5, <1>6, <1>7, <1>8, <1>9, <1>10 DEF Next, Beat

-----------------------------------------------------------------------------
(* The theorems *)

\* Whatever is lost, crashed or forked, the nodes that follow are faithful to their logs, logs hold
\* broadcast entries in their places, and requests are told apart by their ids.
THEOREM MeshInvariant == Spec => []MeshInv
<1>1. Init => MeshInv
  BY MeshInit
<1>2. MeshInv /\ [Next]_vars => MeshInv'
  BY MeshStep
<1>. QED BY <1>1, <1>2, PTL DEF Spec

\* The state of the mesh is well formed in every reachable state: what apply and adoptSnapshot
\* find in the log of a peer has its place there and was broadcast.
THEOREM TypeCorrect == Spec => []TypeOK
<1>1. MeshInv => TypeOK
  <2> SUFFICES ASSUME MeshInv PROVE TypeOK
    OBVIOUS
  <2>1. sent \subseteq LogEntry
    <3>1. ASSUME NEW e \in sent PROVE e \in LogEntry
      <4>1. WellMade(e) /\ e.seq \in 1 .. MaxEntries /\ e.hash \in LocalTable
        BY DEF MeshInv, LogsOK
      <4> HIDE DEF LocalTable
      <4>. QED BY <4>1 DEF WellMade, LogEntry, AllKinds
    <3>. QED BY <3>1
  <2>2. ASSUME NEW p \in Peers
        PROVE  /\ node[p].core \in LocalTable /\ Len(node[p].log) <= MaxEntries
               /\ \A i \in DOMAIN node[p].log : node[p].log[i] \in sent /\ node[p].log[i].seq = i
    <3>1. CoreOK(node[p].core) /\ LogFrom(node[p].log, sent) /\ IsFiniteSet(sent)
          /\ Cardinality(sent) <= MaxEntries
      BY DEF MeshInv, LogsOK, Fine
    <3>2. Len(node[p].log) <= Cardinality(sent) /\ Cardinality(sent) \in Nat
      BY <3>1, LogLength, FS_CardinalityType
    <3>3. Len(node[p].log) \in Nat /\ DOMAIN node[p].log = 1 .. Len(node[p].log)
      BY <3>1 DEF LogFrom
    <3>4. Len(node[p].log) <= MaxEntries
      BY <3>1, <3>2, <3>3, MeshAssumption
    <3>. QED BY <3>1, <3>3, <3>4 DEF CoreOK, LogFrom
  <2>. QED BY <2>1, <2>2 DEF MeshInv, LogsOK, RequestsOK, NetOK, TypeOK
<1>. QED BY <1>1, MeshInvariant, PTL

\* A peer that a resync has to serve can be served from its log alone, whatever got lost, who
\* crashed and how the logs forked: the log accounts for core and view, and each of its entries
\* for the hash the others checked it by.
THEOREM LogsSuffice == Spec => []LogIsEnough
<1>1. MeshInv => LogIsEnough
  <2> SUFFICES ASSUME MeshInv PROVE LogIsEnough
    OBVIOUS
  <2>1. \A p \in Peers \ resyncing : Faithful(node[p], p)
    BY DEF MeshInv, LogsOK, Fine
  <2>. QED BY <2>1 DEF Faithful, LogIsEnough, CoreIsLog, LogReproduces
<1>. QED BY <1>1, MeshInvariant, PTL

-----------------------------------------------------------------------------
(* Calm logs: one line of dealers *)

\* What a log makes of the core of every peer, and of the view of one.
CoreAfter(l)    == Replay(0, l, FALSE).core
ViewAfter(p, l) == Replay(p, l, FALSE).view

\* Peer p coordinates by that log, if it takes everybody for alive.
Leads(p, l) == CoordinatorSeat(ViewAfter(p, l), Peers) = p

\* Views v agree with core c: everybody takes O for unfit, and who does not has b for the
\* button, or for the last one.  Who brought the seed has the button, or is broke and the
\* next seat in the hand has it.
Agreed(c, v, O, b) ==
  /\ O \in SUBSET Seats /\ O \subseteq c.out \cup c.broke /\ b \in Starts
  /\ \A p \in Peers : /\ v[p].out = O /\ (p \notin O => v[p].button = b)
                      /\ v[p].running <=> Running(c) /\ p \notin O
  /\ Running(c) => /\ c.dealt = Seats \ O /\ b \in Seats \ O
                   /\ c.button = b /\ c.seed = NoSeed
                   /\ c.deck[1] \in c.dealt \cup c.broke
                   /\ b = FirstAfter(c.deck[1] - 1, c.dealt)
  /\ ~Running(c) => c.button = FirstAfter(b, Seats)

Views(l)  == [p \in Peers |-> ViewAfter(p, l)]
Common(l) == \E O \in SUBSET Seats, b \in Starts : Agreed(CoreAfter(l), Views(l), O, b)

\* Who coordinates then, unless everybody is unfit.
LeaderBy(c, O, b) == FirstAfter(IF Running(c) THEN b - 1 ELSE b, Seats \ O)

LEMMA FirstAfterIn ==
  ASSUME NEW a, NEW S \in SUBSET Seats, S # {}
  PROVE  FirstAfter(a, S) \in S
<1> DEFINE L == {i \in S : i > a}
           T == IF L = {} THEN S ELSE L
<1>1. T \in SUBSET Seats /\ T # {} /\ T \subseteq S
  OBVIOUS
<1> HIDE DEF L
<1>2. FirstAfter(a, S) = Min(T)
  BY DEF FirstAfter, L
<1> HIDE DEF T
<1>3. Min(T) \in T
  BY <1>1, LowestSeat
<1>. QED BY <1>1, <1>2, <1>3

LEMMA LeaderType ==
  ASSUME NEW c, NEW v, NEW O, NEW b, Agreed(c, v, O, b)
  PROVE  /\ O # Seats => LeaderBy(c, O, b) \in Seats \ O
         /\ Running(c) => O # Seats /\ LeaderBy(c, O, b) = b
<1>1. ASSUME O # Seats PROVE LeaderBy(c, O, b) \in Seats \ O
  <2> DEFINE a == IF Running(c) THEN b - 1 ELSE b
  <2> HIDE DEF a
  <2>1. Seats \ O \in SUBSET Seats /\ Seats \ O # {}
    BY <1>1 DEF Agreed
  <2>2. FirstAfter(a, Seats \ O) \in Seats \ O
    BY <2>1, FirstAfterIn
  <2>. QED BY <2>2 DEF LeaderBy, a
<1>2. ASSUME Running(c) PROVE O # Seats /\ LeaderBy(c, O, b) = b
  <2>1. b \in Seats \ O /\ b \in Seats /\ Seats \ O \in SUBSET Seats
    BY <1>2 DEF Agreed
  <2>2. FirstAfter(b - 1, Seats \ O) = b
    BY <2>1, FirstIsNext
  <2>. QED BY <1>2, <2>1, <2>2 DEF LeaderBy
<1>. QED BY <1>1, <1>2

\* By views that agree exactly one peer coordinates, if anybody is fit to.
LEMMA LeadsIs ==
  ASSUME NEW c, NEW v, NEW O, NEW b, Agreed(c, v, O, b), NEW p \in Peers
  PROVE  CoordinatorSeat(v[p], Peers) = p <=> O # Seats /\ p = LeaderBy(c, O, b)
<1> DEFINE S == Seats \ O
           a == IF v[p].running THEN v[p].button - 1 ELSE v[p].button
<1>1. S \in SUBSET Seats /\ v[p].out = O /\ p \in Seats
  BY DEF Agreed, Peers
<1>2. CoordinatorSeat(v[p], Peers) = FirstAfter(a, S)
  BY <1>1 DEF CoordinatorSeat, EligibleIn, Peers
<1>3. CASE O = Seats
  <2> HIDE DEF a
  <2>1. FirstAfter(a, S) = -1
    BY <1>3 DEF FirstAfter, Nobody
  <2>2. p # -1
    BY <1>1, NumSeatsAssumption DEF Seats
  <2>. QED BY <1>2, <1>3, <2>1, <2>2
<1>4. CASE O # Seats /\ p \in O
  <2> HIDE DEF a
  <2>1. S # {}
    BY <1>1, <1>4 DEF Agreed
  <2>2. FirstAfter(a, S) \in S
    BY <1>1, <2>1, FirstAfterIn
  <2>. QED BY <1>2, <1>4, <2>2, LeaderType
<1>5. CASE O # Seats /\ p \notin O
  <2>1. v[p].button = b /\ (v[p].running <=> Running(c))
    BY <1>5 DEF Agreed
  <2>2. a = IF Running(c) THEN b - 1 ELSE b
    BY <2>1
  <2> HIDE DEF a
  <2>. QED BY <1>2, <1>5, <2>2 DEF LeaderBy
<1>. QED BY <1>3, <1>4, <1>5

LEMMA OneLeader ==
  ASSUME NEW l, Common(l), NEW p \in Peers, NEW q \in Peers, Leads(p, l), Leads(q, l)
  PROVE  p = q
<1>1. PICK O \in SUBSET Seats, b \in Starts : Agreed(CoreAfter(l), Views(l), O, b)
  BY DEF Common
<1>2. \A r \in Peers : Leads(r, l) <=> O # Seats /\ r = LeaderBy(CoreAfter(l), O, b)
  <2>1. \A r \in Peers : Views(l)[r] = ViewAfter(r, l)
    BY DEF Views
  <2>. QED BY <1>1, <2>1, LeadsIs DEF Leads
<1>. QED BY <1>2

-----------------------------------------------------------------------------
(* What one more entry makes of views that agree *)

\* The views after entry e, whose outcome is o.
NextViews(v, e, o) == [p \in Peers |-> NextView(v[p], p, e, o)]

\* Nobody is told anything, or that the hand is over.
Plays(c, d, told) ==
  /\ c.out \subseteq d.out /\ c.broke \subseteq d.broke
  /\ \/ /\ told = {} /\ d.dealt = c.dealt /\ d.button = c.button /\ d.deck = c.deck
        /\ d.seed = c.seed
     \/ /\ Running(c) /\ told = {"showdown"} /\ d.dealt = {}
        /\ d.button = FirstAfter(c.button, Seats)

LEMMA PlaysAgreed ==
  ASSUME NEW c, NEW v, NEW O, NEW b, Agreed(c, v, O, b), NEW e, e.kind # "void",
         NEW o, Plays(c, o.core, o.told)
  PROVE  Agreed(o.core, NextViews(v, e, o), O, b) /\ (Running(o.core) => Running(c))
<1> DEFINE d == o.core
           w == NextViews(v, e, o)
<1>1. ASSUME NEW p \in Peers
      PROVE  /\ w[p].out = v[p].out /\ w[p].button = v[p].button
             /\ w[p].running <=> v[p].running /\ "showdown" \notin o.told
  <2>1. w[p] = NextView(v[p], p, e, o)
    BY DEF NextViews
  <2>2. "hand_dealt" \notin o.told /\ "seat_update" \notin o.told
    BY DEF Plays
  <2> HIDE DEF w
  <2>. QED BY <2>1, <2>2, NextViewParts
<1>2. Running(d) => Running(c)
  BY DEF Plays, Running
<1>3. "showdown" \in o.told => Running(c) /\ ~Running(d)
  BY DEF Plays, Running
<1>4. "showdown" \notin o.told => (Running(d) <=> Running(c))
  BY DEF Plays, Running
<1>5. O \in SUBSET Seats /\ O \subseteq d.out \cup d.broke /\ b \in Starts
  BY DEF Agreed, Plays
<1> HIDE DEF w, d
<1>6. ASSUME NEW p \in Peers
      PROVE  /\ w[p].out = O /\ (p \notin O => w[p].button = b)
             /\ w[p].running <=> Running(d) /\ p \notin O
  <2>1. /\ v[p].out = O /\ (p \notin O => v[p].button = b)
        /\ v[p].running <=> Running(c) /\ p \notin O
    BY DEF Agreed
  <2>. QED BY <1>1, <1>2, <1>3, <1>4, <2>1
<1>7. ASSUME Running(d)
      PROVE  /\ d.dealt = Seats \ O /\ b \in Seats \ O /\ d.button = b /\ d.seed = NoSeed
             /\ d.deck[1] \in d.dealt \cup d.broke /\ b = FirstAfter(d.deck[1] - 1, d.dealt)
  <2>1. /\ d.dealt = c.dealt /\ d.button = c.button /\ d.deck = c.deck /\ d.seed = c.seed
        /\ c.broke \subseteq d.broke
    BY <1>7 DEF Plays, Running, d
  <2>2. /\ c.dealt = Seats \ O /\ b \in Seats \ O /\ c.button = b /\ c.seed = NoSeed
        /\ c.deck[1] \in c.dealt \cup c.broke /\ b = FirstAfter(c.deck[1] - 1, c.dealt)
    BY <1>2, <1>7 DEF Agreed
  <2>. QED BY <2>1, <2>2
<1>8. ASSUME ~Running(d) PROVE d.button = FirstAfter(b, Seats)
  <2>1. CASE Running(c)
    <3>1. c.button = b
      BY <2>1 DEF Agreed
    <3>2. c.dealt # {} /\ d.dealt = {}
      BY <1>8, <2>1 DEF Running
    <3>3. d.button = FirstAfter(c.button, Seats)
      BY <3>2 DEF Plays, d
    <3>. QED BY <3>1, <3>3
  <2>2. CASE ~Running(c)
    <3>1. d.button = c.button
      BY <2>2 DEF Plays, d
    <3>. QED BY <2>2, <3>1 DEF Agreed
  <2>. QED BY <2>1, <2>2
<1>9. Agreed(d, w, O, b)
  BY <1>5, <1>6, <1>7, <1>8 DEF Agreed
<1>. QED BY <1>2, <1>9 DEF d, w

\* A bet, and the end of a seat's time.
LEMMA PlaysOf ==
  ASSUME NEW c, CoreOK(c), c.seed = NoSeed, NEW e,
         e.kind = "act" \/ (e.kind = "timeout" /\ Running(c))
  PROVE  LET o == RunOnCore(c, e) IN Plays(c, o.core, o.told)
<1>1. CASE e.kind = "act"
  <2> DEFINE a == HandleBet(Quiet(c), e.actor)
  <2>1. RunOnCore(c, e) = a
    BY <1>1 DEF RunOnCore
  <2>2. \/ a.told = {} /\ Alike(a.core, c)
        \/ /\ Running(c) /\ a.told = {"showdown"} /\ a.core.dealt = {}
           /\ c.out \subseteq a.core.out /\ c.broke \subseteq a.core.broke
           /\ a.core.seed = NoSeed
           /\ a.core.button = FirstAfter(c.button, Seats)
    BY BetParts
  <2> HIDE DEF a
  <2>3. Plays(c, a.core, a.told)
    BY <2>2 DEF Plays, Alike
  <2>. QED BY <2>1, <2>3
<1>2. CASE e.kind = "timeout" /\ Running(c)
  <2> DEFINE a == HandleFoldOnTimeout(Quiet(c))
  <2>1. RunOnCore(c, e) = a
    BY <1>2 DEF RunOnCore
  <2>2. /\ c.out \subseteq a.core.out /\ c.broke \subseteq a.core.broke
        /\ a.core.seed = NoSeed
        /\ \/ /\ a.told = {} /\ a.core.dealt = c.dealt /\ a.core.button = c.button
              /\ a.core.deck = c.deck
           \/ /\ a.told = {"showdown"} /\ a.core.dealt = {}
              /\ a.core.button = FirstAfter(c.button, Seats)
    BY <1>2, TimeoutParts
  <2> HIDE DEF a
  <2>3. Plays(c, a.core, a.told)
    BY <1>2, <2>2 DEF Plays
  <2>. QED BY <2>1, <2>3
<1>. QED BY <1>1, <1>2

\* The seed of the next hand changes no view.
LEMMA SeedAgreed ==
  ASSUME NEW c, CoreOK(c), ~Running(c), NEW v, NEW O, NEW b, Agreed(c, v, O, b),
         NEW e, e.kind = "seed", <<e.by, e.seq>> \in Seq(Nat)
  PROVE  LET o == RunOnCore(c, e) IN
         /\ Agreed(o.core, NextViews(v, e, o), O, b) /\ ~Running(o.core)
         /\ CoreOK(o.core) /\ o.core.seed = <<e.by, e.seq>>
<1> DEFINE o == RunOnCore(c, e)
           s == <<e.by, e.seq>>
           k == [c EXCEPT !.seed = s]
           w == NextViews(v, e, o)
<1>1. o = Quiet(k)
  BY DEF RunOnCore
<1>2. /\ CoreOK(k) /\ k.seed = s /\ k.out = c.out /\ k.broke = c.broke
      /\ k.button = c.button /\ k.dealt = c.dealt
  <2> DEFINE t == s
  <2> HIDE DEF t
  <2>1. t \in Seq(Nat)
    BY DEF t
  <2>2. LET j == [c EXCEPT !.seed = t] IN
         /\ CoreOK(j) /\ j.seed = t /\ j.out = c.out /\ j.broke = c.broke
         /\ j.button = c.button /\ j.dealt = c.dealt
    BY <2>1, SeedParts
  <2>. QED BY <2>2 DEF t
<1> HIDE DEF k
<1>3. o.core = k /\ o.told = {}
  BY <1>1, QuietParts
<1> HIDE DEF o, s
<1>4. ASSUME NEW p \in Peers
      PROVE w[p].out = v[p].out /\ w[p].button = v[p].button /\ (w[p].running <=> v[p].running)
  <2>1. w[p] = NextView(v[p], p, e, o)
    BY DEF NextViews
  <2> HIDE DEF w
  <2>. QED BY <1>3, <2>1, NextViewParts
<1> HIDE DEF w
<1>5. ~Running(k)
  BY <1>2 DEF Running
<1>6. Agreed(k, w, O, b)
  BY <1>2, <1>4, <1>5 DEF Agreed
<1>. QED BY <1>2, <1>3, <1>5, <1>6 DEF o, w, s

\* The sit_in of the peer that brought the seed deals, and gives it the button, or, if it is
\* broke, the next seat that is dealt in; or too few play.  Everybody is told who is unfit.
LEMMA DealAgreed ==
  ASSUME NEW c, CoreOK(c), ~Running(c), NEW v, NEW O, NEW b, Agreed(c, v, O, b), O # Seats,
         NEW e, e.kind = "sit_in", e.actor = LeaderBy(c, O, b),
         c.seed # NoSeed, c.seed[1] = e.actor
  PROVE  LET o == RunOnCore(c, e) IN
         \E P \in SUBSET Seats, d \in Starts : Agreed(o.core, NextViews(v, e, o), P, d)
<1> DEFINE p == e.actor
           o == RunOnCore(c, e)
           P == (c.out \ {p}) \cup c.broke
           w == NextViews(v, e, o)
<1>1. p \in Seats \ O /\ p = FirstAfter(b, Seats \ O)
  <2>1. p \in Seats \ O
    BY LeaderType
  <2>. QED BY <2>1 DEF LeaderBy
<1>2. PICK u : /\ IsOutcome(u) /\ CoreOK(u.core) /\ u.told = {"seat_update"}
               /\ u.core.out = c.out \ {p} /\ u.core.broke = c.broke /\ u.core.button = c.button
               /\ u.core.seed = c.seed /\ u.core.dealt = c.dealt /\ u.list = P
               /\ HandleSitIn(Quiet(c), p) = StartHandIfReady(u)
  <2>1. p \in Seats
    BY <1>1
  <2> HIDE DEF p
  <2>2. PICK u : /\ IsOutcome(u) /\ CoreOK(u.core) /\ u.told = {"seat_update"}
                 /\ u.core.out = c.out \ {p} /\ u.core.broke = c.broke
                 /\ u.core.button = c.button
                 /\ u.core.seed = c.seed /\ u.core.dealt = c.dealt
                 /\ ~Running(c) => u.list = (c.out \ {p}) \cup c.broke
                 /\ HandleSitIn(Quiet(c), p) = StartHandIfReady(u)
    BY <2>1, SitInParts
  <2>. QED BY <2>2
<1>3. o = StartHandIfReady(u)
  <2>1. RunOnCore(c, e) = HandleSitIn(Quiet(c), e.actor)
    BY DEF RunOnCore
  <2>. QED BY <1>2, <2>1
<1>4. P \in SUBSET Seats /\ O \subseteq P
  <2>1. c.out \in SUBSET Seats /\ c.broke \in SUBSET Seats
    BY DEF CoreOK, LocalTable
  <2>2. O \subseteq c.out \cup c.broke
    BY DEF Agreed
  <2>. QED BY <1>1, <2>1, <2>2
<1>5. ~Running(u.core) /\ Ready(u.core) = Seats \ P
  BY <1>2 DEF Running, Ready
<1>6. b \in Starts /\ c.button = FirstAfter(b, Seats)
  BY DEF Agreed
<1>7. ASSUME NEW q \in Peers
      PROVE  v[q].out = O /\ (q \notin O => v[q].button = b) /\ ~v[q].running
  BY DEF Agreed
<1>8. ASSUME NEW q \in Peers PROVE w[q] = NextView(v[q], q, e, o)
  BY DEF NextViews
<1> HIDE DEF o, w
<1>9. CASE Deals(u.core)
  <2> DEFINE T == Seats \ P
             d == FirstAfter(u.core.button - 1, T)
  <2>1. /\ o.told = u.told \cup {"hand_dealt"}
        /\ o.core.dealt = T /\ T # {}
        /\ o.core.out = u.core.out /\ o.core.broke = u.core.broke
        /\ o.core.seed = NoSeed /\ o.core.deck = u.core.seed
        /\ o.core.button = d /\ o.list = u.list
    BY <1>2, <1>3, <1>5, <1>9, StartParts
  <2>2. T \in SUBSET Seats /\ T \in SUBSET (Seats \ O) /\ Seats \ O \in SUBSET Seats
    BY <1>4
  <2> HIDE DEF P, T
  <2>3. d = FirstAfter(p - 1, T)
    <3>1. d = FirstAfter(FirstAfter(b, Seats) - 1, T)
      BY <1>2, <1>6
    <3>2. FirstAfter(FirstAfter(b, Seats) - 1, T) = FirstAfter(b, T)
      BY <1>6, <2>1, <2>2, FirstPast
    <3>3. FirstAfter(FirstAfter(b, Seats \ O) - 1, T) = FirstAfter(b, T)
      BY <1>6, <2>1, <2>2, FirstPast
    <3>. QED BY <1>1, <3>1, <3>2, <3>3
  <2>4. d \in T
    <3> DEFINE a == u.core.button - 1
    <3> HIDE DEF a
    <3>1. FirstAfter(a, T) \in T
      BY <2>1, <2>2, FirstAfterIn
    <3>. QED BY <3>1 DEF a
  <2> HIDE DEF d
  <2>5. Running(o.core) /\ o.core.deck[1] = p
    BY <1>2, <2>1 DEF Running
  <2>6. p \in T \cup c.broke
    BY <1>1 DEF T, P
  <2>7. ASSUME NEW q \in Peers
        PROVE  /\ w[q].out = P /\ (q \notin P => w[q].button = d)
               /\ w[q].running <=> q \notin P
    <3>1. q \in o.core.dealt <=> q \notin P
      BY <2>1 DEF T, Peers
    <3>2. "hand_dealt" \in o.told /\ "seat_update" \in o.told /\ "showdown" \notin o.told
      BY <1>2, <2>1
    <3>. QED BY <1>2, <1>7, <1>8, <2>1, <3>1, <3>2, NextViewParts
  <2>8. d \in Starts /\ P \subseteq o.core.out \cup o.core.broke
    <3>1. d \in Seats
      BY <2>2, <2>4
    <3>2. d \in Starts
      BY <3>1 DEF Starts, Seats
    <3>. QED BY <1>2, <2>1, <3>2 DEF P
  <2>9. /\ d \in Seats \ P /\ o.core.dealt = Seats \ P
        /\ o.core.deck[1] \in o.core.dealt \cup o.core.broke
        /\ d = FirstAfter(o.core.deck[1] - 1, o.core.dealt)
    <3>1. d \in Seats \ P /\ T = Seats \ P
      BY <2>4 DEF T
    <3>. QED BY <1>2, <2>1, <2>3, <2>5, <2>6, <3>1
  <2>10. Agreed(o.core, w, P, d)
    BY <1>4, <2>1, <2>5, <2>7, <2>8, <2>9 DEF Agreed
  <2>. QED BY <1>4, <2>8, <2>10 DEF o, w
<1>10. CASE ~Deals(u.core)
  <2>1. o = u
    BY <1>2, <1>3, <1>10, StartParts
  <2>2. ~Running(o.core) /\ P \subseteq o.core.out \cup o.core.broke
        /\ o.core.button = FirstAfter(b, Seats)
    BY <1>2, <1>5, <1>6, <2>1
  <2> HIDE DEF P
  <2>3. ASSUME NEW q \in Peers
        PROVE  w[q].out = P /\ (q \notin P => w[q].button = b) /\ ~w[q].running
    <3>1. q \notin P => q \notin O
      BY <1>4
    <3>2. "hand_dealt" \notin o.told /\ "seat_update" \in o.told
      BY <1>2, <2>1
    <3>. QED BY <1>2, <1>7, <1>8, <2>1, <3>1, <3>2, NextViewParts
  <2>4. Agreed(o.core, w, P, b)
    BY <1>4, <1>6, <2>2, <2>3 DEF Agreed
  <2>. QED BY <1>4, <1>6, <2>4 DEF o, w
<1>. QED BY <1>9, <1>10

-----------------------------------------------------------------------------
(* Calm logs, entry by entry *)

LEMMA AfterNone ==
  CoreAfter(<<>>) = NewLocalTable /\ \A p : ViewAfter(p, <<>>) = NewView
<1>1. ASSUME NEW p
      PROVE  Replay(p, <<>>, FALSE).core = NewLocalTable /\ Replay(p, <<>>, FALSE).view = NewView
  <2>1. Replay(p, <<>>, FALSE) = [NewNode EXCEPT !.dealing = FALSE]
    <3> DEFINE d == FALSE
    <3> HIDE DEF d
    <3>1. Replay(p, <<>>, d) = [NewNode EXCEPT !.dealing = d]
      BY ReplayNone
    <3>. QED BY <3>1 DEF d
  <2>2. NewNode = [core |-> NewLocalTable, log |-> <<>>, view |-> NewView, dealing |-> FALSE]
    BY DEF NewNode
  <2> HIDE DEF NewLocalTable, NewView
  <2>. QED BY <2>1, <2>2
<1>. QED BY <1>1 DEF CoreAfter, ViewAfter

LEMMA AfterMore ==
  ASSUME NEW S, NEW l \in Seq(S), NEW e \in S
  PROVE  LET o == RunOnCore(CoreAfter(l), e) IN
         /\ CoreAfter(Append(l, e)) = o.core
         /\ Views(Append(l, e)) = NextViews(Views(l), e, o)
<1> DEFINE o == RunOnCore(CoreAfter(l), e)
           k == Append(l, e)
<1>1. ASSUME NEW p
      PROVE  /\ Replay(p, k, FALSE).core = o.core
             /\ ViewAfter(p, k) = NextView(ViewAfter(p, l), p, e, o)
  <2> DEFINE d == FALSE
             n == Replay(p, l, d)
             m == Replay(p, k, d)
  <2> HIDE DEF d
  <2>1. m = Committed(n, p, e, RunOnCore(n.core, e))
    BY ReplayAppend
  <2>2. n.core = CoreAfter(l)
    BY ReplayCore DEF CoreAfter
  <2>3. m.core = RunOnCore(n.core, e).core
        /\ m.view = NextView(n.view, p, e, RunOnCore(n.core, e))
    <3> HIDE DEF n, m
    <3>. QED BY <2>1, CommittedParts
  <2>4. m.core = o.core /\ m.view = NextView(n.view, p, e, o)
    BY <2>2, <2>3
  <2>. QED BY <2>4 DEF d, ViewAfter
<1>2. CoreAfter(k) = o.core
  BY <1>1 DEF CoreAfter
<1>3. Views(k) = NextViews(Views(l), e, o)
  <2> HIDE DEF o, k
  <2>. QED BY <1>1 DEF Views, NextViews
<1>. QED BY <1>2, <1>3

\* After each of its entries the views agree, and the next entry was numbered by who
\* coordinated then.
CalmlyAt(l, i) ==
  LET k == SubSeq(l, 1, i) IN Common(k) /\ (i < Len(l) => Leads(l[i + 1].by, k))

Calmly(l) == \A i \in 0 .. Len(l) : CalmlyAt(l, i)

LEMMA SubSeqOf ==
  ASSUME NEW S, NEW l \in Seq(S), NEW n \in 0 .. Len(l)
  PROVE  LET k == SubSeq(l, 1, n) IN
         /\ k \in Seq(S) /\ Len(k) = n
         /\ \A i \in 1 .. n : k[i] = l[i]
         /\ \A i \in 0 .. n : SubSeq(k, 1, i) = SubSeq(l, 1, i)
<1> DEFINE k == SubSeq(l, 1, n)
<1>1. k \in Seq(S) /\ Len(k) = n /\ \A i \in 1 .. n : k[i] = l[i]
  OBVIOUS
<1>2. ASSUME NEW i \in 0 .. n PROVE SubSeq(k, 1, i) = SubSeq(l, 1, i)
  <2>1. SubSeq(l, 1, i) \in Seq(S) /\ Len(SubSeq(l, 1, i)) = i
        /\ \A j \in 1 .. i : SubSeq(l, 1, i)[j] = l[j]
    OBVIOUS
  <2> HIDE DEF k
  <2>2. SubSeq(k, 1, i) \in Seq(S) /\ Len(SubSeq(k, 1, i)) = i
        /\ \A j \in 1 .. i : SubSeq(k, 1, i)[j] = k[j]
    BY <1>1
  <2>3. \A j \in 1 .. i : SubSeq(k, 1, i)[j] = SubSeq(l, 1, i)[j]
    BY <1>1, <2>1, <2>2
  <2>. QED BY <2>1, <2>2, <2>3, SeqEqual
<1>. QED BY <1>1, <1>2

LEMMA WholeIsSubSeq ==
  ASSUME NEW S, NEW l \in Seq(S)
  PROVE  SubSeq(l, 1, Len(l)) = l /\ SubSeq(l, 1, 0) = <<>>
<1>1. Len(l) \in 0 .. Len(l) /\ 0 \in 0 .. Len(l)
  OBVIOUS
<1>2. SubSeq(l, 1, Len(l)) \in Seq(S) /\ Len(SubSeq(l, 1, Len(l))) = Len(l)
      /\ \A i \in 1 .. Len(l) : SubSeq(l, 1, Len(l))[i] = l[i]
  BY <1>1, SubSeqOf
<1>3. SubSeq(l, 1, Len(l)) = l
  BY <1>2, SeqEqual
<1>4. SubSeq(l, 1, 0) = <<>>
  BY <1>1, SubSeqOf
<1>. QED BY <1>3, <1>4

LEMMA CommonNone == Common(<<>>)
<1>1. CoreAfter(<<>>) = NewLocalTable /\ \A p : ViewAfter(p, <<>>) = NewView
  BY AfterNone
<1>2. ~Running(NewLocalTable) /\ NewLocalTable.button = 0
  BY DEF NewLocalTable, Running
<1>3. NewView.out = {} /\ NewView.button = -1 /\ NewView.running = FALSE
  BY DEF NewView, Nobody
<1>4. FirstAfter(-1, Seats) = 0
  <2>1. 0 \in Seats /\ Seats \in SUBSET Seats
    BY NumSeatsAssumption DEF Seats
  <2>2. FirstAfter(0 - 1, Seats) = 0
    BY <2>1, FirstIsNext
  <2>. QED BY <2>2
<1>5. -1 \in Starts /\ {} \in SUBSET Seats
  BY NumSeatsAssumption DEF Starts, Seats
<1> HIDE DEF NewView, NewLocalTable
<1>6. Agreed(CoreAfter(<<>>), Views(<<>>), {}, -1)
  BY <1>1, <1>2, <1>3, <1>4, <1>5 DEF Agreed, Views
<1>. QED BY <1>5, <1>6 DEF Common

LEMMA CalmlyNone == Calmly(<<>>)
<1>1. \A i \in 0 .. Len(<<>>) : i = 0 /\ SubSeq(<<>>, 1, i) = <<>> /\ ~(i < Len(<<>>))
  OBVIOUS
<1>. QED BY <1>1, CommonNone DEF Calmly, CalmlyAt

LEMMA CalmlyEnd ==
  ASSUME NEW S, NEW l \in Seq(S), Calmly(l)
  PROVE  Common(l)
<1>1. Len(l) \in 0 .. Len(l) /\ SubSeq(l, 1, Len(l)) = l
  BY WholeIsSubSeq
<1>. QED BY <1>1 DEF Calmly, CalmlyAt

\* A beginning of a calm log is calm.
LEMMA CalmlyPrefix ==
  ASSUME NEW S, NEW l \in Seq(S), Calmly(l), NEW n \in 0 .. Len(l)
  PROVE  Calmly(SubSeq(l, 1, n))
<1> DEFINE k == SubSeq(l, 1, n)
<1>1. /\ k \in Seq(S) /\ Len(k) = n /\ Len(l) \in Nat
      /\ \A i \in 1 .. n : k[i] = l[i]
      /\ \A i \in 0 .. n : SubSeq(k, 1, i) = SubSeq(l, 1, i)
  BY SubSeqOf
<1> HIDE DEF k
<1>2. ASSUME NEW i \in 0 .. n PROVE CalmlyAt(k, i)
  <2>1. CalmlyAt(l, i)
    <3>1. i \in 0 .. Len(l)
      BY <1>1
    <3>. QED BY <3>1 DEF Calmly
  <2>2. SubSeq(k, 1, i) = SubSeq(l, 1, i)
    BY <1>1
  <2>3. i < n => i < Len(l) /\ k[i + 1] = l[i + 1]
    <3>1. i < n => i < Len(l) /\ i + 1 \in 1 .. n
      BY <1>1
    <3>. QED BY <1>1, <3>1
  <2>. QED BY <1>1, <2>1, <2>2, <2>3 DEF CalmlyAt
<1>. QED BY <1>1, <1>2 DEF Calmly, k

\* One more entry of who coordinates leaves a calm log calm, if the views still agree.
LEMMA CalmlyMore ==
  ASSUME NEW S, NEW l \in Seq(S), Calmly(l), NEW e \in S, Leads(e.by, l),
         Common(Append(l, e))
  PROVE  Calmly(Append(l, e))
<1> DEFINE k == Append(l, e)
           len == Len(l)
<1>1. /\ k \in Seq(S) /\ len \in Nat /\ Len(k) = len + 1 /\ k[len + 1] = e
      /\ \A i \in 1 .. len : k[i] = l[i] /\ SubSeq(k, 1, i) = SubSeq(l, 1, i)
      /\ SubSeq(k, 1, len + 1) = k
  BY AppendParts
<1>2. SubSeq(k, 1, 0) = <<>> /\ SubSeq(l, 1, 0) = <<>> /\ SubSeq(l, 1, len) = l
  BY <1>1, WholeIsSubSeq
<1> HIDE DEF k
<1>3. \A i \in 0 .. len : CalmlyAt(l, i)
  BY DEF Calmly
<1> HIDE DEF len
<1>4. \A i \in 0 .. len : SubSeq(k, 1, i) = SubSeq(l, 1, i)
  <2>1. \A i \in 0 .. len : i = 0 \/ i \in 1 .. len
    BY <1>1
  <2>. QED BY <1>1, <1>2, <2>1
<1>5. ASSUME NEW i \in 0 .. len + 1 PROVE CalmlyAt(k, i)
  <2>1. i < len \/ i = len \/ i = len + 1
    BY <1>1
  <2>2. CASE i < len
    <3>1. i \in 0 .. len /\ i + 1 \in 1 .. len /\ i < len + 1
      BY <1>1, <2>2
    <3>2. k[i + 1] = l[i + 1] /\ SubSeq(k, 1, i) = SubSeq(l, 1, i)
      BY <1>1, <1>4, <3>1
    <3>3. CalmlyAt(l, i) /\ i < Len(l)
      BY <1>3, <2>2, <3>1 DEF len
    <3>. QED BY <3>2, <3>3 DEF CalmlyAt
  <2>3. CASE i = len
    <3>1. SubSeq(k, 1, i) = l /\ k[i + 1] = e
      BY <1>1, <1>2, <1>4, <2>3
    <3>2. Common(l)
      BY CalmlyEnd
    <3>. QED BY <3>1, <3>2 DEF CalmlyAt, k
  <2>4. CASE i = len + 1
    <3>1. SubSeq(k, 1, i) = k /\ ~(i < Len(k))
      BY <1>1, <2>4
    <3>. QED BY <3>1 DEF CalmlyAt, k
  <2>. QED BY <2>1, <2>2, <2>3, <2>4
<1>. QED BY <1>1, <1>5 DEF Calmly, k

LEMMA LeadsBy ==
  ASSUME NEW l, NEW O, NEW b, Agreed(CoreAfter(l), Views(l), O, b), NEW p \in Peers
  PROVE  Leads(p, l) <=> O # Seats /\ p = LeaderBy(CoreAfter(l), O, b)
<1>1. Views(l)[p] = ViewAfter(p, l)
  BY DEF Views
<1>. QED BY <1>1, LeadsIs DEF Leads

\* An action in a hand, or the end of a seat's time.
LEMMA PlayGoesOn ==
  ASSUME NEW S, NEW l \in Seq(S), Calmly(l), CoreOK(CoreAfter(l)),
         NEW e \in S, e.by \in Peers, Leads(e.by, l),
         \/ e.kind = "act" /\ (Running(CoreAfter(l)) \/ CoreAfter(l).seed = NoSeed)
         \/ e.kind = "timeout" /\ Running(CoreAfter(l))
  PROVE  LET k == Append(l, e) IN
         /\ Calmly(k) /\ (Running(CoreAfter(k)) => Running(CoreAfter(l)))
         /\ (Running(CoreAfter(k)) <=> Running(CoreAfter(l))) => Leads(e.by, k)
<1> DEFINE k == Append(l, e)
           c == CoreAfter(l)
           d == CoreAfter(k)
           o == RunOnCore(c, e)
<1>1. Common(l)
  BY CalmlyEnd
<1>2. PICK O \in SUBSET Seats, b \in Starts : Agreed(c, Views(l), O, b)
  BY <1>1 DEF Common
<1>3. c.seed = NoSeed
  BY <1>2 DEF Agreed
<1>4. d = o.core /\ Views(k) = NextViews(Views(l), e, o)
  BY AfterMore
<1>5. Plays(c, o.core, o.told)
  <2> HIDE DEF c
  <2>. QED BY <1>3, PlaysOf DEF c
<1> DEFINE by == e.by
<1>6. by \in Peers /\ e.kind # "void" /\ Leads(by, l)
  OBVIOUS
<1> HIDE DEF k, c, o, d, by
<1>7. Agreed(o.core, NextViews(Views(l), e, o), O, b) /\ (Running(o.core) => Running(c))
  BY <1>2, <1>5, <1>6, PlaysAgreed
<1>8. Agreed(d, Views(k), O, b) /\ (Running(d) => Running(c))
  BY <1>4, <1>7
<1>9. ASSUME Running(d) <=> Running(c) PROVE Leads(by, k)
  <2>1. O # Seats /\ by = LeaderBy(c, O, b)
    BY <1>2, <1>6, LeadsBy DEF c
  <2>2. LeaderBy(c, O, b) = LeaderBy(d, O, b)
    BY <1>9 DEF LeaderBy
  <2>. QED BY <1>6, <1>8, <2>1, <2>2, LeadsBy DEF d
<1>10. Common(k)
  BY <1>8 DEF Common, d
<1>11. Calmly(k)
  BY <1>6, <1>10, CalmlyMore DEF k, by
<1>. QED BY <1>8, <1>9, <1>11 DEF k, c, d, by

\* The seed of a complete round, and the sit_in of who brought it.
LEMMA DealGoesOn ==
  ASSUME NEW S, NEW l \in Seq(S), Calmly(l), CoreOK(CoreAfter(l)), ~Running(CoreAfter(l)),
         NEW p \in Peers, Leads(p, l), NEW e \in S, NEW f \in S,
         e.kind = "seed", e.by = p, e.seq \in Nat,
         f.kind = "sit_in", f.by = p, f.actor = p
  PROVE  Calmly(Append(Append(l, e), f))
<1> DEFINE k == Append(l, e)
           m == Append(k, f)
           c == CoreAfter(l)
           o == RunOnCore(c, e)
           r == RunOnCore(CoreAfter(k), f)
<1>1. Common(l)
  BY CalmlyEnd
<1>2. PICK O \in SUBSET Seats, b \in Starts : Agreed(c, Views(l), O, b)
  BY <1>1 DEF Common
<1>3. O # Seats /\ p = LeaderBy(c, O, b)
  BY <1>2, LeadsBy
<1>4. k \in Seq(S) /\ CoreAfter(k) = o.core /\ Views(k) = NextViews(Views(l), e, o)
  BY AfterMore
<1>5. CoreAfter(m) = r.core /\ Views(m) = NextViews(Views(k), f, r)
  <2> HIDE DEF k
  <2>. QED BY <1>4, AfterMore
<1>6. <<e.by, e.seq>> \in Seq(Nat)
  <2>1. p \in Nat
    BY NumSeatsAssumption DEF Peers, Seats
  <2>. QED BY <2>1
<1>7. /\ Agreed(o.core, NextViews(Views(l), e, o), O, b) /\ ~Running(o.core)
      /\ CoreOK(o.core) /\ o.core.seed = <<e.by, e.seq>>
  <2> HIDE DEF c
  <2>. QED BY <1>2, <1>6, SeedAgreed DEF c
<1> DEFINE d == CoreAfter(k)
<1>8. /\ Agreed(d, Views(k), O, b) /\ ~Running(d) /\ CoreOK(d)
      /\ d.seed # NoSeed /\ d.seed[1] = p
  <2>1. <<e.by, e.seq>> # NoSeed /\ <<e.by, e.seq>>[1] = p
    BY DEF NoSeed
  <2> HIDE DEF o
  <2>. QED BY <1>4, <1>7, <2>1
<1>9. LeaderBy(d, O, b) = p
  <2> HIDE DEF c, d
  <2>1. ~Running(c)
    BY DEF c
  <2>. QED BY <1>3, <1>8, <2>1 DEF LeaderBy
<1> HIDE DEF k
<1>10. Leads(p, k) /\ Common(k)
  BY <1>2, <1>3, <1>8, <1>9, LeadsBy DEF Common
<1>11. Calmly(k)
  BY <1>8, <1>10, CalmlyMore DEF k
<1>12. \E P \in SUBSET Seats, j \in Starts : Agreed(r.core, NextViews(Views(k), f, r), P, j)
  <2> HIDE DEF d
  <2>1. r = RunOnCore(d, f)
    BY DEF d
  <2> HIDE DEF r
  <2>. QED BY <1>3, <1>8, <1>9, <2>1, DealAgreed
<1>13. Common(m)
  <2> HIDE DEF r, m
  <2>. QED BY <1>5, <1>12 DEF Common
<1>14. Calmly(m)
  BY <1>4, <1>10, <1>11, <1>13, CalmlyMore
<1>. QED BY <1>14 DEF m, k

\* The actions that the coordinator numbers in one beat.
LEMMA BatchGoesOn ==
  ASSUME NEW S, \A e \in S : WellMade(e), NEW l \in Seq(S), NEW n \in 0 .. Len(l),
         Calmly(SubSeq(l, 1, n)), NEW p \in Peers, Leads(p, SubSeq(l, 1, n)),
         \A j \in n + 1 .. Len(l) :
           /\ l[j].by = p /\ l[j].kind = "act"
           /\ j > 1 => Running(CoreAfter(SubSeq(l, 1, j - 1)))
  PROVE  /\ Calmly(l) /\ (Running(CoreAfter(l)) => Running(CoreAfter(SubSeq(l, 1, n))))
         /\ Running(CoreAfter(l)) \/ ~Running(CoreAfter(SubSeq(l, 1, n))) => Leads(p, l)
<1> DEFINE At(i) == SubSeq(l, 1, i)
           Runs(i) == Running(CoreAfter(At(i)))
           Fit(i) == /\ Calmly(At(i)) /\ (Runs(i) => Runs(n))
                     /\ Runs(i) \/ ~Runs(n) => Leads(p, At(i))
           T == {i \in Nat : n <= i /\ i <= Len(l) => Fit(i)}
<1>1. Len(l) \in Nat /\ n \in Nat /\ n <= Len(l)
  OBVIOUS
<1>2. Fit(n)
  OBVIOUS
<1>3. ASSUME NEW i \in Nat, n <= i, i < Len(l), Fit(i) PROVE Fit(i + 1)
  <2> DEFINE k == At(i)
             e == l[i + 1]
             c == CoreAfter(k)
  <2>1. i \in 0 .. Len(l) /\ i + 1 \in 1 .. Len(l) /\ i + 1 \in n + 1 .. Len(l)
        /\ i + 1 - 1 = i /\ (i + 1 > 1 \/ i = 0) /\ i + 1 \in 0 .. Len(l)
    BY <1>1, <1>3
  <2>2. k \in Seq(S) /\ e \in S /\ Len(k) = i
    BY <2>1, SubSeqOf
  <2>3. At(i + 1) = Append(k, e)
    <3> DEFINE x == Append(k, e)
               y == At(i + 1)
    <3>1. y \in Seq(S) /\ Len(y) = i + 1 /\ \A j \in 1 .. i + 1 : y[j] = l[j]
      BY <2>1, SubSeqOf
    <3>2. \A j \in 1 .. i : k[j] = l[j]
      BY <2>1, SubSeqOf
    <3> HIDE DEF k, e, y
    <3>3. x \in Seq(S) /\ Len(x) = i + 1 /\ x[i + 1] = e /\ \A j \in 1 .. i : x[j] = k[j]
      BY <2>2, AppendParts
    <3> HIDE DEF x
    <3>4. \A j \in 1 .. i + 1 : j \in 1 .. i \/ j = i + 1
      BY <2>1
    <3>5. \A j \in 1 .. i + 1 : x[j] = y[j]
      BY <3>1, <3>2, <3>3, <3>4 DEF e
    <3>6. x = y
      BY <3>1, <3>3, <3>5, SeqEqual
    <3>. QED BY <3>6 DEF x, y
  <2>4. CoreOK(c)
    <3> DEFINE d == FALSE
    <3> HIDE DEF d, k
    <3>1. CoreOK(Replay(0, k, d).core)
      BY <2>2, ReplayType
    <3>. QED BY <3>1 DEF d, CoreAfter
  <2>5. e.by = p /\ e.kind = "act"
    BY <2>1
  <2>6. Running(c) \/ c.seed = NoSeed
    <3>1. CASE i + 1 > 1
      <4>1. Running(CoreAfter(SubSeq(l, 1, i + 1 - 1)))
        BY <2>1, <3>1
      <4>. QED BY <2>1, <4>1
    <3>2. CASE i = 0
      <4>1. k = <<>>
        BY <3>2, WholeIsSubSeq
      <4>2. NewLocalTable.seed = NoSeed
        BY DEF NewLocalTable
      <4> HIDE DEF k
      <4>3. c = NewLocalTable
        BY <4>1, AfterNone
      <4>. QED BY <4>2, <4>3
    <3>. QED BY <2>1, <3>1, <3>2
  <2>7. Calmly(k) /\ (Running(c) => Runs(n)) /\ (Running(c) \/ ~Runs(n) => Leads(p, k))
    BY <1>3
  <2>8. Leads(p, k)
    <3>1. CASE Running(c)
      BY <2>7, <3>1
    <3>2. CASE ~Running(c)
      <4>1. i = 0
        <5>1. Running(c) \/ ~(i + 1 > 1)
          <6>1. i + 1 > 1 => Running(CoreAfter(SubSeq(l, 1, i + 1 - 1)))
            BY <2>1
          <6>. QED BY <2>1, <6>1
        <5>. QED BY <2>1, <3>2, <5>1
      <4>2. i = n
        BY <1>1, <1>3, <4>1
      <4>. QED BY <4>2
    <3>. QED BY <3>1, <3>2
  <2> HIDE DEF k, e, c
  <2>9. LET m == Append(k, e) IN
        /\ Calmly(m) /\ (Running(CoreAfter(m)) => Running(c))
        /\ (Running(CoreAfter(m)) <=> Running(c)) => Leads(e.by, m)
    BY <2>2, <2>4, <2>5, <2>6, <2>7, <2>8, PlayGoesOn DEF c
  <2>10. Calmly(At(i + 1)) /\ (Runs(i + 1) => Running(c))
         /\ ((Runs(i + 1) <=> Running(c)) => Leads(p, At(i + 1)))
    BY <2>3, <2>5, <2>9
  <2>. QED BY <2>7, <2>10
<1> HIDE DEF Fit
<1>4. 0 \in T
  BY <1>1, <1>2
<1>5. ASSUME NEW i \in T PROVE i + 1 \in T
  <2>1. i \in Nat /\ i + 1 \in Nat
    OBVIOUS
  <2>2. ASSUME n <= i + 1, i + 1 <= Len(l) PROVE Fit(i + 1)
    <3>1. CASE i + 1 = n
      BY <1>2, <3>1
    <3>2. CASE i + 1 # n
      <4>1. n <= i /\ i < Len(l) /\ i <= Len(l)
        BY <1>1, <2>1, <2>2, <3>2
      <4>. QED BY <1>3, <2>1, <4>1
    <3>. QED BY <3>1, <3>2
  <2>. QED BY <2>1, <2>2
<1>6. T = Nat
  <2> HIDE DEF T
  <2>1. T \in SUBSET Nat
    BY DEF T
  <2>. QED BY <1>4, <1>5, <2>1, NatInduct
<1>7. Fit(Len(l))
  BY <1>1, <1>6
<1>8. At(Len(l)) = l
  BY WholeIsSubSeq
<1>. QED BY <1>7, <1>8 DEF Fit

-----------------------------------------------------------------------------
(* The calm mesh *)

\* Who lost nobody sees everybody.
AllSeen == losses = 0 => up = Peers /\ \A p \in Peers : Alive(p) = Peers

\* A place in the logs is one entry's, the peer that numbered it has it, and all logs are calm.
OneLine ==
  /\ \A e, f \in sent : e.seq = f.seq => e = f
  /\ \A e \in sent : e.seq <= Len(node[e.by].log)
  /\ \A p \in Peers : Calmly(node[p].log)

\* A complete round is the coordinator's, between hands, with two players at least.
RoundsOK ==
  \A p \in Peers : round[p] = "complete" =>
    LET l == node[p].log IN
    Leads(p, l) /\ ~Running(CoreAfter(l)) /\ Cardinality(Seats \ ViewAfter(p, l).out) >= 2

InQueue(q, id)   == \E i \in DOMAIN queue[q] : queue[q][i].id = id
InLog(q, id)     == \E i \in DOMAIN node[q].log : node[q].log[i].id = id
IsPending(q, id) == \E w \in pending[q] : w.req.id = id

\* Who acknowledged a request has it in its queue or in its log, and a request that was not
\* given up is somewhere.
RequestsKept ==
  /\ \A q \in Peers : \A id \in processed[q] : InQueue(q, id) \/ InLog(q, id)
  /\ \A id \in 1 .. actions \ undelivered :
       \E q \in Peers : IsPending(q, id) \/ InQueue(q, id) \/ InLog(q, id)

CalmInv == resyncing = {} /\ OneLine /\ RoundsOK /\ RequestsKept

LEMMA FineParts ==
  ASSUME NEW n, NEW p, Fine(n, p, {})
  PROVE  /\ Faithful(n, p) /\ n.core = CoreAfter(n.log) /\ n.view = ViewAfter(p, n.log)
         /\ CoreOK(CoreAfter(n.log)) /\ IsLog(n.log)
         /\ \A i \in DOMAIN n.log : n.log[i].hash = StateHash(CoreAfter(SubSeq(n.log, 1, i)))
<1>1. Faithful(n, p) /\ CoreOK(n.core) /\ IsLog(n.log)
  BY DEF Fine
<1>2. PICK S : n.log \in Seq(S)
  BY <1>1 DEF IsLog
<1>3. ASSUME NEW l \in Seq(S) PROVE Replay(p, l, FALSE).core = CoreAfter(l)
  <2> DEFINE d == FALSE
  <2> HIDE DEF d
  <2>1. Replay(p, l, d).core = Replay(0, l, FALSE).core
    BY ReplayCore
  <2>. QED BY <2>1 DEF d, CoreAfter
<1>4. n.core = CoreAfter(n.log) /\ n.view = ViewAfter(p, n.log)
  BY <1>1, <1>2, <1>3 DEF Faithful, ViewAfter
<1>5. ASSUME NEW i \in DOMAIN n.log
      PROVE  n.log[i].hash = StateHash(CoreAfter(SubSeq(n.log, 1, i)))
  <2>1. i \in 0 .. Len(n.log)
    BY <1>2
  <2>2. SubSeq(n.log, 1, i) \in Seq(S)
    BY <1>2, <2>1, SubSeqOf
  <2>. QED BY <1>1, <1>3, <2>2 DEF Faithful
<1>. QED BY <1>1, <1>4, <1>5

LEMMA NodeParts ==
  ASSUME MeshInv, resyncing = {}, NEW p \in Peers
  PROVE  /\ Fine(node[p], p, {}) /\ LogFrom(node[p].log, sent) /\ node[p].log \in Seq(sent)
         /\ Len(node[p].log) \in Nat /\ DOMAIN node[p].log = 1 .. Len(node[p].log)
<1>1. Fine(node[p], p, {}) /\ LogFrom(node[p].log, sent)
  BY DEF MeshInv, LogsOK
<1>. QED BY <1>1 DEF LogFrom

\* Who coordinates by its log knows whether a hand runs.
LEMMA LeaderRuns ==
  ASSUME NEW l, Common(l), NEW p \in Peers, Leads(p, l)
  PROVE  ViewAfter(p, l).running <=> Running(CoreAfter(l))
<1> DEFINE c == CoreAfter(l)
           v == ViewAfter(p, l)
<1>1. PICK O \in SUBSET Seats, b \in Starts : Agreed(c, Views(l), O, b)
  BY DEF Common
<1>2. O # Seats /\ p = LeaderBy(c, O, b)
  BY <1>1, LeadsBy
<1>3. Views(l)[p] = v
  BY DEF Views
<1> HIDE DEF c, v
<1>4. p \notin O
  BY <1>1, <1>2, LeaderType
<1>5. v.running <=> Running(c) /\ p \notin O
  BY <1>1, <1>3 DEF Agreed
<1>. QED BY <1>4, <1>5 DEF c, v

\* Who takes itself for the coordinator coordinates by its log, or is the host, and nobody is
\* fit to.
LEMMA CoordinatorLeads ==
  ASSUME MeshInv, AllSeen, losses = 0, resyncing = {}, OneLine, NEW p \in Peers,
         Coordinator(p) = p
  PROVE  LET l == node[p].log
             v == ViewAfter(p, l)
         IN  \/ Leads(p, l)
             \/ v.out = Seats /\ ~v.running /\ ~Running(CoreAfter(l))
<1> DEFINE l == node[p].log
           c == CoreAfter(l)
           v == ViewAfter(p, l)
<1>1. node[p].view = v /\ l \in Seq(sent)
  BY NodeParts, FineParts
<1>2. Common(l)
  <2>1. Calmly(l)
    BY DEF OneLine
  <2>. QED BY <1>1, <2>1, CalmlyEnd
<1>3. PICK O \in SUBSET Seats, b \in Starts : Agreed(c, Views(l), O, b)
  BY <1>2 DEF Common
<1>4. Views(l)[p] = v
  BY DEF Views
<1>5. Alive(p) = Peers
  BY DEF AllSeen
<1> DEFINE a == IF v.running THEN v.button - 1 ELSE v.button
           seat == CoordinatorSeat(v, Peers)
<1>6. CoordinatorSeat(node[p].view, Alive(p)) = seat
  BY <1>1, <1>5
<1>7. v.out = O /\ (v.running <=> Running(c) /\ p \notin O)
  <2> HIDE DEF v, c
  <2>. QED BY <1>3, <1>4 DEF Agreed
<1>8. CASE O = Seats
  <2>1. ~Running(c)
    <3> HIDE DEF c
    <3>. QED BY <1>3, <1>8, LeaderType
  <2> HIDE DEF v, c
  <2>2. v.out = Seats /\ ~v.running
    BY <1>7, <1>8, <2>1
  <2>. QED BY <2>1, <2>2 DEF v, c
<1>9. CASE O # Seats
  <2>1. seat = FirstAfter(a, Seats \ O)
    BY <1>7 DEF CoordinatorSeat, EligibleIn, Peers
  <2>2. Seats \ O \in SUBSET Seats /\ Seats \ O # {}
    BY <1>9
  <2> HIDE DEF a, seat
  <2>3. seat \in Seats
    BY <2>1, <2>2, FirstAfterIn
  <2>4. seat # Nobody
    BY <2>3, NumSeatsAssumption DEF Seats, Nobody
  <2>5. Coordinator(p) = seat
    BY <1>6, <2>4 DEF Coordinator
  <2>. QED BY <2>5 DEF seat, Leads
<1>. QED BY <1>8, <1>9

\* Who coordinates by its log has every entry.
LEMMA LeaderHasAll ==
  ASSUME MeshInv, resyncing = {}, OneLine, NEW p \in Peers, Leads(p, node[p].log),
         NEW e \in sent
  PROVE  e.seq <= Len(node[p].log)
<1> DEFINE l == node[p].log
           q == e.by
           k == node[q].log
           len == Len(l)
<1>0. q \in Peers /\ e.seq \in Nat /\ e.seq <= Len(k)
  BY DEF MeshInv, LogsOK, WellMade, OneLine
<1>1. LogFrom(l, sent) /\ LogFrom(k, sent) /\ len \in Nat /\ Len(k) \in Nat
      /\ l \in Seq(sent) /\ k \in Seq(sent)
  BY <1>0, NodeParts
<1>2. SUFFICES ASSUME len < e.seq PROVE FALSE
  BY <1>0, <1>1
<1> DEFINE f == k[len + 1]
<1>3. len + 1 \in 1 .. Len(k) /\ len \in 0 .. Len(k) /\ len < Len(k)
  <2> DEFINE top == Len(k)
             seq == e.seq
  <2>1. len \in Nat /\ top \in Nat /\ seq \in Nat /\ len < seq /\ seq <= top
    BY <1>0, <1>1, <1>2
  <2> HIDE DEF len, top, seq
  <2>2. len + 1 \in 1 .. top /\ len \in 0 .. top /\ len < top
    BY <2>1
  <2>. QED BY <2>2 DEF top
<1>4. f \in sent /\ f.seq = len + 1
  BY <1>1, <1>3 DEF LogFrom
<1>5. SubSeq(k, 1, len) = l
  <2> DEFINE x == SubSeq(k, 1, len)
  <2>1. x \in Seq(sent) /\ Len(x) = len /\ \A i \in 1 .. len : x[i] = k[i]
    BY <1>1, <1>3, SubSeqOf
  <2>2. ASSUME NEW i \in 1 .. len PROVE k[i] = l[i]
    <3>1. i \in 1 .. Len(k) /\ i \in 1 .. Len(l)
      BY <1>3
    <3>2. k[i] \in sent /\ l[i] \in sent /\ k[i].seq = i /\ l[i].seq = i
      BY <1>1, <3>1 DEF LogFrom
    <3>. QED BY <3>2 DEF OneLine
  <2> HIDE DEF x
  <2>3. x = l
    BY <1>1, <2>1, <2>2, SeqEqual
  <2>. QED BY <2>3 DEF x
<1>6. Calmly(l) /\ Calmly(k)
  BY <1>0 DEF OneLine
<1>7. Leads(f.by, l)
  <2>1. CalmlyAt(k, len)
    BY <1>3, <1>6 DEF Calmly
  <2>. QED BY <1>3, <1>5, <2>1 DEF CalmlyAt
<1>8. f.by = p
  <2>1. Common(l)
    BY <1>1, <1>6, CalmlyEnd
  <2>2. f.by \in Peers
    BY <1>4 DEF MeshInv, LogsOK, WellMade
  <2>. QED BY <1>7, <2>1, <2>2, OneLeader
<1>9. f.seq <= len
  BY <1>4, <1>8 DEF OneLine
<1>. QED BY <1>1, <1>4, <1>9

\* What the coordinator broadcasts goes on where all the logs end.
LEMMA BroadcastOneLine ==
  ASSUME MeshInv, resyncing = {}, OneLine, NEW p \in Peers, Leads(p, node[p].log),
         NEW m, IsLog(m.log), Extends(m.log, node[p].log, p), Calmly(m.log),
         sent' = sent \cup NewEntries(m, node[p]), node' = [node EXCEPT ![p] = m]
  PROVE  OneLine'
<1> DEFINE l == node[p].log
           len == Len(l)
           top == Len(m.log)
           new == NewEntries(m, node[p])
<1>1. len \in Nat /\ top \in Nat /\ len <= top
  BY NodeParts, LogParts DEF Extends
<1>2. ASSUME NEW e \in sent PROVE e.by \in Peers /\ e.seq \in Nat /\ e.seq <= len
  BY LeaderHasAll DEF MeshInv, LogsOK, WellMade
<1>3. ASSUME NEW e \in new
      PROVE  e.by = p /\ e.seq \in len + 1 .. top /\ e = m.log[e.seq]
  <2>1. PICK i \in len + 1 .. top : e = m.log[i]
    BY DEF NewEntries
  <2>2. Own(e, i, p)
    BY <2>1 DEF Extends
  <2>. QED BY <2>1, <2>2 DEF Own
<1>4. ASSUME NEW q \in Peers PROVE node'[q] = IF q = p THEN m ELSE node[q]
  BY DEF MeshInv, LogsOK
<1>5. sent' = sent \cup new
  OBVIOUS
<1> HIDE DEF new, len, top
<1>6. \A e, f \in sent' : e.seq = f.seq => e = f
  <2>1. \A e, f \in sent : e.seq = f.seq => e = f
    BY DEF OneLine
  <2>2. \A e \in sent, f \in new : e.seq # f.seq
    BY <1>1, <1>2, <1>3
  <2>3. \A e, f \in new : e.seq = f.seq => e = f
    BY <1>3
  <2>. QED BY <1>5, <2>1, <2>2, <2>3
<1>7. ASSUME NEW e \in sent' PROVE e.seq <= Len(node'[e.by].log)
  <2>1. CASE e \in new
    <3>1. node'[e.by] = m /\ e.seq <= top
      BY <1>1, <1>3, <1>4, <2>1
    <3>. QED BY <3>1 DEF top
  <2>2. CASE e \in sent
    <3>1. CASE e.by = p
      <4>1. node'[e.by] = m /\ e.seq <= top
        BY <1>1, <1>2, <1>4, <2>2, <3>1
      <4>. QED BY <4>1 DEF top
    <3>2. CASE e.by # p
      <4>1. node'[e.by] = node[e.by]
        BY <1>2, <1>4, <2>2, <3>2
      <4>. QED BY <2>2, <4>1 DEF OneLine
    <3>. QED BY <3>1, <3>2
  <2>. QED BY <1>5, <2>1, <2>2
<1>8. \A q \in Peers : Calmly(node'[q].log)
  <2>1. \A q \in Peers : Calmly(node[q].log)
    BY DEF OneLine
  <2>. QED BY <1>4, <2>1
<1>. QED BY <1>6, <1>7, <1>8 DEF OneLine

LEMMA SeedReadyCalm ==
  ASSUME MeshInv, CalmInv, NEW p \in Peers, SeedReady(p)
  PROVE  OneLine' /\ RoundsOK' /\ Extends(node'[p].log, node[p].log, p)
<1> DEFINE n == node[p]
           d == [n EXCEPT !.dealing = TRUE]
           e == Numbered(d, p, "seed", p, NoId)
           s == Emit(d, p, "seed", p, NoId)
           f == Numbered(s, p, "sit_in", p, NoId)
           m == Emit(s, p, "sit_in", p, NoId)
           l == n.log
<1>1. /\ Fine(n, p, {}) /\ l \in Seq(sent) /\ IsLog(l) /\ Len(l) \in Nat /\ CoreOK(CoreAfter(l))
      /\ resyncing = {}
  BY NodeParts, FineParts DEF CalmInv
<1>2. OneLine /\ Calmly(l)
  BY DEF CalmInv, OneLine
<1>3. round[p] = "complete" /\ Leads(p, l) /\ ~Running(CoreAfter(l))
  BY DEF SeedReady, CalmInv, RoundsOK
<1>4. d.log = l
  <2> DEFINE t == TRUE
  <2> HIDE DEF t
  <2>1. LET k == [n EXCEPT !.dealing = t] IN k.log = n.log
    <3>1. Shaped(n)
      BY <1>1 DEF Fine
    <3>. QED BY <3>1, DealingPart
  <2>. QED BY <2>1 DEF t
<1>5. Fine(m, p, {}) /\ Extends(m.log, l, p)
  BY <1>1, SeedGrows
<1>6. s.log = Append(l, e) /\ m.log = Append(s.log, f)
  <2> HIDE DEF d
  <2>1. s = Committed(d, p, e, RunOnCore(d.core, e))
    BY EmitIsCommitted
  <2> HIDE DEF s
  <2>2. m = Committed(s, p, f, RunOnCore(s.core, f))
    BY EmitIsCommitted
  <2> HIDE DEF e, f, m
  <2>3. s.log = Append(d.log, e)
    BY ONLY <2>1, CommittedParts
  <2>4. m.log = Append(s.log, f)
    BY ONLY <2>2, CommittedParts
  <2> HIDE DEF l
  <2>. QED BY <1>4, <2>3, <2>4
<1>7. /\ e.kind = "seed" /\ e.by = p /\ e.seq \in Nat
      /\ f.kind = "sit_in" /\ f.by = p /\ f.actor = p
  <2>1. NextSeq(d) \in Nat
    BY <1>1, <1>4 DEF NextSeq
  <2> DEFINE x == NextSeq(d)
             y == NextSeq(s)
             g == StateHash(RunOnCore(d.core, Unstamped(d, p, "seed", p, NoId)).core)
             h == StateHash(RunOnCore(s.core, Unstamped(s, p, "sit_in", p, NoId)).core)
  <2> HIDE DEF d, s, x, y, g, h
  <2>2. e = [seq |-> x, kind |-> "seed", actor |-> p, by |-> p, id |-> NoId, hash |-> g]
    BY NumberedFields DEF x, g
  <2>3. f = [seq |-> y, kind |-> "sit_in", actor |-> p, by |-> p, id |-> NoId, hash |-> h]
    BY NumberedFields DEF y, h
  <2>4. x \in Nat
    BY <2>1 DEF x
  <2> HIDE DEF e, f
  <2>. QED BY <2>2, <2>3, <2>4
<1>8. Calmly(m.log)
  <2> DEFINE S == sent \cup {e, f}
  <2> HIDE DEF e, f, s, m, n
  <2>1. e \in S /\ f \in S /\ sent \subseteq S
    OBVIOUS
  <2>2. l \in Seq(S)
    <3> HIDE DEF S
    <3>1. l \in Seq(sent)
      BY <1>1
    <3>. QED BY <2>1, <3>1
  <2> HIDE DEF S, l
  <2>3. Calmly(Append(Append(l, e), f))
    BY <1>1, <1>2, <1>3, <1>7, <2>1, <2>2, DealGoesOn
  <2>. QED BY <1>6, <2>3
<1>9. /\ sent' = sent \cup NewEntries(m, node[p]) /\ node' = [node EXCEPT ![p] = m]
      /\ round' = [round EXCEPT ![p] = "none"]
  BY DEF SeedReady
<1> HIDE DEF m, s, e, f
<1>10. OneLine'
  BY <1>1, <1>2, <1>3, <1>5, <1>8, <1>9, BroadcastOneLine DEF Fine
<1>11. ASSUME NEW q \in Peers
       PROVE  /\ node'[q] = IF q = p THEN m ELSE node[q]
              /\ round'[q] = IF q = p THEN "none" ELSE round[q]
  BY <1>9 DEF MeshInv, LogsOK, NetOK
<1>12. RoundsOK'
  <2> SUFFICES ASSUME NEW q \in Peers, round'[q] = "complete"
               PROVE  LET k == node'[q].log IN
                      /\ Leads(q, k) /\ ~Running(CoreAfter(k))
                      /\ Cardinality(Seats \ ViewAfter(q, k).out) >= 2
    BY DEF RoundsOK
  <2>1. node'[q] = node[q] /\ round[q] = "complete"
    BY <1>11
  <2>. QED BY <2>1 DEF CalmInv, RoundsOK
<1>13. node'[p].log = m.log
  BY <1>11
<1>. QED BY <1>5, <1>10, <1>12, <1>13

\* What the coordinator does after its queue: it voids nothing, may end a seat's time in a
\* hand, and has its round between hands.
LEMMA DutiesCalm ==
  ASSUME NEW p \in Peers, NEW n, Fine(n, p, {}), Calmly(n.log), NEW timer, NEW revealed,
         Running(CoreAfter(n.log)) => Leads(p, n.log)
  PROVE  LET done == Duties(n, p, Peers, timer, revealed)
             l == done.node.log
         IN  /\ Calmly(l)
             /\ Running(CoreAfter(l)) => Running(CoreAfter(n.log))
             /\ Running(CoreAfter(n.log)) => done.round = round[p]
             /\ ~Running(CoreAfter(n.log)) /\ round[p] # "complete" /\ done.round = "complete" =>
                  round[p] # "none" /\ Cardinality(Seats \ ViewAfter(p, n.log).out) >= 2
             /\ ~Running(CoreAfter(n.log)) => l = n.log
<1> DEFINE k == n.log
           c == CoreAfter(k)
           v == n.view
           done == Duties(n, p, Peers, timer, revealed)
           lost == v.running /\ CoordinatorSeat(v, Peers) # v.button
           idle == ~v.running /\ ~n.dealing /\ Cardinality(EligibleIn(v, Peers)) >= 2
           timeout == Emit(n, p, "timeout", p, NoId)
           e == Numbered(n, p, "timeout", p, NoId)
<1>1. v = ViewAfter(p, k) /\ CoreOK(c) /\ IsLog(k)
  BY FineParts
<1>2. PICK S : k \in Seq(S)
  BY <1>1 DEF IsLog
<1>3. Common(k)
  BY <1>2, CalmlyEnd
<1>4. PICK O \in SUBSET Seats, b \in Starts : Agreed(c, Views(k), O, b)
  BY <1>3 DEF Common
<1>5. /\ v.out = O /\ (p \notin O => v.button = b)
      /\ v.running <=> Running(c) /\ p \notin O
  <2>1. Views(k)[p] = v
    BY <1>1 DEF Views
  <2> HIDE DEF v, c, k
  <2>. QED BY <1>4, <2>1 DEF Agreed
<1>6. Running(c) => p = b /\ p \notin O
  <2>1. Running(c) => LeaderBy(c, O, b) = b /\ LeaderBy(c, O, b) \in Seats \ O
    <3> HIDE DEF c
    <3>. QED BY <1>4, LeaderType
  <2>2. Running(c) => p = LeaderBy(c, O, b)
    BY <1>4, LeadsBy
  <2>. QED BY <2>1, <2>2
<1>7. v.running <=> Running(c)
  BY <1>5, <1>6
<1>8. ~lost
  <2> SUFFICES ASSUME v.running PROVE CoordinatorSeat(v, Peers) = v.button
    OBVIOUS
  <2>1. Leads(p, k) /\ v.button = p
    BY <1>5, <1>6, <1>7
  <2>. QED BY <1>1, <2>1 DEF Leads
<1>9. /\ done.node = IF v.running /\ timer THEN timeout ELSE n
      /\ done.round = IF idle THEN NextRound(round[p], revealed) ELSE round[p]
  BY <1>8 DEF Duties
<1>10. CASE v.running /\ timer
  <2>1. timeout = Committed(n, p, e, RunOnCore(n.core, e))
    BY EmitIsCommitted
  <2>2. timeout.log = Append(k, e)
    <3> HIDE DEF timeout, e
    <3>. QED BY <2>1, CommittedParts
  <2>3. e.kind = "timeout" /\ e.by = p
    <3> DEFINE x == NextSeq(n)
               g == StateHash(RunOnCore(n.core, Unstamped(n, p, "timeout", p, NoId)).core)
    <3> HIDE DEF x, g
    <3>1. e = [seq |-> x, kind |-> "timeout", actor |-> p, by |-> p, id |-> NoId, hash |-> g]
      BY NumberedFields DEF x, g
    <3> HIDE DEF e
    <3>. QED BY <3>1
  <2> DEFINE R == S \cup {e}
  <2> HIDE DEF e
  <2>4. k \in Seq(R) /\ e \in R
    <3>1. S \subseteq R /\ e \in R
      OBVIOUS
    <3> HIDE DEF R, k
    <3>. QED BY <1>2, <3>1
  <2> HIDE DEF R
  <2>5. Running(c) /\ Leads(p, k)
    BY <1>7, <1>10
  <2>6. Calmly(Append(k, e)) /\ (Running(CoreAfter(Append(k, e))) => Running(c))
    BY <1>1, <2>3, <2>4, <2>5, PlayGoesOn
  <2>7. done.node.log = Append(k, e)
    BY <1>9, <1>10, <2>2
  <2>8. ~idle /\ done.round = round[p]
    BY <1>9, <1>10
  <2> HIDE DEF done
  <2>. QED BY <2>5, <2>6, <2>7, <2>8 DEF done
<1>11. CASE ~(v.running /\ timer)
  <2>1. done.node.log = k
    BY <1>9, <1>11
  <2>2. Running(c) => done.round = round[p]
    BY <1>7, <1>9
  <2>3. ASSUME ~Running(c), round[p] # "complete", done.round = "complete"
        PROVE  round[p] # "none" /\ Cardinality(Seats \ v.out) >= 2
    <3>1. idle /\ NextRound(round[p], revealed) = "complete"
      BY <1>9, <2>3
    <3>2. EligibleIn(v, Peers) = Seats \ v.out
      BY DEF EligibleIn, Peers
    <3>. QED BY <3>1, <3>2 DEF NextRound
  <2> HIDE DEF done
  <2>. QED BY <1>1, <2>1, <2>2, <2>3 DEF done
<1>. QED BY <1>10, <1>11

\* Entries of a calm mesh: requests are actions, and none comes when the hand is over.
CalmEntries(W) ==
  /\ \A e \in W : WellMade(e) /\ (e.id # NoId => e.kind = "act")
  /\ \A d, e \in W : e.seq = d.seq + 1 /\ e.id # NoId => d.hash.dealt # {}

\* The requests of a beat, in a mesh that is calm after it, are actions of a hand.
LEMMA BatchFits ==
  ASSUME MeshInv, resyncing = {}, OneLine, NEW p \in Peers,
         NEW reqs \in Seq(ActionRequest), NEW m, NEW W, CalmEntries(W), LogFrom(m.log, W),
         Extends(m.log, EmitAll(node[p], p, reqs).log, p)
  PROVE  LET k == EmitAll(node[p], p, reqs).log
             l == node[p].log
         IN  /\ k \in Seq(W) /\ Len(l) \in 0 .. Len(k) /\ SubSeq(k, 1, Len(l)) = l
             /\ \A j \in Len(l) + 1 .. Len(k) :
                  /\ k[j].by = p /\ k[j].kind = "act"
                  /\ j > 1 => Running(CoreAfter(SubSeq(k, 1, j - 1)))
<1> DEFINE n == EmitAll(node[p], p, reqs)
           l == node[p].log
           k == n.log
           len == Len(l)
           top == Len(k)
<1>0. /\ \A e \in W : WellMade(e) /\ (e.id # NoId => e.kind = "act")
      /\ \A d, e \in W : e.seq = d.seq + 1 /\ e.id # NoId => d.hash.dealt # {}
  BY DEF CalmEntries
<1>1. Fine(node[p], p, {}) /\ l \in Seq(sent) /\ LogFrom(l, sent) /\ len \in Nat /\ Calmly(l)
  BY NodeParts DEF OneLine
<1>2. Emitted(n, node[p], p, {}, reqs, Len(reqs))
  BY <1>1, EmitAllGrows
<1> HIDE DEF n
<1>3. /\ Fine(n, p, {}) /\ Extends(k, l, p) /\ top = len + Len(reqs) /\ Len(reqs) \in Nat
      /\ \A j \in 1 .. Len(reqs) : k[len + j].id = reqs[j].id
  BY <1>2 DEF Emitted
<1>4. IsLog(k) /\ top \in Nat /\ DOMAIN k = 1 .. top /\ len <= top
  <2>1. IsLog(k)
    BY <1>3, FineParts
  <2>2. top \in Nat /\ DOMAIN k = 1 .. top
    BY <2>1, LogParts
  <2>. QED BY <2>1, <2>2, <1>3 DEF Extends
<1>5. ASSUME NEW i \in 1 .. top PROVE k[i] \in W /\ k[i].seq = i
  <2>1. m.log[i] = k[i] /\ top <= Len(m.log)
    BY DEF Extends, n
  <2>2. i \in 1 .. Len(m.log)
    <3>1. Len(m.log) \in Nat
      BY DEF LogFrom
    <3>. QED BY <1>4, <2>1, <3>1
  <2>. QED BY <2>1, <2>2 DEF LogFrom
<1>6. k \in Seq(W)
  <2>1. PICK S : k \in Seq(S)
    BY <1>4 DEF IsLog
  <2>2. \A i \in 1 .. Len(k) : k[i] \in W
    BY <1>5
  <2> HIDE DEF k
  <2>. QED BY <2>1, <2>2
<1>7. SubSeq(k, 1, len) = l
  <2> DEFINE x == SubSeq(k, 1, len)
  <2>1. len \in 0 .. top
    BY <1>1, <1>4
  <2>2. x \in Seq(W) /\ Len(x) = len /\ \A i \in 1 .. len : x[i] = k[i]
    BY <1>6, <2>1, SubSeqOf
  <2>3. \A i \in 1 .. len : k[i] = l[i]
    BY <1>3 DEF Extends
  <2> HIDE DEF x, k, l
  <2>4. Len(l) = len /\ \A i \in 1 .. len : x[i] = l[i]
    BY <2>2, <2>3
  <2>5. x = l
    BY <1>1, <2>2, <2>4, SeqEqual
  <2>. QED BY <2>5 DEF x
<1>8. ASSUME NEW j \in len + 1 .. top
      PROVE  /\ k[j].by = p /\ k[j].kind = "act"
             /\ j > 1 => Running(CoreAfter(SubSeq(k, 1, j - 1)))
  <2>0. j \in Nat /\ j \in 1 .. top /\ j - len \in 1 .. Len(reqs) /\ len + (j - len) = j
    <3> DEFINE r == Len(reqs)
    <3>1. top = len + r /\ r \in Nat
      BY <1>3
    <3> HIDE DEF r, top, len
    <3>2. j \in Nat /\ j \in 1 .. top /\ j - len \in 1 .. r /\ len + (j - len) = j
      BY <1>1, <1>4, <3>1
    <3>. QED BY <3>2 DEF r
  <2>1. k[j].by = p
    BY <1>3 DEF Extends, Own
  <2>2. k[j].id # NoId
    <3> DEFINE i == j - len
    <3> HIDE DEF i, len
    <3>1. i \in 1 .. Len(reqs) /\ len + i = j
      BY <2>0 DEF i
    <3>2. k[len + i].id = reqs[i].id
      BY <1>3, <3>1 DEF len
    <3>3. reqs[i] \in ActionRequest
      BY <3>1
    <3>. QED BY <3>1, <3>2, <3>3, MeshAssumption DEF ActionRequest, NoId
  <2>3. k[j] \in W /\ k[j].seq = j
    BY <1>5, <2>0
  <2>4. k[j].kind = "act"
    BY <1>0, <2>2, <2>3
  <2>5. ASSUME j > 1 PROVE Running(CoreAfter(SubSeq(k, 1, j - 1)))
    <3> DEFINE i == j - 1
               c == CoreAfter(SubSeq(k, 1, i))
    <3>1. i \in 1 .. top /\ j = i + 1
      BY <1>4, <2>0, <2>5
    <3> HIDE DEF i
    <3>2. k[i] \in W /\ k[i].seq = i
      BY <1>5, <3>1
    <3>3. k[i].hash.dealt # {}
      BY <1>0, <2>2, <2>3, <3>1, <3>2
    <3>4. k[i].hash = StateHash(c)
      BY <1>3, <1>4, <3>1, FineParts
    <3>5. c \in LocalTable
      <4> DEFINE z == FALSE
                 s == SubSeq(k, 1, i)
      <4>1. s \in Seq(W)
        <5>1. i \in 0 .. Len(k)
          BY <1>4, <3>1
        <5>. QED BY <1>6, <5>1, SubSeqOf
      <4> HIDE DEF s, z
      <4>2. CoreOK(Replay(0, s, z).core)
        BY <1>0, <4>1, ReplayType
      <4>3. CoreOK(CoreAfter(s))
        BY <4>2 DEF CoreAfter, z
      <4>. QED BY <4>3 DEF CoreOK, s
    <3>6. StateHash(c).dealt = c.dealt
      <4> HIDE DEF c
      <4>. QED BY <3>5 DEF StateHash, LocalTable
    <3>7. Running(c)
      <4> HIDE DEF c
      <4>. QED BY <3>3, <3>4, <3>6 DEF Running
    <3>. QED BY <3>7 DEF i, c
  <2>. QED BY <2>1, <2>4, <2>5
<1>9. len \in 0 .. Len(k)
  BY <1>1, <1>4
<1>. QED BY <1>6, <1>7, <1>8, <1>9 DEF n

LEMMA BatchCalm ==
  ASSUME MeshInv, resyncing = {}, OneLine, NEW p \in Peers, Leads(p, node[p].log),
         NEW reqs \in Seq(ActionRequest), NEW m, NEW W, CalmEntries(W), LogFrom(m.log, W),
         Extends(m.log, EmitAll(node[p], p, reqs).log, p)
  PROVE  LET n == EmitAll(node[p], p, reqs)
             l == node[p].log
         IN  /\ Calmly(n.log) /\ (Running(CoreAfter(n.log)) => Running(CoreAfter(l)))
             /\ Running(CoreAfter(n.log)) \/ ~Running(CoreAfter(l)) => Leads(p, n.log)
<1> DEFINE k == EmitAll(node[p], p, reqs).log
           l == node[p].log
           len == Len(l)
<1>1. /\ k \in Seq(W) /\ len \in 0 .. Len(k) /\ SubSeq(k, 1, len) = l
      /\ \A j \in len + 1 .. Len(k) :
           /\ k[j].by = p /\ k[j].kind = "act"
           /\ j > 1 => Running(CoreAfter(SubSeq(k, 1, j - 1)))
  <2>1. /\ MeshInv /\ resyncing = {} /\ OneLine /\ p \in Peers /\ reqs \in Seq(ActionRequest)
        /\ CalmEntries(W) /\ LogFrom(m.log, W) /\ Extends(m.log, k, p)
    OBVIOUS
  <2>. QED BY ONLY <2>1, BatchFits
<1>2. Calmly(l) /\ \A e \in W : WellMade(e)
  BY DEF OneLine, CalmEntries
<1>3. Calmly(SubSeq(k, 1, len)) /\ Leads(p, SubSeq(k, 1, len))
  BY <1>1, <1>2
<1> HIDE DEF k, l, len
<1>4. /\ Calmly(k) /\ (Running(CoreAfter(k)) => Running(CoreAfter(SubSeq(k, 1, len))))
      /\ Running(CoreAfter(k)) \/ ~Running(CoreAfter(SubSeq(k, 1, len))) => Leads(p, k)
  BY <1>1, <1>2, <1>3, BatchGoesOn
<1>. QED BY <1>1, <1>4 DEF k, l

\* Between hands, and after the first one, there is no request.
LEMMA BatchIsEmpty ==
  ASSUME MeshInv, resyncing = {}, OneLine, NEW p \in Peers,
         node[p].log # <<>>, ~Running(CoreAfter(node[p].log)),
         NEW reqs \in Seq(ActionRequest), NEW m, NEW W, CalmEntries(W), LogFrom(m.log, W),
         Extends(m.log, EmitAll(node[p], p, reqs).log, p)
  PROVE  EmitAll(node[p], p, reqs).log = node[p].log
<1> DEFINE k == EmitAll(node[p], p, reqs).log
           l == node[p].log
           len == Len(l)
           top == Len(k)
<1>1. /\ k \in Seq(W) /\ len \in 0 .. top /\ SubSeq(k, 1, len) = l
      /\ \A j \in len + 1 .. top : j > 1 => Running(CoreAfter(SubSeq(k, 1, j - 1)))
  <2>1. /\ MeshInv /\ resyncing = {} /\ OneLine /\ p \in Peers /\ reqs \in Seq(ActionRequest)
        /\ CalmEntries(W) /\ LogFrom(m.log, W) /\ Extends(m.log, k, p)
    OBVIOUS
  <2>. QED BY ONLY <2>1, BatchFits
<1>2. ~Running(CoreAfter(l)) /\ len > 0
  <2>1. ~Running(CoreAfter(l)) /\ l \in Seq(sent) /\ l # <<>>
    BY NodeParts
  <2> HIDE DEF l
  <2>. QED BY <2>1
<1> HIDE DEF k, l, len
<1>3. top \in Nat /\ SubSeq(k, 1, top) = k
  BY <1>1, WholeIsSubSeq
<1> HIDE DEF top
<1>4. top = len
  <2> SUFFICES ASSUME len < top PROVE FALSE
    BY <1>1, <1>3
  <2> DEFINE j == len + 1
  <2>1. j \in len + 1 .. top /\ j > 1 /\ j - 1 = len
    BY <1>1, <1>2, <1>3
  <2> HIDE DEF j
  <2>2. Running(CoreAfter(SubSeq(k, 1, len)))
    BY <1>1, <2>1
  <2>. QED BY <1>1, <1>2, <2>2
<1>5. k = l
  BY <1>1, <1>3, <1>4
<1>. QED BY <1>5 DEF k, l

\* What the beat of a coordinator does to its log.
LEMMA TickParts ==
  ASSUME MeshInv, resyncing = {}, NEW p \in Peers, NEW due, NEW timer, NEW revealed,
         Tick(p, due, timer, revealed), IsCoordinator(p)
  PROVE  LET reqs == queue[p] \o TakenOver(p, due)
             n == EmitAll(node[p], p, reqs)
             m == Duties(n, p, Alive(p), timer, revealed).node
         IN  /\ reqs \in Seq(ActionRequest) /\ Fine(n, p, {}) /\ Fine(m, p, {})
             /\ Emitted(n, node[p], p, {}, reqs, Len(reqs))
             /\ Extends(m.log, n.log, p) /\ Extends(m.log, node[p].log, p)
             /\ node' = [node EXCEPT ![p] = m] /\ node'[p] = m
             /\ sent' = sent \cup NewEntries(m, node[p])
<1> DEFINE reqs == queue[p] \o TakenOver(p, due)
           n == EmitAll(node[p], p, reqs)
           done == Duties(n, p, Alive(p), timer, revealed)
           m == done.node
<1>1. Fine(node[p], p, {})
  BY NodeParts
<1>2. reqs \in Seq(ActionRequest)
  <2>1. TakenOver(p, due) \in Seq(ActionRequest)
    <3>1. due \in SUBSET pending[p]
      BY DEF Tick
    <3>. QED BY <3>1, TakenOverType DEF MeshInv
  <2>2. queue[p] \in Seq(ActionRequest)
    BY DEF MeshInv, RequestsOK
  <2>. QED BY <2>1, <2>2
<1>3. sent' = sent \cup NewEntries(m, node[p]) /\ node' = [node EXCEPT ![p] = m]
  BY DEF Tick
<1> HIDE DEF reqs
<1>4. Emitted(n, node[p], p, {}, reqs, Len(reqs))
  BY <1>1, <1>2, EmitAllGrows
<1> HIDE DEF n
<1>5. Fine(n, p, {}) /\ Extends(n.log, node[p].log, p)
  BY <1>4 DEF Emitted
<1>6. Fine(m, p, {}) /\ Extends(m.log, n.log, p)
  BY <1>5, DutiesGrow
<1> HIDE DEF m
<1>7. Extends(m.log, node[p].log, p)
  <2>1. IsLog(node[p].log) /\ IsLog(n.log) /\ IsLog(m.log)
    BY <1>1, <1>5, <1>6 DEF Fine
  <2>. QED BY <1>5, <1>6, <2>1, ExtendsTrans
<1>8. node'[p] = m
  BY <1>3 DEF MeshInv, LogsOK
<1>. QED BY <1>2, <1>3, <1>4, <1>5, <1>6, <1>7, <1>8 DEF m, n, reqs

\* A beat of the host while nobody is fit to coordinate.
LEMMA IdleTick ==
  ASSUME MeshInv, resyncing = {}, OneLine, NEW p \in Peers,
         NEW reqs \in Seq(ActionRequest), NEW timer, NEW revealed, NEW W, CalmEntries(W),
         Fine(EmitAll(node[p], p, reqs), p, {}),
         LogFrom(Duties(EmitAll(node[p], p, reqs), p, Peers, timer, revealed).node.log, W),
         Extends(Duties(EmitAll(node[p], p, reqs), p, Peers, timer, revealed).node.log,
                 EmitAll(node[p], p, reqs).log, p),
         ViewAfter(p, node[p].log).out = Seats, ~ViewAfter(p, node[p].log).running,
         ~Running(CoreAfter(node[p].log))
  PROVE  LET done == Duties(EmitAll(node[p], p, reqs), p, Peers, timer, revealed)
         IN  done.node.log = node[p].log /\ done.round = round[p]
<1> DEFINE n == EmitAll(node[p], p, reqs)
           done == Duties(n, p, Peers, timer, revealed)
           l == node[p].log
           v == ViewAfter(p, l)
<1>1. l # <<>>
  <2> SUFFICES ASSUME l = <<>> PROVE FALSE
    OBVIOUS
  <2>1. v = NewView
    BY AfterNone
  <2>2. NewView.out = {} /\ 0 \in Seats
    BY NumSeatsAssumption DEF NewView, Seats
  <2> HIDE DEF v, l
  <2>3. v.out = Seats
    BY DEF v, l
  <2>. QED BY <2>1, <2>2, <2>3
<1>2. n.log = l
  <2>1. /\ MeshInv /\ resyncing = {} /\ OneLine /\ p \in Peers /\ reqs \in Seq(ActionRequest)
        /\ l # <<>> /\ ~Running(CoreAfter(l)) /\ CalmEntries(W)
        /\ LogFrom(done.node.log, W) /\ Extends(done.node.log, EmitAll(node[p], p, reqs).log, p)
    BY <1>1
  <2>2. EmitAll(node[p], p, reqs).log = l
    BY ONLY <2>1, BatchIsEmpty
  <2>. QED BY <2>2
<1>3. n.view = v
  BY <1>2, FineParts
<1> HIDE DEF v, n
<1>4. ~n.view.running /\ EligibleIn(n.view, Peers) = {}
  BY <1>3 DEF v, EligibleIn, Peers
<1>5. ~(Cardinality(EligibleIn(n.view, Peers)) >= 2)
  BY <1>4, FS_EmptySet
<1>6. done.node = n /\ done.round = round[p]
  BY <1>4, <1>5 DEF Duties
<1>. QED BY <1>2, <1>6 DEF n

LEMMA TickCalm ==
  ASSUME MeshInv, AllSeen, Calm, CalmInv, MeshInv', Calm', NEW p \in Peers, NEW due,
         NEW timer, NEW revealed, Tick(p, due, timer, revealed)
  PROVE  OneLine' /\ RoundsOK'
<1>1. losses = 0 /\ resyncing = {} /\ OneLine /\ RoundsOK /\ \A q \in Peers : Calmly(node[q].log)
  BY DEF Calm, CalmInv, OneLine
<1>2. CASE IsCoordinator(p)
  <2> DEFINE reqs == queue[p] \o TakenOver(p, due)
             n == EmitAll(node[p], p, reqs)
             done == Duties(n, p, Peers, timer, revealed)
             m == done.node
             l == node[p].log
             v == ViewAfter(p, l)
  <2>1. Alive(p) = Peers
    BY <1>1 DEF AllSeen
  <2>2. /\ reqs \in Seq(ActionRequest) /\ Fine(n, p, {}) /\ Fine(m, p, {})
        /\ Extends(m.log, n.log, p) /\ Extends(m.log, l, p)
        /\ node' = [node EXCEPT ![p] = m] /\ node'[p] = m
        /\ sent' = sent \cup NewEntries(m, node[p])
    BY <1>1, <1>2, <2>1, TickParts
  <2>3. round[p] # "complete" /\ round' = [round EXCEPT ![p] = done.round]
    BY <1>2, <2>1 DEF Tick
  <2>4. Leads(p, l) \/ (v.out = Seats /\ ~v.running /\ ~Running(CoreAfter(l)))
    BY <1>1, <1>2, CoordinatorLeads DEF IsCoordinator
  <2>5. CalmEntries(sent') /\ LogFrom(m.log, sent')
    <3>1. /\ \A e \in sent' : WellMade(e)
          /\ LogFrom(m.log, sent')
      BY <2>2 DEF MeshInv, LogsOK
    <3>. QED BY <3>1 DEF Calm, Overrun, CalmEntries
  <2>6. Common(l) /\ node[p].view = v
    <3>1. l \in Seq(sent) /\ node[p].view = v
      BY <1>1, NodeParts, FineParts
    <3>. QED BY <1>1, <3>1, CalmlyEnd
  <2>7. ASSUME NEW q \in Peers
        PROVE  round'[q] = IF q = p THEN done.round ELSE round[q]
    BY <2>3 DEF MeshInv, NetOK
  <2>8. ASSUME NEW q \in Peers
        PROVE  node'[q] = IF q = p THEN m ELSE node[q]
    BY <2>2 DEF MeshInv, LogsOK
  <2>9. Leads(p, l) /\ v.running /\ round[p] # "none" => FALSE
    <3>1. leftover' = {}
      BY DEF Calm
    <3>. QED BY <1>2, <2>6, <3>1 DEF Tick
  <2> HIDE DEF done, reqs, l, v
  <2>10. CASE Leads(p, l)
    <3>1. /\ Calmly(n.log) /\ (Running(CoreAfter(n.log)) => Running(CoreAfter(l)))
          /\ Running(CoreAfter(n.log)) \/ ~Running(CoreAfter(l)) => Leads(p, n.log)
      <4> DEFINE W == sent'
      <4>1. CalmEntries(W) /\ LogFrom(m.log, W)
        BY <2>5
      <4> HIDE DEF W
      <4>. QED BY <1>1, <2>2, <2>10, <4>1, BatchCalm DEF l
    <3> HIDE DEF n
    <3>2. /\ Calmly(m.log)
          /\ Running(CoreAfter(m.log)) => Running(CoreAfter(n.log))
          /\ Running(CoreAfter(n.log)) => done.round = round[p]
          /\ ~Running(CoreAfter(n.log)) /\ round[p] # "complete" /\ done.round = "complete" =>
               round[p] # "none" /\ Cardinality(Seats \ ViewAfter(p, n.log).out) >= 2
          /\ ~Running(CoreAfter(n.log)) => m.log = n.log
      BY <2>2, <3>1, DutiesCalm DEF done
    <3> HIDE DEF m
    <3>3. OneLine'
      <4>1. IsLog(m.log)
        BY <2>2, FineParts
      <4>. QED BY <1>1, <2>2, <2>10, <3>2, <4>1, BroadcastOneLine DEF l
    <3>4. ASSUME done.round = "complete"
          PROVE  /\ Leads(p, m.log) /\ ~Running(CoreAfter(m.log))
                 /\ Cardinality(Seats \ ViewAfter(p, m.log).out) >= 2
      <4>1. ~Running(CoreAfter(n.log))
        BY <2>3, <3>2, <3>4
      <4>2. round[p] # "none" /\ Cardinality(Seats \ ViewAfter(p, n.log).out) >= 2
        BY <2>3, <3>2, <3>4, <4>1
      <4>3. ~Running(CoreAfter(l))
        <5>1. v.running <=> Running(CoreAfter(l))
          BY <2>6, <2>10, LeaderRuns DEF v
        <5>. QED BY <2>9, <2>10, <4>2, <5>1
      <4>4. Leads(p, n.log) /\ m.log = n.log
        BY <3>1, <3>2, <4>1, <4>3
      <4>. QED BY <4>1, <4>2, <4>4
    <3>5. RoundsOK'
      <4> SUFFICES ASSUME NEW q \in Peers, round'[q] = "complete"
                   PROVE  LET k == node'[q].log IN
                          /\ Leads(q, k) /\ ~Running(CoreAfter(k))
                          /\ Cardinality(Seats \ ViewAfter(q, k).out) >= 2
        BY DEF RoundsOK
      <4>1. CASE q # p
        <5>1. node'[q] = node[q] /\ round[q] = "complete"
          BY <2>7, <2>8, <4>1
        <5>. QED BY <1>1, <5>1 DEF RoundsOK
      <4>2. CASE q = p
        <5>1. node'[q].log = m.log /\ done.round = "complete"
          BY <2>2, <2>7, <4>2
        <5>. QED BY <3>4, <4>2, <5>1
      <4>. QED BY <4>1, <4>2
    <3>. QED BY <3>3, <3>5
  <2>11. CASE v.out = Seats /\ ~v.running /\ ~Running(CoreAfter(l))
    <3>1. m.log = l /\ done.round = round[p]
      <4> DEFINE W == sent'
      <4>1. CalmEntries(W) /\ LogFrom(m.log, W)
        BY <2>5
      <4>2. /\ ViewAfter(p, node[p].log).out = Seats /\ ~ViewAfter(p, node[p].log).running
            /\ ~Running(CoreAfter(node[p].log))
        BY <2>11 DEF v, l
      <4>3. /\ MeshInv /\ resyncing = {} /\ OneLine /\ p \in Peers /\ reqs \in Seq(ActionRequest)
            /\ CalmEntries(W) /\ Fine(EmitAll(node[p], p, reqs), p, {})
            /\ LogFrom(Duties(EmitAll(node[p], p, reqs), p, Peers, timer, revealed).node.log, W)
            /\ Extends(Duties(EmitAll(node[p], p, reqs), p, Peers, timer, revealed).node.log,
                       EmitAll(node[p], p, reqs).log, p)
        BY <1>1, <2>2, <4>1 DEF done
      <4> HIDE DEF W
      <4>4. LET d == Duties(EmitAll(node[p], p, reqs), p, Peers, timer, revealed)
            IN  d.node.log = node[p].log /\ d.round = round[p]
        BY ONLY <4>2, <4>3, IdleTick
      <4>5. done.node.log = node[p].log /\ done.round = round[p]
        BY <4>4 DEF done
      <4>. QED BY <4>5 DEF l
    <3> HIDE DEF m
    <3>2. sent' = sent
      <4>1. Len(l) \in Nat
        BY <1>1, NodeParts DEF l
      <4>2. Len(l) + 1 .. Len(l) = {}
        BY <4>1
      <4>3. NewEntries(m, node[p]) = {}
        BY <3>1, <4>2 DEF NewEntries, l
      <4>. QED BY <2>2, <4>3
    <3>3. ASSUME NEW q \in Peers PROVE node'[q].log = node[q].log /\ round'[q] = round[q]
      BY <2>7, <2>8, <3>1 DEF l
    <3>4. OneLine'
      <4>1. \A e \in sent : e.by \in Peers
        BY DEF MeshInv, LogsOK, WellMade
      <4>. QED BY <1>1, <3>2, <3>3, <4>1 DEF OneLine
    <3>5. RoundsOK'
      BY <1>1, <3>3 DEF RoundsOK
    <3>. QED BY <3>4, <3>5
  <2>. QED BY <2>4, <2>10, <2>11
<1>3. CASE ~IsCoordinator(p)
  <2>1. node' = node /\ sent' = sent /\ round' = [round EXCEPT ![p] = "none"]
    BY <1>3 DEF Tick
  <2>2. OneLine'
    BY <1>1, <2>1 DEF OneLine
  <2>3. ASSUME NEW q \in Peers PROVE round'[q] \in {round[q], "none"}
    BY <2>1 DEF MeshInv, NetOK
  <2>4. RoundsOK'
    BY <1>1, <2>1, <2>3 DEF RoundsOK
  <2>. QED BY <2>2, <2>4
<1>. QED BY <1>2, <1>3

\* Who follows finds the entry's hash, and learns what the peer that numbered it knows.
LEMMA IngestCalm ==
  ASSUME MeshInv, resyncing = {}, OneLine, RoundsOK, NEW p \in Peers, NEW e \in sent,
         Ingest(p, e)
  PROVE  /\ resyncing' = {} /\ OneLine' /\ RoundsOK'
         /\ node'[p].log = Append(node[p].log, e)
         /\ \A q \in Peers \ {p} : node'[q] = node[q]
<1> DEFINE n == node[p]
           l == n.log
           len == Len(l)
           q == e.by
           k == node[q].log
           o == RunOnCore(n.core, e)
           m == Committed(n, p, e, o)
           x == Append(l, e)
<1>1. e.seq = len + 1 /\ sent' = sent /\ round' = round
  BY DEF Ingest, NextSeq
<1>2. q \in Peers /\ len + 1 <= Len(k)
  BY <1>1 DEF MeshInv, LogsOK, WellMade, OneLine
<1>3. /\ Fine(n, p, {}) /\ LogFrom(l, sent) /\ l \in Seq(sent) /\ len \in Nat
      /\ Fine(node[q], q, {}) /\ LogFrom(k, sent) /\ k \in Seq(sent) /\ Len(k) \in Nat
      /\ DOMAIN k = 1 .. Len(k)
  BY <1>2, NodeParts
<1>4. Calmly(l) /\ Calmly(k)
  BY <1>2 DEF OneLine
<1>5. len + 1 \in 1 .. Len(k) /\ len + 1 \in 0 .. Len(k)
  <2> DEFINE top == Len(k)
  <2>1. len \in Nat /\ top \in Nat /\ len + 1 <= top
    BY <1>2, <1>3
  <2> HIDE DEF len, top
  <2>2. len + 1 \in 1 .. top /\ len + 1 \in 0 .. top
    BY <2>1
  <2>. QED BY <2>2 DEF top
<1>6. /\ x \in Seq(sent) /\ Len(x) = len + 1 /\ x[len + 1] = e
      /\ \A i \in 1 .. len : x[i] = l[i]
  <2> HIDE DEF l
  <2>. QED BY <1>3, AppendParts
<1> HIDE DEF x
<1>7. SubSeq(k, 1, len + 1) = x
  <2> DEFINE y == SubSeq(k, 1, len + 1)
  <2>1. y \in Seq(sent) /\ Len(y) = len + 1 /\ \A i \in 1 .. len + 1 : y[i] = k[i]
    BY <1>3, <1>5, SubSeqOf
  <2> HIDE DEF y
  <2>2. ASSUME NEW i \in 1 .. len + 1 PROVE k[i] = x[i]
    <3>1. i \in 1 .. Len(k) /\ (i \in 1 .. len \/ i = len + 1)
      <4> DEFINE top == Len(k)
      <4>1. len \in Nat /\ top \in Nat /\ len + 1 <= top
        BY <1>2, <1>3
      <4> HIDE DEF len, top
      <4>2. i \in 1 .. top /\ (i \in 1 .. len \/ i = len + 1)
        BY <4>1
      <4>. QED BY <4>2 DEF top
    <3>2. k[i] \in sent /\ k[i].seq = i
      <4>1. k \in Seq(sent) /\ \A j \in 1 .. Len(k) : k[j].seq = j
        BY <1>3 DEF LogFrom
      <4> HIDE DEF k, len
      <4>. QED BY <3>1, <4>1
    <3>3. x[i] \in sent /\ x[i].seq = i
      <4>1. l \in Seq(sent) /\ \A j \in 1 .. Len(l) : l[j].seq = j
        BY <1>3 DEF LogFrom
      <4> HIDE DEF l
      <4>2. CASE i = len + 1
        BY <1>1, <1>6, <4>2
      <4>3. CASE i \in 1 .. len
        BY <1>6, <4>1, <4>3
      <4>. QED BY <3>1, <4>2, <4>3
    <3>. QED BY <3>2, <3>3 DEF OneLine
  <2>3. x = y
    BY <1>6, <2>1, <2>2, SeqEqual
  <2>. QED BY <2>3 DEF y
<1>8. k[len + 1] = e
  <2>1. k[len + 1] \in sent /\ k[len + 1].seq = len + 1
    <3>1. k \in Seq(sent) /\ \A i \in 1 .. Len(k) : k[i].seq = i
      BY <1>3 DEF LogFrom
    <3> HIDE DEF k, len
    <3>. QED BY <1>5, <3>1
  <2>. QED BY <1>1, <2>1 DEF OneLine
<1>9. Calmly(x)
  BY <1>3, <1>4, <1>5, <1>7, CalmlyPrefix
<1>10. StateHash(o.core) = e.hash
  <2>1. e.hash = StateHash(CoreAfter(x))
    BY <1>3, <1>5, <1>7, <1>8, FineParts
  <2>2. n.core = CoreAfter(l)
    BY <1>3, FineParts
  <2>3. CoreAfter(x) = RunOnCore(CoreAfter(l), e).core
    <3> HIDE DEF l
    <3>. QED BY <1>3, AfterMore DEF x
  <2>. QED BY <2>1, <2>2, <2>3
<1>11. node' = [node EXCEPT ![p] = m] /\ resyncing' = {}
  BY <1>10 DEF Ingest
<1>12. m.log = x
  BY CommittedParts DEF x
<1> HIDE DEF m
<1>13. node'[p].log = x /\ \A r \in Peers \ {p} : node'[r] = node[r]
  BY <1>11, <1>12 DEF MeshInv, LogsOK
<1>14. ~Leads(p, l)
  <2> SUFFICES ASSUME Leads(p, l) PROVE FALSE
    OBVIOUS
  <2>1. e.seq <= len
    BY LeaderHasAll
  <2>. QED BY <1>1, <1>3, <2>1
<1>15. OneLine'
  <2>1. ASSUME NEW f \in sent PROVE f.seq <= Len(node'[f.by].log)
    <3>1. f.by \in Peers /\ f.seq \in Nat /\ f.seq <= Len(node[f.by].log)
      BY DEF MeshInv, LogsOK, WellMade, OneLine
    <3>2. CASE f.by = p
      <4>1. f.seq <= len /\ Len(node'[f.by].log) = len + 1
        BY <1>6, <1>13, <3>1, <3>2
      <4>. QED BY <1>3, <3>1, <4>1
    <3>3. CASE f.by # p
      BY <1>13, <3>1, <3>3
    <3>. QED BY <3>2, <3>3
  <2>2. \A r \in Peers : Calmly(node'[r].log)
    BY <1>9, <1>13 DEF OneLine
  <2>. QED BY <1>1, <2>1, <2>2 DEF OneLine
<1>16. RoundsOK'
  <2> SUFFICES ASSUME NEW r \in Peers, round[r] = "complete"
               PROVE  LET y == node'[r].log IN
                      /\ Leads(r, y) /\ ~Running(CoreAfter(y))
                      /\ Cardinality(Seats \ ViewAfter(r, y).out) >= 2
    BY <1>1 DEF RoundsOK
  <2>1. r # p
    BY <1>14 DEF RoundsOK
  <2>2. node'[r] = node[r]
    BY <1>13, <2>1
  <2>. QED BY <2>2 DEF RoundsOK
<1>. QED BY <1>11, <1>13, <1>15, <1>16 DEF x

-----------------------------------------------------------------------------
(* Requests in a calm mesh *)

LEMMA LogKeepsIds ==
  ASSUME NEW l, IsLog(l), NEW k, IsLog(k), NEW p, Extends(k, l, p), NEW id,
         \E i \in DOMAIN l : l[i].id = id
  PROVE  \E i \in DOMAIN k : k[i].id = id
<1>1. Len(l) \in Nat /\ DOMAIN l = 1 .. Len(l) /\ Len(k) \in Nat /\ DOMAIN k = 1 .. Len(k)
  BY LogParts
<1>2. PICK i \in 1 .. Len(l) : l[i].id = id
  BY <1>1
<1>3. k[i] = l[i] /\ Len(l) <= Len(k)
  BY DEF Extends
<1>4. i \in 1 .. Len(k)
  BY <1>1, <1>3
<1>. QED BY <1>1, <1>2, <1>3, <1>4

\* What a beat has to do: what was queued, and what is taken over.
LEMMA TodoHas ==
  ASSUME RequestsOK, OwnRequests, NEW p \in Peers, NEW due \in SUBSET pending[p]
  PROVE  LET reqs == queue[p] \o TakenOver(p, due) IN
         /\ reqs \in Seq(ActionRequest)
         /\ \A id : InQueue(p, id) => \E i \in DOMAIN reqs : reqs[i].id = id
         /\ Coordinator(p) = p => \A w \in due \ GivenUp(due) :
              \E i \in DOMAIN reqs : reqs[i].id = w.req.id
<1> DEFINE s == queue[p]
           t == TakenOver(p, due)
           reqs == s \o t
<1>1. /\ t \in Seq(ActionRequest)
      /\ Coordinator(p) = p => \A w \in due \ GivenUp(due) : \E i \in DOMAIN t : t[i] = w.req
  BY TakenOverType
<1>2. s \in Seq(ActionRequest)
  BY DEF RequestsOK
<1> HIDE DEF s, t
<1>3. /\ reqs \in Seq(ActionRequest)
      /\ DOMAIN s = 1 .. Len(s) /\ DOMAIN t = 1 .. Len(t) /\ Len(s) \in Nat /\ Len(t) \in Nat
      /\ DOMAIN reqs = 1 .. Len(s) + Len(t)
      /\ \A i \in 1 .. Len(s) : reqs[i] = s[i]
      /\ \A i \in 1 .. Len(t) : reqs[Len(s) + i] = t[i]
  BY <1>1, <1>2
<1>4. /\ \A i \in DOMAIN s : i \in DOMAIN reqs
      /\ \A i \in DOMAIN t : Len(s) + i \in DOMAIN reqs
  <2> HIDE DEF reqs
  <2>. QED BY <1>3
<1> HIDE DEF reqs
<1>5. ASSUME NEW id, InQueue(p, id) PROVE \E i \in DOMAIN reqs : reqs[i].id = id
  <2>1. PICK i \in DOMAIN s : s[i].id = id
    BY <1>5 DEF InQueue, s
  <2>2. i \in DOMAIN reqs /\ reqs[i] = s[i]
    BY <1>3, <1>4
  <2>. QED BY <2>1, <2>2
<1>6. ASSUME Coordinator(p) = p, NEW w \in due \ GivenUp(due)
      PROVE  \E i \in DOMAIN reqs : reqs[i].id = w.req.id
  <2>1. PICK i \in DOMAIN t : t[i] = w.req
    BY <1>1, <1>6
  <2>2. Len(s) + i \in DOMAIN reqs /\ reqs[Len(s) + i] = t[i]
    BY <1>3, <1>4
  <2>. QED BY <2>1, <2>2
<1>. QED BY <1>3, <1>5, <1>6 DEF reqs, s, t

\* After its beat the coordinator has logged what it had to do, and who follows still has it
\* to do; an own request is retried, taken over or given up.
LEMMA TickKeepsIds ==
  ASSUME MeshInv, resyncing = {}, NEW p \in Peers, NEW due, NEW timer, NEW revealed,
         Tick(p, due, timer, revealed), NEW id
  PROVE  /\ InQueue(p, id) \/ InLog(p, id) => InQueue(p, id)' \/ InLog(p, id)'
         /\ IsPending(p, id) =>
              id \in undelivered' \/ IsPending(p, id)' \/ InQueue(p, id)' \/ InLog(p, id)'
<1> DEFINE reqs == queue[p] \o TakenOver(p, due)
           Todo == \E i \in DOMAIN reqs : reqs[i].id = id
<1>1. RequestsOK /\ OwnRequests /\ due \in SUBSET pending[p]
  BY DEF MeshInv, Tick
<1>2. InQueue(p, id) => Todo
  BY <1>1, TodoHas
<1>3. Coordinator(p) = p => \A w \in due \ GivenUp(due) : w.req.id = id => Todo
  BY <1>1, TodoHas
<1>4. Todo \/ InLog(p, id) => InQueue(p, id)' \/ InLog(p, id)'
  <2>1. CASE IsCoordinator(p)
    <3> DEFINE n == EmitAll(node[p], p, reqs)
               m == Duties(n, p, Alive(p), timer, revealed).node
               l == node[p].log
    <3>1. /\ reqs \in Seq(ActionRequest) /\ Fine(n, p, {}) /\ Fine(m, p, {})
          /\ Emitted(n, node[p], p, {}, reqs, Len(reqs))
          /\ Extends(m.log, n.log, p) /\ Extends(m.log, l, p) /\ node'[p] = m
      BY <2>1, TickParts
    <3> HIDE DEF reqs, n, m
    <3>2. IsLog(l) /\ IsLog(n.log) /\ IsLog(m.log) /\ Len(l) \in Nat
      BY <3>1, FineParts, NodeParts
    <3>3. InLog(p, id) => InLog(p, id)'
      <4> SUFFICES ASSUME InLog(p, id) PROVE \E i \in DOMAIN m.log : m.log[i].id = id
        BY <3>1 DEF InLog
      <4>1. \E i \in DOMAIN l : l[i].id = id
        BY DEF InLog
      <4>2. IsLog(l) /\ IsLog(m.log) /\ Extends(m.log, l, p)
        BY <3>1, <3>2
      <4> DEFINE k == m.log
      <4> HIDE DEF l, k
      <4>3. \E i \in DOMAIN k : k[i].id = id
        BY ONLY <4>1, <4>2, LogKeepsIds DEF k
      <4>. QED BY <4>3 DEF k
    <3>4. Todo => InLog(p, id)'
      <4> SUFFICES ASSUME Todo PROVE \E i \in DOMAIN m.log : m.log[i].id = id
        BY <3>1 DEF InLog
      <4>1. PICK j \in DOMAIN reqs : reqs[j].id = id
        OBVIOUS
      <4>2. j \in 1 .. Len(reqs) /\ Len(reqs) \in Nat
        BY <3>1
      <4>3. n.log[Len(l) + j].id = id /\ Len(n.log) = Len(l) + Len(reqs)
        BY <3>1, <4>1, <4>2 DEF Emitted
      <4>4. Len(l) + j \in DOMAIN n.log
        <5> DEFINE a == Len(l)
                   r == Len(reqs)
        <5>1. DOMAIN n.log = 1 .. a + r
          BY <3>2, <4>3, LogParts
        <5>2. a \in Nat /\ r \in Nat /\ j \in 1 .. r
          BY <3>2, <4>2
        <5> HIDE DEF a, r
        <5>3. a + j \in DOMAIN n.log
          BY <5>1, <5>2
        <5>. QED BY <5>3 DEF a
      <4>5. \E i \in DOMAIN n.log : n.log[i].id = id
        BY <4>3, <4>4
      <4> DEFINE k == m.log
                 h == n.log
      <4>6. IsLog(h) /\ IsLog(k) /\ Extends(k, h, p) /\ \E i \in DOMAIN h : h[i].id = id
        BY <3>1, <3>2, <4>5
      <4> HIDE DEF h, k
      <4>7. \E i \in DOMAIN k : k[i].id = id
        BY ONLY <4>6, LogKeepsIds
      <4>. QED BY <4>7 DEF k
    <3>. QED BY <3>3, <3>4
  <2>2. CASE ~IsCoordinator(p)
    <3>1. queue' = [queue EXCEPT ![p] = reqs] /\ node' = node
      BY <2>2 DEF Tick
    <3> HIDE DEF reqs
    <3>2. queue'[p] = reqs
      BY <1>1, <3>1 DEF RequestsOK
    <3>. QED BY <3>1, <3>2 DEF InQueue, InLog
  <2>. QED BY <2>1, <2>2
<1>5. ASSUME NEW w \in pending[p], w.req.id = id
      PROVE  id \in undelivered' \/ IsPending(p, id)' \/ Todo
  <2>1. pending'[p] = (pending[p] \ due) \cup RetriedAs(p, due)
    BY <1>1 DEF Tick, RequestsOK
  <2>2. CASE w \notin due
    BY <1>5, <2>1, <2>2 DEF IsPending
  <2>3. CASE w \in GivenUp(due)
    BY <1>5, <2>3 DEF Tick
  <2>4. CASE w \in due \ GivenUp(due)
    <3>1. CASE Coordinator(p) = p
      BY <1>3, <1>5, <2>4, <3>1
    <3>2. CASE Coordinator(p) # p
      <4>1. PICK v \in RetriedAs(p, due) : v.req = w.req
        BY <1>1, <2>4, <3>2, RetriedParts
      <4>. QED BY <1>5, <2>1, <4>1 DEF IsPending
    <3>. QED BY <3>1, <3>2
  <2>. QED BY <2>2, <2>3, <2>4
<1>. QED BY <1>2, <1>4, <1>5 DEF IsPending

\* What a step has to see to.
LEMMA KeptBy ==
  ASSUME RequestsKept,
         \A q \in Peers : \A id :
           InQueue(q, id) \/ InLog(q, id) => InQueue(q, id)' \/ InLog(q, id)',
         \A q \in Peers : \A id : IsPending(q, id) =>
           \/ id \in undelivered'
           \/ \E r \in Peers : IsPending(r, id)' \/ InQueue(r, id)' \/ InLog(r, id)',
         \A q \in Peers : \A id \in processed'[q] : id \in processed[q] \/ InQueue(q, id)',
         undelivered \subseteq undelivered',
         \A id \in 1 .. actions' :
           id \in 1 .. actions \/ \E r \in Peers : IsPending(r, id)' \/ InQueue(r, id)'
  PROVE  RequestsKept'
<1>1. ASSUME NEW q \in Peers, NEW id \in processed'[q] PROVE InQueue(q, id)' \/ InLog(q, id)'
  BY DEF RequestsKept
<1>2. ASSUME NEW id \in 1 .. actions' \ undelivered'
      PROVE  \E q \in Peers : IsPending(q, id)' \/ InQueue(q, id)' \/ InLog(q, id)'
  <2>1. CASE id \in 1 .. actions
    <3>1. PICK q \in Peers : IsPending(q, id) \/ InQueue(q, id) \/ InLog(q, id)
      BY <2>1 DEF RequestsKept
    <3>. QED BY <3>1
  <2>2. CASE id \notin 1 .. actions
    BY <2>2
  <2>. QED BY <2>1, <2>2
<1>. QED BY <1>1, <1>2 DEF RequestsKept

LEMMA SubmitKeepsIds ==
  ASSUME MeshInv, RequestsKept, NEW p \in Peers, NEW kind \in Kinds, Submit(p, kind)
  PROVE  RequestsKept'
<1>0. PICK id : id = actions + 1
  OBVIOUS
<1> DEFINE r == [actor |-> p, kind |-> kind, id |-> id]
           w == [req |-> r, tries |-> 1]
<1>1. /\ node' = node /\ processed' = processed /\ undelivered' = undelivered /\ actions' = id
      /\ actions \in Nat
  BY <1>0, MeshAssumption DEF Submit, nodeVars, MeshInv, RequestsOK
<1>2. \/ queue' = [queue EXCEPT ![p] = Append(@, r)] /\ pending' = pending
      \/ pending' = [pending EXCEPT ![p] = @ \cup {w}] /\ queue' = queue
  BY <1>0 DEF Submit
<1>3. /\ queue \in [Peers -> Seq(ActionRequest)]
      /\ pending \in [Peers -> SUBSET [req : ActionRequest, tries : 1 .. MaxTries]]
  BY DEF MeshInv, RequestsOK
<1>4. r.id = id /\ w.req = r
  OBVIOUS
<1> HIDE DEF r, w
<1>5. ASSUME NEW q \in Peers, NEW i, InQueue(q, i) PROVE InQueue(q, i)'
  <2>1. CASE queue'[q] = queue[q]
    BY <1>5, <2>1 DEF InQueue
  <2>2. CASE queue'[q] # queue[q]
    <3> DEFINE s == queue[q]
    <3>1. queue'[q] = Append(s, r) /\ s \in Seq(ActionRequest)
      BY <1>2, <1>3, <2>2
    <3>2. PICK j \in DOMAIN s : s[j].id = i
      BY <1>5 DEF InQueue
    <3> HIDE DEF s
    <3>3. j \in DOMAIN Append(s, r) /\ Append(s, r)[j] = s[j]
      BY <3>1, <3>2
    <3>. QED BY <3>1, <3>2, <3>3 DEF InQueue
  <2>. QED BY <2>1, <2>2
<1>6. ASSUME NEW q \in Peers, NEW i, IsPending(q, i) PROVE IsPending(q, i)'
  <2>1. pending[q] \subseteq pending'[q]
    BY <1>2, <1>3
  <2>. QED BY <1>6, <2>1 DEF IsPending
<1>7. IsPending(p, id)' \/ InQueue(p, id)'
  <2>1. CASE queue' = [queue EXCEPT ![p] = Append(@, r)]
    <3> DEFINE s == queue[p]
    <3>1. queue'[p] = Append(s, r) /\ s \in Seq(ActionRequest)
      BY <1>3, <2>1
    <3> HIDE DEF s
    <3>2. Len(s) + 1 \in DOMAIN Append(s, r) /\ Append(s, r)[Len(s) + 1] = r
      BY <3>1
    <3>. QED BY <1>4, <3>1, <3>2, <1>1 DEF InQueue
  <2>2. CASE pending' = [pending EXCEPT ![p] = @ \cup {w}]
    <3>1. w \in pending'[p]
      BY <1>3, <2>2
    <3>. QED BY <1>1, <1>4, <3>1 DEF IsPending
  <2>. QED BY <1>2, <2>1, <2>2
<1>8. \A i \in 1 .. actions' : i \in 1 .. actions \/ i = id
  BY <1>0, <1>1
<1>9. \A q \in Peers : \A i : InLog(q, i) => InLog(q, i)'
  BY <1>1 DEF InLog
<1>10. \A i \in 1 .. actions' :
         i \in 1 .. actions \/ \E q \in Peers : IsPending(q, i)' \/ InQueue(q, i)'
  BY <1>7, <1>8
<1>11. ASSUME NEW q \in Peers, NEW i
       PROVE  /\ InQueue(q, i) => InQueue(q, i)'
              /\ InLog(q, i) => InLog(q, i)'
              /\ IsPending(q, i) => IsPending(q, i)'
  BY <1>5, <1>6, <1>9
<1>. QED BY <1>1, <1>10, <1>11, KeptBy

LEMMA OnRequestKeepsIds ==
  ASSUME MeshInv, RequestsKept, NEW p \in Peers, NEW f \in wire, OnRequest(p, f)
  PROVE  RequestsKept'
<1> DEFINE r == f.req
<1>1. /\ node' = node /\ pending' = pending /\ undelivered' = undelivered /\ actions' = actions
      /\ queue' = [queue EXCEPT ![p] = Append(@, r)]
      /\ processed' = [processed EXCEPT ![p] = @ \cup {r.id}]
  BY DEF OnRequest, nodeVars
<1>2. /\ queue \in [Peers -> Seq(ActionRequest)] /\ processed = [q \in Peers |-> processed[q]]
      /\ r \in ActionRequest
  BY DEF MeshInv, RequestsOK
<1> HIDE DEF r
<1> DEFINE s == queue[p]
<1>3. /\ queue'[p] = Append(s, r) /\ s \in Seq(ActionRequest)
      /\ \A q \in Peers \ {p} : queue'[q] = queue[q]
  BY <1>1, <1>2
<1>4. /\ \A j \in DOMAIN s : j \in DOMAIN Append(s, r) /\ Append(s, r)[j] = s[j]
      /\ Len(s) + 1 \in DOMAIN Append(s, r) /\ Append(s, r)[Len(s) + 1] = r
  <2> HIDE DEF s
  <2>. QED BY <1>2, <1>3
<1>5. ASSUME NEW q \in Peers, NEW i, InQueue(q, i) PROVE InQueue(q, i)'
  <2>1. CASE q = p
    <3>1. PICK j \in DOMAIN s : s[j].id = i
      BY <1>5, <2>1 DEF InQueue
    <3>. QED BY <1>3, <1>4, <2>1, <3>1 DEF InQueue
  <2>2. CASE q # p
    BY <1>3, <1>5, <2>2 DEF InQueue
  <2>. QED BY <2>1, <2>2
<1>6. InQueue(p, r.id)'
  BY <1>3, <1>4 DEF InQueue
<1>7. \A q \in Peers : \A i \in processed'[q] : i \in processed[q] \/ InQueue(q, i)'
  <2>1. ASSUME NEW q \in Peers, NEW i \in processed'[q]
        PROVE  i \in processed[q] \/ (q = p /\ i = r.id)
    BY <1>1, <1>2
  <2>. QED BY <1>6, <2>1
<1>8. ASSUME NEW q \in Peers, NEW i
      PROVE  /\ InQueue(q, i) => InQueue(q, i)'
             /\ InLog(q, i) => InLog(q, i)'
             /\ IsPending(q, i) => IsPending(q, i)'
  BY <1>1, <1>5 DEF InLog, IsPending
<1>. QED BY <1>1, <1>7, <1>8, KeptBy

\* Who is told that a request was accepted may forget it: the coordinator has it.
LEMMA OnAckKeepsIds ==
  ASSUME MeshInv, RequestsKept, NEW p \in Peers, NEW w \in pending[p], NEW q \in Peers,
         OnAck(p, w, q)
  PROVE  RequestsKept'
<1>1. /\ node' = node /\ queue' = queue /\ undelivered' = undelivered /\ actions' = actions
      /\ processed' = processed /\ w.req.id \in processed[q]
      /\ pending' = [pending EXCEPT ![p] = @ \ {w}]
  BY DEF OnAck, nodeVars
<1>2. ASSUME NEW r \in Peers, NEW i
      PROVE  /\ InLog(r, i) => InLog(r, i)'
             /\ InQueue(r, i) => InQueue(r, i)'
  BY <1>1 DEF InLog, InQueue
<1>3. ASSUME NEW r \in Peers, NEW i, IsPending(r, i)
      PROVE  \E s \in Peers : IsPending(s, i)' \/ InQueue(s, i)' \/ InLog(s, i)'
  <2>1. PICK v \in pending[r] : v.req.id = i
    BY <1>3 DEF IsPending
  <2>2. CASE v = w
    <3>1. InQueue(q, i) \/ InLog(q, i)
      BY <1>1, <2>1, <2>2 DEF RequestsKept
    <3>2. InQueue(q, i)' \/ InLog(q, i)'
      BY <1>2, <3>1
    <3>. QED BY <3>2
  <2>3. CASE v # w
    <3>1. v \in pending'[r]
      BY <1>1, <2>3 DEF MeshInv, RequestsOK
    <3>. QED BY <2>1, <3>1 DEF IsPending
  <2>. QED BY <2>2, <2>3
<1>. QED BY <1>1, <1>2, <1>3, KeptBy

LEMMA TickKeepsRequests ==
  ASSUME MeshInv, resyncing = {}, RequestsKept, NEW p \in Peers, NEW due, NEW timer, NEW revealed,
         Tick(p, due, timer, revealed)
  PROVE  RequestsKept'
<1>1. processed' = processed /\ actions' = actions /\ undelivered \subseteq undelivered'
  BY DEF Tick
<1>2. ASSUME NEW q \in Peers \ {p}
      PROVE  node'[q] = node[q] /\ queue'[q] = queue[q] /\ pending'[q] = pending[q]
  BY DEF Tick, MeshInv, RequestsOK, LogsOK
<1>3. \A id : /\ InQueue(p, id) \/ InLog(p, id) => InQueue(p, id)' \/ InLog(p, id)'
              /\ IsPending(p, id) =>
                   id \in undelivered' \/ IsPending(p, id)' \/ InQueue(p, id)' \/ InLog(p, id)'
  BY TickKeepsIds
<1>4. ASSUME NEW q \in Peers, NEW id
      PROVE  /\ InQueue(q, id) \/ InLog(q, id) => InQueue(q, id)' \/ InLog(q, id)'
             /\ IsPending(q, id) =>
                  id \in undelivered' \/ IsPending(q, id)' \/ InQueue(q, id)' \/ InLog(q, id)'
  <2>1. CASE q = p
    BY <1>3, <2>1
  <2>2. CASE q # p
    BY <1>2, <2>2 DEF InQueue, InLog, IsPending
  <2>. QED BY <2>1, <2>2
<1>. QED BY <1>1, <1>4, KeptBy

\* A step that only makes a log longer.
LEMMA LongerKeepsRequests ==
  ASSUME MeshInv, RequestsKept, UNCHANGED reqVars, NEW p \in Peers,
         \A id : InLog(p, id) => InLog(p, id)', \A q \in Peers \ {p} : node'[q] = node[q]
  PROVE  RequestsKept'
<1>1. /\ queue' = queue /\ undelivered' = undelivered /\ actions' = actions
      /\ processed' = processed /\ pending' = pending
  BY DEF reqVars
<1>2. ASSUME NEW q \in Peers, NEW id
      PROVE  /\ InQueue(q, id) => InQueue(q, id)'
             /\ InLog(q, id) => InLog(q, id)'
             /\ IsPending(q, id) => IsPending(q, id)'
  <2>1. InLog(q, id) => InLog(q, id)'
    <3>1. CASE q = p
      BY <3>1
    <3>2. CASE q # p
      BY <3>2 DEF InLog
    <3>. QED BY <3>1, <3>2
  <2>. QED BY <1>1, <2>1 DEF InQueue, IsPending
<1>. QED BY <1>1, <1>2, KeptBy

-----------------------------------------------------------------------------
(* A calm mesh stays as it is for as long as it is calm *)

LEMMA StepGrows ==
  ASSUME MeshInv, [Next]_vars
  PROVE  sent \subseteq sent' /\ leftover \subseteq leftover' /\ (losses' = 0 => losses = 0)
<1>0. losses \in Nat
  BY DEF MeshInv, NetOK
<1>1. CASE \E p \in Peers : \E kind \in Kinds : Submit(p, kind)
  BY <1>1 DEF Submit, nodeVars, netVars
<1>2. CASE \E p \in Peers : \E f \in wire : OnRequest(p, f)
  BY <1>2 DEF OnRequest, nodeVars, netVars
<1>3. CASE \E p \in Peers : \E w \in pending[p], q \in Peers : OnAck(p, w, q)
  BY <1>3 DEF OnAck, nodeVars, netVars
<1>4. ASSUME NEW p \in Peers, NEW due, NEW timer, NEW revealed, Tick(p, due, timer, revealed)
      PROVE  sent \subseteq sent' /\ leftover \subseteq leftover' /\ losses' = losses
  BY <1>4 DEF Tick, nodeVars, netVars
<1>5. CASE \E p \in Peers : SeedReady(p)
  BY <1>5 DEF SeedReady, nodeVars, netVars
<1>6. CASE \E p \in Peers : \E e \in sent : Ingest(p, e)
  BY <1>6 DEF Ingest, nodeVars, netVars
<1>7. CASE \E p \in Peers : Crash(p)
  BY <1>0, <1>7 DEF Crash, nodeVars
<1>8. CASE \E p \in Peers : \E q \in Peers, len \in 0 .. MaxEntries : Adopt(p, q, len)
  BY <1>8 DEF Adopt, nodeVars, netVars
<1>9. CASE \E p \in Peers : \E q \in Peers : Miss(p, q) \/ Heartbeat(p, q)
  BY <1>0, <1>9 DEF Miss, Heartbeat, nodeVars
<1>10. CASE UNCHANGED vars
  BY <1>10 DEF vars, nodeVars, netVars
<1>. QED BY <1>1, <1>2, <1>3, <1>4, <1>5, <1>6, <1>7, <1>8, <1>9, <1>10 DEF Next, Beat

LEMMA CalmBefore ==
  ASSUME MeshInv, [Next]_vars, Calm'
  PROVE  Calm
<1>1. sent \subseteq sent' /\ leftover \subseteq leftover' /\ (losses' = 0 => losses = 0)
  BY StepGrows
<1>. QED BY <1>1 DEF Calm, Overrun

LEMMA AllSeenStep ==
  ASSUME MeshInv, AllSeen, [Next]_vars
  PROVE  AllSeen'
<1> SUFFICES ASSUME losses' = 0 PROVE up' = Peers /\ \A p \in Peers : Alive(p)' = Peers
  BY DEF AllSeen
<1>1. losses = 0 /\ up = Peers /\ \A p \in Peers : Alive(p) = Peers
  BY StepGrows DEF AllSeen
<1>2. up' = up /\ sees' = sees
  <2>1. CASE \E p \in Peers : \E kind \in Kinds : Submit(p, kind)
    BY <2>1 DEF Submit, netVars
  <2>2. CASE \E p \in Peers : \E f \in wire : OnRequest(p, f)
    BY <2>2 DEF OnRequest, netVars
  <2>3. CASE \E p \in Peers : \E w \in pending[p], q \in Peers : OnAck(p, w, q)
    BY <2>3 DEF OnAck, netVars
  <2>4. ASSUME NEW p \in Peers, NEW due, NEW timer, NEW revealed, Tick(p, due, timer, revealed)
        PROVE  up' = up /\ sees' = sees
    BY <2>4 DEF Tick, netVars
  <2>5. CASE \E p \in Peers : SeedReady(p)
    BY <2>5 DEF SeedReady, netVars
  <2>6. CASE \E p \in Peers : \E e \in sent : Ingest(p, e)
    BY <2>6 DEF Ingest, netVars
  <2>7. ~ \E p \in Peers : Crash(p)
    BY <1>1 DEF Crash
  <2>8. CASE \E p \in Peers : \E q \in Peers, len \in 0 .. MaxEntries : Adopt(p, q, len)
    BY <2>8 DEF Adopt, netVars
  <2>9. ~ \E p, q \in Peers : Miss(p, q)
    <3> SUFFICES ASSUME NEW p \in Peers, NEW q \in Peers, Miss(p, q) PROVE FALSE
      OBVIOUS
    <3>. QED BY <1>1 DEF Miss
  <2>10. ~ \E p, q \in Peers : Heartbeat(p, q)
    BY <1>1 DEF Heartbeat
  <2>11. CASE UNCHANGED vars
    BY <2>11 DEF vars, netVars
  <2>. QED BY <2>1, <2>2, <2>3, <2>4, <2>5, <2>6, <2>7, <2>8, <2>9, <2>10, <2>11 DEF Next, Beat
<1>. QED BY <1>1, <1>2 DEF Alive

LEMMA CalmStep ==
  ASSUME MeshInv, AllSeen, Calm, CalmInv, MeshInv', Calm', [Next]_vars
  PROVE  CalmInv'
<1>0. resyncing = {} /\ OneLine /\ RoundsOK /\ RequestsKept /\ losses = 0 /\ losses' = 0
  BY DEF CalmInv, Calm
<1>1. ASSUME NEW p \in Peers, NEW kind \in Kinds, Submit(p, kind)
      PROVE  CalmInv'
  <2>1. RequestsKept'
    BY <1>0, <1>1, SubmitKeepsIds
  <2>2. node' = node /\ resyncing' = resyncing /\ round' = round /\ sent' = sent
    BY <1>1 DEF Submit, nodeVars
  <2>. QED BY <1>0, <2>1, <2>2 DEF CalmInv, OneLine, RoundsOK
<1>2. ASSUME NEW p \in Peers, NEW f \in wire, OnRequest(p, f)
      PROVE  CalmInv'
  <2>1. RequestsKept'
    BY <1>0, <1>2, OnRequestKeepsIds
  <2>2. node' = node /\ resyncing' = resyncing /\ round' = round /\ sent' = sent
    BY <1>2 DEF OnRequest, nodeVars
  <2>. QED BY <1>0, <2>1, <2>2 DEF CalmInv, OneLine, RoundsOK
<1>3. ASSUME NEW p \in Peers, NEW w \in pending[p], NEW q \in Peers, OnAck(p, w, q)
      PROVE  CalmInv'
  <2>1. RequestsKept'
    BY <1>0, <1>3, OnAckKeepsIds
  <2>2. node' = node /\ resyncing' = resyncing /\ round' = round /\ sent' = sent
    BY <1>3 DEF OnAck, nodeVars
  <2>. QED BY <1>0, <2>1, <2>2 DEF CalmInv, OneLine, RoundsOK
<1>4. ASSUME NEW p \in Peers, NEW due, NEW timer, NEW revealed, Tick(p, due, timer, revealed)
      PROVE  CalmInv'
  <2>1. OneLine' /\ RoundsOK'
    BY <1>4, TickCalm
  <2>2. RequestsKept'
    BY <1>0, <1>4, TickKeepsRequests
  <2>3. resyncing' = resyncing
    BY <1>4 DEF Tick
  <2>. QED BY <1>0, <2>1, <2>2, <2>3 DEF CalmInv
<1>5. ASSUME NEW p \in Peers, SeedReady(p)
      PROVE  CalmInv'
  <2>1. OneLine' /\ RoundsOK' /\ Extends(node'[p].log, node[p].log, p)
    BY <1>5, SeedReadyCalm
  <2>2. resyncing' = resyncing /\ UNCHANGED reqVars
    BY <1>5 DEF SeedReady
  <2>3. ASSUME NEW q \in Peers \ {p} PROVE node'[q] = node[q]
    BY <1>5 DEF SeedReady, MeshInv, LogsOK
  <2>4. ASSUME NEW id, InLog(p, id) PROVE InLog(p, id)'
    <3> DEFINE l == node[p].log
               k == node'[p].log
    <3>1. IsLog(l) /\ IsLog(k) /\ Extends(k, l, p)
      BY <2>1 DEF MeshInv, LogsOK, Fine
    <3>2. \E i \in DOMAIN l : l[i].id = id
      BY <2>4 DEF InLog
    <3> HIDE DEF l, k
    <3>3. \E i \in DOMAIN k : k[i].id = id
      BY ONLY <3>1, <3>2, LogKeepsIds
    <3>. QED BY <3>3 DEF InLog, k
  <2>5. RequestsKept'
    BY <1>0, <2>2, <2>3, <2>4, LongerKeepsRequests
  <2>. QED BY <1>0, <2>1, <2>2, <2>5 DEF CalmInv
<1>6. ASSUME NEW p \in Peers, NEW e \in sent, Ingest(p, e)
      PROVE  CalmInv'
  <2>1. /\ resyncing' = {} /\ OneLine' /\ RoundsOK'
        /\ node'[p].log = Append(node[p].log, e)
        /\ \A q \in Peers \ {p} : node'[q] = node[q]
    BY <1>0, <1>6, IngestCalm
  <2>2. UNCHANGED reqVars
    BY <1>6 DEF Ingest
  <2>3. ASSUME NEW id, InLog(p, id) PROVE InLog(p, id)'
    <3> DEFINE l == node[p].log
    <3>1. l \in Seq(sent)
      BY <1>0, NodeParts
    <3>2. PICK i \in DOMAIN l : l[i].id = id
      BY <2>3 DEF InLog
    <3> HIDE DEF l
    <3>3. i \in DOMAIN Append(l, e) /\ Append(l, e)[i] = l[i]
      BY <3>1, <3>2
    <3>4. node'[p].log = Append(l, e)
      BY <2>1 DEF l
    <3>. QED BY <3>2, <3>3, <3>4 DEF InLog
  <2>4. RequestsKept'
    BY <1>0, <2>1, <2>2, <2>3, LongerKeepsRequests
  <2>. QED BY <2>1, <2>4 DEF CalmInv
<1>7. ASSUME NEW p \in Peers, Crash(p)
      PROVE  FALSE
  BY <1>0, <1>7 DEF Crash
<1>8. ASSUME NEW p \in Peers, NEW q \in Peers, NEW len \in 0 .. MaxEntries, Adopt(p, q, len)
      PROVE  FALSE
  BY <1>0, <1>8 DEF Adopt
<1>9. ASSUME NEW p \in Peers, NEW q \in Peers, Miss(p, q) \/ Heartbeat(p, q)
      PROVE  CalmInv'
  <2>1. /\ node' = node /\ resyncing' = resyncing /\ round' = round /\ sent' = sent
        /\ UNCHANGED reqVars
    BY <1>9 DEF Miss, Heartbeat, nodeVars
  <2>2. RequestsKept'
    BY <1>0, <2>1 DEF reqVars, RequestsKept, InQueue, InLog, IsPending
  <2>. QED BY <1>0, <2>1, <2>2 DEF CalmInv, OneLine, RoundsOK
<1>10. CASE UNCHANGED vars
  <2>1. /\ node' = node /\ resyncing' = resyncing /\ round' = round /\ sent' = sent
        /\ UNCHANGED reqVars
    BY <1>10 DEF vars, nodeVars
  <2>2. RequestsKept'
    BY <1>0, <2>1 DEF reqVars, RequestsKept, InQueue, InLog, IsPending
  <2>. QED BY <1>0, <2>1, <2>2 DEF CalmInv, OneLine, RoundsOK
<1>. QED BY <1>1, <1>2, <1>3, <1>4, <1>5, <1>6, <1>7, <1>8, <1>9, <1>10 DEF Next, Beat

LEMMA CalmInit ==
  ASSUME Init
  PROVE  AllSeen /\ CalmInv
<1>1. AllSeen
  BY DEF Init, AllSeen, Alive
<1>2. /\ resyncing = {} /\ sent = {} /\ actions = 0
      /\ \A p \in Peers : /\ round[p] = "none" /\ processed[p] = {}
                          /\ node[p].log = <<>>
  <2>1. NewNode.log = <<>>
    BY DEF NewNode
  <2> HIDE DEF NewNode
  <2>. QED BY <2>1 DEF Init
<1>3. OneLine
  BY <1>2, CalmlyNone DEF OneLine
<1>4. RoundsOK
  BY <1>2 DEF RoundsOK
<1>5. RequestsKept
  BY <1>2 DEF RequestsKept
<1>. QED BY <1>1, <1>2, <1>3, <1>4, <1>5 DEF CalmInv

-----------------------------------------------------------------------------
(* The theorems on the calm mesh *)

CalmMeshInv == MeshInv /\ AllSeen /\ (Calm => CalmInv)

\* While nobody is lost, sits out or in or buys in again, nothing is asked of a coordinator whose
\* hand is over, and no round is left over from before a hand (Calm), all peers follow one line
\* of dealers: every entry was numbered by the one peer that the log before it makes the
\* coordinator, and whoever numbered it has it.
THEOREM CalmMeshInvariant == Spec => []CalmMeshInv
<1>1. Init => CalmMeshInv
  BY MeshInit, CalmInit DEF CalmMeshInv
<1>2. CalmMeshInv /\ [Next]_vars => CalmMeshInv'
  <2> SUFFICES ASSUME CalmMeshInv, [Next]_vars PROVE CalmMeshInv'
    OBVIOUS
  <2>1. MeshInv /\ AllSeen
    BY DEF CalmMeshInv
  <2>2. MeshInv' /\ AllSeen'
    BY <2>1, MeshStep, AllSeenStep
  <2>3. ASSUME Calm' PROVE CalmInv'
    <3>1. Calm
      BY <2>1, <2>3, CalmBefore
    <3>2. CalmInv
      BY <3>1 DEF CalmMeshInv
    <3>. QED BY <2>1, <2>2, <2>3, <3>1, <3>2, CalmStep
  <2>. QED BY <2>2, <2>3 DEF CalmMeshInv
<1>. QED BY <1>1, <1>2, PTL DEF Spec

\* No two peers of a calm mesh have different entries in one place of their logs: no input that
\* one peer runs is another at the next, whatever is delayed or lost on the way.
THEOREM OneLogForAll == Spec => []OneLog
<1>1. CalmMeshInv => SamePrefix
  <2> SUFFICES ASSUME CalmMeshInv, Calm, NEW p \in Peers, NEW q \in Peers,
                      NEW i \in DOMAIN node[p].log \cap DOMAIN node[q].log
               PROVE  node[p].log[i] = node[q].log[i]
    BY DEF SamePrefix
  <2>1. MeshInv /\ resyncing = {} /\ OneLine
    BY DEF CalmMeshInv, CalmInv
  <2>2. /\ LogFrom(node[p].log, sent) /\ i \in 1 .. Len(node[p].log)
        /\ LogFrom(node[q].log, sent) /\ i \in 1 .. Len(node[q].log)
    BY <2>1, NodeParts
  <2>3. /\ node[p].log[i] \in sent /\ node[p].log[i].seq = i
        /\ node[q].log[i] \in sent /\ node[q].log[i].seq = i
    BY <2>2 DEF LogFrom
  <2>. QED BY <2>1, <2>3 DEF OneLine
<1>. QED BY <1>1, CalmMeshInvariant, TypeCorrect, PTL DEF OneLog

\* In a calm mesh the coordinator that brought the seed has the button in the hand it deals, so
\* that the peer whose seed shuffles is the dealer everybody sees; or it went broke in the last
\* hand, which its core knew and no view did, and the next seat dealt in has the button.
THEOREM DealersHaveButton == Spec => []DealerHasButton
<1>1. CalmMeshInv => DealerHasButton
  <2> SUFFICES ASSUME CalmMeshInv, Calm, NEW p \in Peers, Running(node[p].core)
               PROVE  LET c == node[p].core IN
                      /\ c.deck[1] \in c.dealt \cup c.broke
                      /\ c.button = FirstAfter(c.deck[1] - 1, c.dealt)
    BY DEF DealerHasButton
  <2>1. MeshInv /\ resyncing = {} /\ OneLine
    BY DEF CalmMeshInv, CalmInv
  <2> DEFINE l == node[p].log
  <2>2. node[p].core = CoreAfter(l) /\ l \in Seq(sent) /\ Calmly(l)
    BY <2>1, NodeParts, FineParts DEF OneLine
  <2>3. PICK O \in SUBSET Seats, b \in Starts : Agreed(CoreAfter(l), Views(l), O, b)
    <3>1. Common(l)
      BY <2>2, CalmlyEnd
    <3>. QED BY <3>1 DEF Common
  <2>. QED BY <2>2, <2>3 DEF Agreed
<1>. QED BY <1>1, CalmMeshInvariant, PTL

\* No action of a player gets lost in a calm mesh: it is with the player, who retries it, in the
\* queue of a coordinator or in the log, unless the player was told that it failed.
THEOREM NoActionLost == Spec => []ActionsKept
<1>1. CalmMeshInv => ActionsKept
  BY DEF CalmMeshInv, CalmInv, RequestsKept, ActionsKept, InQueue, InLog, IsPending
<1>. QED BY <1>1, CalmMeshInvariant, PTL

=============================================================================
