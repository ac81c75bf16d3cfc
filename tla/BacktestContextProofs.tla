----------------------- MODULE BacktestContextProofs ------------------------
(***************************************************************************)
(* Theorems about what a strategy is shown, for any securities, prices,    *)
(* announcements, windows and universes: what was shown stands, the slices *)
(* a factor is computed from give what the whole series would, and the     *)
(* changes of a universe carry its members from one day to another.        *)
(***************************************************************************)
EXTENDS BacktestContext, TLAPS, FiniteSetTheorems, NaturalsInduction, WellFoundedInduction

\* Extremes of sets of numbers
LEMMA Least ==
  ASSUME NEW X, X \subseteq Nat, X # {}
  PROVE  Min(X) \in X /\ \A y \in X : Min(X) <= y
<1> DEFINE Less == {p \in Nat \X Nat : p[1] < p[2]}
<1>1. IsWellFoundedOn(Less, Nat)
  BY NatLessThanWellFounded, Zenon DEF OpToRel
<1> HIDE DEF Less
<1>2. PICK x \in X : \A y \in X : ~(<<y, x>> \in Less)
  BY <1>1, WFMin
<1>3. \A y \in X : ~(y < x)
  BY <1>2 DEF Less
<1>4. \A y \in X : x <= y
  BY <1>3
<1> QED BY <1>4 DEF Min

LEMMA Greatest ==
  ASSUME NEW n \in Nat, NEW X, X \subseteq 0 .. n, X # {}
  PROVE  Max(X) \in X /\ \A y \in X : y <= Max(X)
<1> DEFINE Y == {n - x : x \in X}
<1>1. Y \subseteq Nat /\ Y # {}
  <2>1. \A x \in X : x \in 0 .. n
    OBVIOUS
  <2>2. \A x \in X : n - x \in Nat
    BY <2>1
  <2>3. PICK x \in X : TRUE
    OBVIOUS
  <2>4. n - x \in Y
    OBVIOUS
  <2> QED BY <2>2, <2>4
<1>2. Min(Y) \in Y /\ \A y \in Y : Min(Y) <= y
  <2> HIDE DEF Y
  <2> QED BY <1>1, Least
<1>3. PICK x \in X : Min(Y) = n - x
  BY <1>2
<1>4. \A y \in X : n - x <= n - y
  BY <1>2, <1>3
<1>5. \A y \in X : x >= y
  BY <1>4
<1>6. Max(X) \in X /\ \A y \in X : Max(X) >= y
  <2> HIDE DEF Y
  <2> QED BY <1>5 DEF Max
<1>7. \A y \in X : y \in Nat
  OBVIOUS
<1> QED BY <1>6, <1>7

-----------------------------------------------------------------------------
SpellType == [sid : Securities, from : Days, to : Days \cup {None},
              recorded : 0 .. now, superseded : 0 .. now]

SpellsInv == /\ spells \subseteq SpellType
             /\ IsFiniteSet(spells)
             /\ \A r \in spells : ValidSpell(r)
             /\ NoOverlap(spells)

BarsInv == /\ bars = [s \in Securities |-> bars[s]]
           /\ \A s \in Securities : /\ DOMAIN bars[s] \subseteq 1 .. now
                                    /\ bars[s] = [d \in DOMAIN bars[s] |-> Closes[s][d]]

ActionsInv == actions \subseteq ActionType /\ \A a \in actions : a.available <= now

SeenType == (\E V : seen \in Seq(V)) /\ Len(seen) = now - 1

\* The momentum of a security, once it is decided whether it is computed.
MomentumIf(excluded, s, clock) ==
    WindowReturn(IF excluded THEN <<>> ELSE Sliced(s, clock),
                 IF excluded THEN {} ELSE Relevant(s, clock), clock, clock, "total")

SeenInv ==
    \A clock \in 1 .. now - 1 :
        /\ seen[clock].members = Members(clock, clock)
        /\ seen[clock].price = [s \in Securities |-> Price(s, clock)]
        /\ \A s \in Securities :
              /\ seen[clock].excluded[s] \in BOOLEAN
              /\ seen[clock].momentum[s] = MomentumIf(seen[clock].excluded[s], s, clock)

Inv == now \in 1 .. MaxDay /\ SpellsInv /\ BarsInv /\ ActionsInv /\ SeenType /\ SeenInv

-----------------------------------------------------------------------------
\* A return is computed from the actions that are known.
LEMMA ReturnOfKnown ==
  ASSUME NEW window, NEW A, NEW B, NEW asOf, NEW end, NEW basis,
         Known(A, asOf) = Known(B, asOf)
  PROVE  WindowReturn(window, A, asOf, end, basis) = WindowReturn(window, B, asOf, end, basis)
<1>1. Series(window, A, asOf, basis) = Series(window, B, asOf, basis)
  BY DEF Series
<1>2. Ending(A, asOf) = Ending(B, asOf)
  BY DEF Ending
<1> QED BY <1>1, <1>2 DEF WindowReturn

\* Bars of a later day show in nothing of an earlier one.
LEMMA BarsStand ==
  ASSUME Inv, NextDay, NEW s \in Securities, NEW clock \in 1 .. now
  PROVE  /\ Sliced(s, clock)' = Sliced(s, clock)
         /\ Price(s, clock)' = Price(s, clock)
<1>1. now \in Nat /\ now' = now + 1 /\ clock \in Nat /\ clock <= now
  BY UniverseAssumption DEF Inv, NextDay
<1>2. PICK D : bars'[s] = [d \in D |-> Closes[s][d]]
               /\ DOMAIN bars[s] \subseteq D /\ D \subseteq DOMAIN bars[s] \cup {now'}
  BY DEF NextDay
<1>3. \A d \in DOMAIN bars[s] : d \in Nat /\ d <= now /\ bars[s][d] = Closes[s][d]
  BY <1>1 DEF Inv, BarsInv
<1>4. {d \in DOMAIN bars'[s] : d <= clock} = {d \in DOMAIN bars[s] : d <= clock}
  BY <1>1, <1>2, <1>3
<1>5. \A d \in DOMAIN bars[s] : bars'[s][d] = bars[s][d]
  BY <1>2, <1>3
<1>6. \A start : {d \in DOMAIN bars'[s] : start <= d /\ d <= clock}
                   = {d \in DOMAIN bars[s] : start <= d /\ d <= clock}
  BY <1>4
<1>7. Sliced(s, clock)' = Sliced(s, clock)
  BY <1>5, <1>6 DEF Sliced, BarsFor, Restrict
<1>8. Price(s, clock)' = Price(s, clock)
  <2> DEFINE last == {d \in DOMAIN bars[s] : d <= clock}
  <2>1. last \subseteq 0 .. now
    BY <1>3
  <2> HIDE DEF last
  <2>2. last # {} => Max(last) \in last
    BY <1>1, <2>1, Greatest
  <2> QED BY <1>4, <1>5, <2>2 DEF Price, last
<1> QED BY <1>7, <1>8

LEMMA NextDayShows ==
  ASSUME Inv, NextDay, NEW clock \in 1 .. now
  PROVE  /\ Members(clock, clock)' = Members(clock, clock)
         /\ \A s \in Securities :
               /\ Price(s, clock)' = Price(s, clock)
               /\ Excluded(s, clock)' = Excluded(s, clock)
               /\ \A e \in BOOLEAN : MomentumIf(e, s, clock)' = MomentumIf(e, s, clock)
<1>1. spells' = spells /\ actions' = actions
  BY DEF NextDay
<1>2. Members(clock, clock)' = Members(clock, clock)
  BY <1>1 DEF Members, Covered, First, VisibleAsOf
<1>3. ASSUME NEW s \in Securities
      PROVE  /\ Price(s, clock)' = Price(s, clock)
             /\ Sliced(s, clock)' = Sliced(s, clock)
             /\ Relevant(s, clock)' = Relevant(s, clock)
  <2>1. Price(s, clock)' = Price(s, clock) /\ Sliced(s, clock)' = Sliced(s, clock)
    BY BarsStand
  <2> QED BY <1>1, <2>1 DEF Relevant, ActionsOf
<1> QED BY <1>2, <1>3 DEF Excluded, MomentumIf

\* What is learned today was not known on a day before.
LEMMA PublishShows ==
  ASSUME Inv, Publish, NEW clock \in 1 .. now - 1
  PROVE  /\ Members(clock, clock)' = Members(clock, clock)
         /\ \A s \in Securities :
               /\ Price(s, clock)' = Price(s, clock)
               /\ \A e \in BOOLEAN : MomentumIf(e, s, clock)' = MomentumIf(e, s, clock)
<1>1. spells' = spells /\ bars' = bars
  BY DEF Publish
<1>2. Members(clock, clock)' = Members(clock, clock)
  BY <1>1 DEF Members, Covered, First, VisibleAsOf
<1>3. PICK x : x.available = now /\ actions' = actions \cup {x}
  <2>1. PICK a \in Announcements : actions' = actions \cup {[a EXCEPT !.available = now]}
    BY DEF Publish
  <2>2. [a EXCEPT !.available = now].available = now
    BY ContextAssumption DEF ActionType
  <2> QED BY <2>1, <2>2
<1>4. now \in Int /\ clock \in Int /\ ~(now <= clock)
  BY UniverseAssumption DEF Inv
<1>5. ASSUME NEW s \in Securities, NEW e \in BOOLEAN
      PROVE  /\ Price(s, clock)' = Price(s, clock)
             /\ MomentumIf(e, s, clock)' = MomentumIf(e, s, clock)
  <2>1. Price(s, clock)' = Price(s, clock) /\ Sliced(s, clock)' = Sliced(s, clock)
    BY <1>1 DEF Price, Sliced, BarsFor
  <2>2. Known(Relevant(s, clock)', clock) = Known(Relevant(s, clock), clock)
    BY <1>3, <1>4, <2>1 DEF Relevant, ActionsOf, Known
  <2>3. ASSUME NEW window
        PROVE  WindowReturn(window, Relevant(s, clock)', clock, clock, "total")
                 = WindowReturn(window, Relevant(s, clock), clock, clock, "total")
    BY <2>2, ReturnOfKnown
  <2> QED BY <2>1, <2>3 DEF MomentumIf
<1> QED BY <1>2, <1>5

\* The same records, but for what is known of them, give the same members.
SameSpells(V, W) ==
    /\ \A r \in V : \E q \in W : q.sid = r.sid /\ q.from = r.from /\ q.to = r.to
    /\ \A q \in W : \E r \in V : q.sid = r.sid /\ q.from = r.from /\ q.to = r.to

FirstDays(V) == {r.from : r \in V}

CoveringSids(V, on) == {r.sid : r \in {q \in V : Covers(q, on)}}

LEMMA MembersOfSame ==
  ASSUME NEW V, NEW W, SameSpells(V, W), NEW on
  PROVE  /\ V = {} <=> W = {}
         /\ FirstDays(V) = FirstDays(W)
         /\ CoveringSids(V, on) = CoveringSids(W, on)
<1>1. V = {} <=> W = {}
  BY DEF SameSpells
<1>2. {r.from : r \in V} = {r.from : r \in W}
  BY DEF SameSpells
<1>3. ASSUME NEW x \in {r.sid : r \in {q \in V : Covers(q, on)}}
      PROVE  x \in {r.sid : r \in {q \in W : Covers(q, on)}}
  <2>1. PICK r \in V : Covers(r, on) /\ x = r.sid
    OBVIOUS
  <2>2. PICK q \in W : q.sid = r.sid /\ q.from = r.from /\ q.to = r.to
    BY DEF SameSpells
  <2>3. Covers(q, on)
    BY <2>1, <2>2 DEF Covers
  <2> QED BY <2>1, <2>2, <2>3
<1>4. ASSUME NEW x \in {r.sid : r \in {q \in W : Covers(q, on)}}
      PROVE  x \in {r.sid : r \in {q \in V : Covers(q, on)}}
  <2>1. PICK r \in W : Covers(r, on) /\ x = r.sid
    OBVIOUS
  <2>2. PICK q \in V : r.sid = q.sid /\ r.from = q.from /\ r.to = q.to
    BY DEF SameSpells
  <2>3. Covers(q, on)
    BY <2>1, <2>2 DEF Covers
  <2> QED BY <2>1, <2>2, <2>3
<1> QED BY <1>1, <1>2, <1>3, <1>4 DEF FirstDays, CoveringSids

\* Learning of a spell keeps what a day before knows.
LEMMA JoinKnown ==
  ASSUME Inv, NEW s \in Securities, NEW day \in Days, Join(s, day), NEW clock \in 1 .. now - 1
  PROVE  SameSpells(VisibleAsOf(clock), VisibleAsOf(clock)')
<1>1. PICK r : r.recorded = now /\ spells' = spells \cup {r}
  BY DEF Join, WriteUniverse
<1>2. ~(now <= clock)
  BY UniverseAssumption DEF Inv
<1>3. VisibleAsOf(clock)' = VisibleAsOf(clock)
  BY <1>1, <1>2 DEF VisibleAsOf
<1> QED BY <1>3 DEF SameSpells

\* The spell that is open, and what remains and replaces it when it is closed
Open(s) == {r \in spells : IsCurrent(r) /\ r.sid = s /\ r.to = None}

LEMMA LeaveRows ==
  ASSUME Inv, NEW s \in Securities, NEW on \in Days, Leave(s, on)
  PROVE  /\ spells' = (spells \ Open(s)) \cup UNION {Closed(r, on) : r \in Open(s)}
         /\ \A r \in spells' : ValidSpell(r)
         /\ NoOverlap(spells')
  BY DEF Leave, WriteUniverse, Open

LEMMA ClosedRows ==
  ASSUME Inv, NEW on \in Days, NEW r \in spells
  PROVE  /\ \A q \in Closed(r, on) : q \in SpellType
         /\ Closed(r, on) = {[r EXCEPT !.superseded = now], [r EXCEPT !.to = on, !.recorded = now]}
         /\ [r EXCEPT !.superseded = now].sid = r.sid
         /\ [r EXCEPT !.superseded = now].from = r.from
         /\ [r EXCEPT !.superseded = now].to = r.to
         /\ [r EXCEPT !.superseded = now].recorded = r.recorded
         /\ [r EXCEPT !.superseded = now].superseded = now
         /\ [r EXCEPT !.to = on, !.recorded = now].recorded = now
<1>1. r \in SpellType /\ now \in 0 .. now /\ on \in Days \cup {None}
  BY UniverseAssumption DEF Inv, SpellsInv
<1>2. [r EXCEPT !.superseded = now]
        = [sid |-> r.sid, from |-> r.from, to |-> r.to, recorded |-> r.recorded,
           superseded |-> now]
  BY <1>1 DEF SpellType
<1>3. [r EXCEPT !.to = on, !.recorded = now]
        = [sid |-> r.sid, from |-> r.from, to |-> on, recorded |-> now,
           superseded |-> r.superseded]
  <2> DEFINE q == [r EXCEPT !.to = on]
  <2>1. /\ q \in SpellType
        /\ q.sid = r.sid /\ q.from = r.from /\ q.to = on /\ q.superseded = r.superseded
    BY <1>1 DEF SpellType
  <2> HIDE DEF q
  <2>2. [q EXCEPT !.recorded = now]
          = [sid |-> r.sid, from |-> r.from, to |-> on, recorded |-> now,
             superseded |-> r.superseded]
    BY <2>1 DEF SpellType
  <2> QED BY <2>2 DEF q
<1>4. /\ r.sid \in Securities /\ r.from \in Days /\ r.to \in Days \cup {None}
      /\ r.recorded \in 0 .. now /\ r.superseded \in 0 .. now
  BY <1>1 DEF SpellType
<1>5. \A q \in Closed(r, on) : q \in SpellType
  BY <1>1, <1>2, <1>3, <1>4 DEF Closed, SpellType
<1> QED BY <1>2, <1>3, <1>5 DEF Closed

LEMMA LeaveKnown ==
  ASSUME Inv, NEW s \in Securities, NEW on \in Days, Leave(s, on), NEW clock \in 1 .. now - 1
  PROVE  SameSpells(VisibleAsOf(clock), VisibleAsOf(clock)')
<1> DEFINE V == VisibleAsOf(clock)
           W == VisibleAsOf(clock)'
<1>1. ~(now <= clock) /\ now > clock /\ now # None
  BY UniverseAssumption DEF Inv, None
<1>2. W = {r \in spells' : r.recorded <= clock /\ (r.superseded = None \/ r.superseded > clock)}
  BY DEF VisibleAsOf
<1>3. ASSUME NEW r \in V PROVE \E q \in W : q.sid = r.sid /\ q.from = r.from /\ q.to = r.to
  <2>1. CASE r \in Open(s)
    <3> DEFINE q == [r EXCEPT !.superseded = now]
    <3>1. q \in Closed(r, on)
      BY DEF Closed
    <3>2. q \in spells'
      BY <2>1, <3>1, LeaveRows
    <3>3. /\ q.sid = r.sid /\ q.from = r.from /\ q.to = r.to
          /\ q.recorded = r.recorded /\ q.superseded = now
      BY <2>1, ClosedRows DEF Open
    <3>4. r.recorded <= clock
      BY DEF VisibleAsOf
    <3> HIDE DEF q
    <3>5. q \in W
      BY <1>1, <1>2, <3>2, <3>3, <3>4
    <3> QED BY <3>3, <3>5
  <2>2. CASE r \notin Open(s)
    <3>1. r \in spells'
      BY <2>2, LeaveRows DEF VisibleAsOf
    <3>2. r \in W
      BY <1>2, <3>1 DEF VisibleAsOf
    <3> QED BY <3>2
  <2> QED BY <2>1, <2>2
<1>4. ASSUME NEW q \in W PROVE \E r \in V : q.sid = r.sid /\ q.from = r.from /\ q.to = r.to
  <2>1. CASE q \in spells
    BY <1>2, <2>1 DEF VisibleAsOf
  <2>2. CASE q \notin spells
    <3>1. PICK r \in Open(s) : q \in Closed(r, on)
      BY <1>2, <2>2, LeaveRows
    <3>2. r \in spells /\ IsCurrent(r)
      BY DEF Open
    <3>3. q = [r EXCEPT !.superseded = now]
      <4>1. q.recorded <= clock
        BY <1>2
      <4>2. q # [r EXCEPT !.to = on, !.recorded = now]
        BY <1>1, <3>2, <4>1, ClosedRows
      <4> QED BY <3>1, <4>2 DEF Closed
    <3>4. /\ q.sid = r.sid /\ q.from = r.from /\ q.to = r.to /\ q.recorded = r.recorded
      BY <3>2, <3>3, ClosedRows
    <3>5. r \in V
      BY <1>2, <3>2, <3>4 DEF VisibleAsOf, IsCurrent
    <3> QED BY <3>4, <3>5
  <2> QED BY <2>1, <2>2
<1> QED BY <1>3, <1>4 DEF SameSpells

LEMMA LearnShows ==
  ASSUME Inv, Learn, NEW clock \in 1 .. now - 1
  PROVE  /\ Members(clock, clock)' = Members(clock, clock)
         /\ \A s \in Securities :
               /\ Price(s, clock)' = Price(s, clock)
               /\ \A e \in BOOLEAN : MomentumIf(e, s, clock)' = MomentumIf(e, s, clock)
<1>1. bars' = bars /\ actions' = actions
  BY DEF Learn
<1>2. PICK s \in Securities, day \in Days : Join(s, day) \/ Leave(s, day)
  BY DEF Learn
<1>3. SameSpells(VisibleAsOf(clock), VisibleAsOf(clock)')
  BY <1>2, JoinKnown, LeaveKnown
<1> DEFINE before == VisibleAsOf(clock)
           after == VisibleAsOf(clock)'
<1>4. Members(clock, clock)' = Members(clock, clock)
  <2>1. /\ before = {} <=> after = {}
        /\ FirstDays(before) = FirstDays(after)
        /\ CoveringSids(before, clock) = CoveringSids(after, clock)
    <3> HIDE DEF before, after
    <3>1. SameSpells(before, after)
      BY <1>3 DEF before, after
    <3> QED BY ONLY <3>1, MembersOfSame
  <2>2. Covered(clock, clock) = (before # {} /\ Min(FirstDays(before)) <= clock)
    BY DEF Covered, First, FirstDays
  <2>3. Covered(clock, clock)' = (after # {} /\ Min(FirstDays(after)) <= clock)
    BY DEF Covered, First, FirstDays
  <2>4. Covered(clock, clock)' = Covered(clock, clock)
    BY <2>1, <2>2, <2>3
  <2> QED BY <2>1, <2>4 DEF Members, CoveringSids
<1>5. \A s_1 \in Securities : Price(s_1, clock)' = Price(s_1, clock)
  BY <1>1 DEF Price
<1>6. \A s_1 \in Securities, e \in BOOLEAN : MomentumIf(e, s_1, clock)' = MomentumIf(e, s_1, clock)
  BY <1>1 DEF MomentumIf, Relevant, ActionsOf, Sliced, BarsFor
<1> QED BY <1>4, <1>5, <1>6

-----------------------------------------------------------------------------
\* The last of the elements of a set, in the order of their keys
LEMMA LastKey ==
  ASSUME NEW X, IsFiniteSet(X), X # {}, NEW key, \A x \in X : key[x] \in Nat
  PROVE  \E x \in X : \A y \in X : key[y] <= key[x]
<1> DEFINE Keys == {key[x] : x \in X}
<1>1. IsFiniteSet(Keys)
  <2> DEFINE f == [x \in X |-> key[x]]
  <2>1. f \in Surjection(X, Keys)
    BY DEF Surjection
  <2> HIDE DEF f, Keys
  <2> QED BY <2>1, FS_Surjection
<1>2. PICK n \in Nat : \A k \in Keys : k <= n
  <2> DEFINE Unbounded == {m \in Nat : \E Z : /\ IsFiniteSet(Z) /\ Cardinality(Z) = m /\ Z \subseteq Nat
                                              /\ ~ \E n \in Nat : \A k \in Z : k <= n}
  <2>1. Unbounded = {}
    <3> SUFFICES ASSUME Unbounded # {} PROVE FALSE
      OBVIOUS
    <3>1. Min(Unbounded) \in Unbounded /\ \A y \in Unbounded : Min(Unbounded) <= y
      <4>1. Unbounded \subseteq Nat
        OBVIOUS
      <4> HIDE DEF Unbounded
      <4> QED BY <4>1, Least
    <3> DEFINE m == Min(Unbounded)
    <3>2. m \in Nat /\ \A y \in Unbounded : m <= y
      BY <3>1
    <3>3. PICK Z : /\ IsFiniteSet(Z) /\ Cardinality(Z) = m /\ Z \subseteq Nat
                   /\ ~ \E n \in Nat : \A k \in Z : k <= n
      BY <3>1
    <3> HIDE DEF m
    <3>4. Z # {}
      BY <3>3
    <3>5. PICK z \in Z : TRUE
      BY <3>4
    <3>6. IsFiniteSet(Z \ {z}) /\ Cardinality(Z \ {z}) = m - 1
      BY <3>3, FS_RemoveElement
    <3>7. m - 1 \in Nat
      BY <3>6, FS_CardinalityType
    <3>8. m - 1 \notin Unbounded
      <4> HIDE DEF Unbounded
      <4> QED BY <3>2, <3>7
    <3>9. PICK b \in Nat : \A k \in Z \ {z} : k <= b
      BY <3>3, <3>6, <3>7, <3>8
    <3>10. PICK c \in Nat : b <= c /\ z <= c
      BY <3>3
    <3>11. \A k \in Z : k <= c
      BY <3>3, <3>9, <3>10
    <3> QED BY <3>3, <3>11
  <2>2. Keys \subseteq Nat
    OBVIOUS
  <2>3. Cardinality(Keys) \in Nat
    BY <1>1, FS_CardinalityType
  <2> HIDE DEF Keys
  <2>4. Cardinality(Keys) \notin Unbounded
    BY <2>1
  <2> QED BY <1>1, <2>2, <2>3, <2>4
<1>3. Keys \subseteq 0 .. n /\ Keys # {}
  BY <1>2
<1>4. Max(Keys) \in Keys /\ \A k \in Keys : k <= Max(Keys)
  <2> HIDE DEF Keys
  <2> QED BY <1>3, Greatest
<1> QED BY <1>4

IsSorted(rows, X, key) ==
    /\ rows \in [1 .. Cardinality(X) -> X]
    /\ IsInjective(rows)
    /\ \A i, j \in DOMAIN rows : i < j => key[rows[i]] <= key[rows[j]]

LEMMA LastAppended ==
  ASSUME NEW X, IsFiniteSet(X), NEW key, \A y \in X : key[y] \in Nat,
         NEW x \in X, \A y \in X : key[y] <= key[x],
         NEW rows, IsSorted(rows, X \ {x}, key)
  PROVE  \E all : IsSorted(all, X, key)
<1> DEFINE n == Cardinality(X)
           all == [i \in 1 .. n |-> IF i = n THEN x ELSE rows[i]]
<1>1. n \in Nat /\ n # 0 /\ Cardinality(X \ {x}) = n - 1
  BY FS_CardinalityType, FS_EmptySet, FS_RemoveElement
<1>2. rows \in [1 .. n - 1 -> X \ {x}]
  BY <1>1 DEF IsSorted
<1> HIDE DEF n
<1>3. DOMAIN all = 1 .. n /\ all[n] = x /\ \A i \in 1 .. n : i # n => all[i] = rows[i] /\ i \in 1 .. n - 1
  BY <1>1
<1>4. \A i \in 1 .. n : i # n => all[i] \in X /\ all[i] # x
  BY <1>2, <1>3
<1>5. all \in [1 .. n -> X]
  BY <1>3, <1>4
<1>6. \A i, j \in 1 .. n - 1 : rows[i] = rows[j] => i = j
  BY <1>2 DEF IsSorted, IsInjective
<1>7. \A i, j \in 1 .. n - 1 : i < j => key[rows[i]] <= key[rows[j]]
  BY <1>2 DEF IsSorted
<1> HIDE DEF all
<1>8. IsInjective(all)
  BY <1>3, <1>4, <1>6 DEF IsInjective
<1>9. \A i, j \in 1 .. n : i < j => key[all[i]] <= key[all[j]]
  <2> SUFFICES ASSUME NEW i \in 1 .. n, NEW j \in 1 .. n, i < j
               PROVE  key[all[i]] <= key[all[j]]
    OBVIOUS
  <2>1. i # n
    BY <1>1
  <2>2. CASE j = n
    BY <1>3, <1>4, <2>1, <2>2
  <2>3. CASE j # n
    BY <1>3, <1>7, <2>1, <2>3
  <2> QED BY <2>2, <2>3
<1> QED BY <1>3, <1>5, <1>8, <1>9 DEF IsSorted, n

\* A finite set has an enumeration in the order of its keys.
LEMMA SortedExists ==
  ASSUME NEW X, IsFiniteSet(X), NEW key, \A x \in X : key[x] \in Nat
  PROVE  IsSorted(Sorted(X, key), X, key)
<1> DEFINE Unsorted(m) == \E Z : /\ IsFiniteSet(Z) /\ Cardinality(Z) = m /\ Z \subseteq X
                                 /\ ~ \E rows : IsSorted(rows, Z, key)
           Bad == {m \in Nat : Unsorted(m)}
<1>1. Bad = {}
  <2> SUFFICES ASSUME Bad # {} PROVE FALSE
    OBVIOUS
  <2> DEFINE m == Min(Bad)
  <2>1. m \in Bad /\ \A y \in Bad : m <= y
    <3>1. Bad \subseteq Nat
      OBVIOUS
    <3> HIDE DEF Bad
    <3> QED BY <3>1, Least
  <2>2. m \in Nat /\ \A y \in Bad : m <= y
    BY <2>1
  <2>3. PICK Z : /\ IsFiniteSet(Z) /\ Cardinality(Z) = m /\ Z \subseteq X
                 /\ ~ \E rows : IsSorted(rows, Z, key)
    BY <2>1
  <2> HIDE DEF m
  <2>4. Z # {}
    <3> SUFFICES ASSUME Z = {} PROVE FALSE
      OBVIOUS
    <3>1. 1 .. Cardinality(Z) = {}
      BY FS_EmptySet
    <3> DEFINE none == [i \in {} |-> i]
    <3>2. none \in [1 .. Cardinality(Z) -> Z] /\ DOMAIN none = {}
      BY <3>1
    <3>3. IsSorted(none, Z, key)
      <4> HIDE DEF none
      <4> QED BY <3>2 DEF IsSorted, IsInjective
    <3> QED BY <2>3, <3>3
  <2>5. PICK z \in Z : \A y \in Z : key[y] <= key[z]
    BY <2>3, <2>4, LastKey
  <2>6. IsFiniteSet(Z \ {z}) /\ Cardinality(Z \ {z}) = m - 1
    BY <2>3, FS_RemoveElement
  <2>7. m - 1 \in Nat /\ m - 1 \notin Bad
    <3>1. m - 1 \in Nat
      BY <2>6, FS_CardinalityType
    <3> HIDE DEF Bad
    <3> QED BY <2>2, <3>1
  <2>8. PICK rows : IsSorted(rows, Z \ {z}, key)
    BY <2>3, <2>6, <2>7
  <2>9. \A y \in Z : key[y] \in Nat
    BY <2>3
  <2>10. \E all : IsSorted(all, Z, key)
    BY <2>3, <2>5, <2>8, <2>9, LastAppended
  <2> QED BY <2>3, <2>10
<1>2. Cardinality(X) \in Nat
  BY FS_CardinalityType
<1>3. \E rows : IsSorted(rows, X, key)
  BY <1>1, <1>2
<1>4. Sorted(X, key) = CHOOSE rows : IsSorted(rows, X, key)
  BY DEF Sorted, IsSorted
<1> QED BY <1>3, <1>4

\* It leaves nothing out.
LEMMA SortedAll ==
  ASSUME NEW X, IsFiniteSet(X), NEW rows, NEW key, IsSorted(rows, X, key)
  PROVE  \A x \in X : \E i \in 1 .. Cardinality(X) : rows[i] = x
<1> DEFINE n == Cardinality(X)
<1>1. n \in Nat
  BY FS_CardinalityType
<1>2. IsFiniteSet(1 .. n) /\ Cardinality(1 .. n) = n
  BY <1>1, FS_Interval
<1>3. rows \in Injection(1 .. n, X)
  BY DEF IsSorted, IsInjective, Injection
<1>4. rows \in Surjection(1 .. n, X)
  BY <1>2, <1>3, FS_Injection
<1> QED BY <1>4 DEF Surjection

\* check_memberships: no two current spells of a security overlap.
LEMMA NoOverlapMeans ==
  ASSUME NEW records, IsFiniteSet(records), records \subseteq SpellType, now \in Nat,
         \A r \in records : ValidSpell(r), NoOverlap(records), NEW r1 \in records, NEW r2 \in records,
         r1.sid = r2.sid, IsCurrent(r1), IsCurrent(r2), r1 # r2
  PROVE  ~RangesOverlap(r1, r2)
<1> DEFINE s == r1.sid
           current == {r \in records : r.sid = s /\ IsCurrent(r)}
           key == [r \in current |-> r.from]
           rows == Sorted(current, key)
           n == Cardinality(current)
<1>1. s \in Securities
  BY DEF SpellType
<1>2. FirstOverlap(rows) = <<>>
  BY <1>1 DEF NoOverlap
<1>3. IsFiniteSet(current)
  BY FS_Subset
<1>4. \A r \in current : /\ r.from \in Nat /\ r.to \in Nat
                         /\ r.to # None => r.from < r.to
                         /\ key[r] = r.from
  BY DEF SpellType, Days, None, ValidSpell
<1>5. n \in Nat
  BY <1>3, FS_CardinalityType
<1>6. IsSorted(rows, current, key)
  <2>1. \A x \in current : key[x] \in Nat
    BY <1>4
  <2> HIDE DEF current, key
  <2> QED BY <1>3, <2>1, SortedExists
<1>7. PICK i \in 1 .. n, j \in 1 .. n : rows[i] = r1 /\ rows[j] = r2
  <2>1. r1 \in current /\ r2 \in current
    OBVIOUS
  <2> HIDE DEF current, key, rows
  <2> QED BY <1>3, <1>6, <2>1, SortedAll
<1> HIDE DEF rows
<1>8. DOMAIN rows = 1 .. n /\ \A k \in 1 .. n : rows[k] \in current
  BY <1>6 DEF IsSorted
<1>9. \A k, l \in 1 .. n : k < l => rows[k].from <= rows[l].from
  <2>1. \A k, l \in 1 .. n : k < l => key[rows[k]] <= key[rows[l]]
    BY <1>6, <1>8 DEF IsSorted
  <2> HIDE DEF current, key
  <2> QED BY <1>4, <1>8, <2>1
<1>10. \A k \in 1 .. n : rows[k].from \in Nat /\ rows[k].to \in Nat
  BY <1>4, <1>8
<1> HIDE DEF n
<1>11. \A k, l \in 1 .. n : Before(rows, k, l) <=> k < l
  BY <1>9, <1>10 DEF Before
<1>12. Hits(rows) = {}
  <2> SUFFICES ASSUME Hits(rows) # {} PROVE FALSE
    OBVIOUS
  <2> DEFINE Firsts == {p[1] : p \in Hits(rows)}
  <2>1. \A p \in Hits(rows) : /\ p = <<p[1], p[2]>> /\ p[1] \in 1 .. n /\ p[2] \in 1 .. n
                              /\ Adjacent(rows, p[1], p[2])
    BY <1>8 DEF Hits
  <2>2. Firsts \subseteq Nat /\ Firsts # {}
    BY <2>1
  <2>3. Min(Firsts) \in Firsts /\ \A y \in Firsts : Min(Firsts) <= y
    <3> HIDE DEF Firsts
    <3> QED BY <2>2, Least
  <2>4. PICK p \in Hits(rows) : p[1] = Min(Firsts)
    BY <2>3
  <2>5. ASSUME NEW q \in Hits(rows), q # p PROVE Before(rows, p[1], q[1])
    <3>1. p[1] <= q[1] /\ p[1] \in 1 .. n /\ q[1] \in 1 .. n
      BY <2>1, <2>3, <2>4
    <3>2. CASE p[1] = q[1]
      <4>1. ~(p[2] < q[2]) /\ ~(q[2] < p[2])
        BY <1>8, <1>11, <2>1, <3>2 DEF Adjacent
      <4>2. p[2] = q[2]
        BY <2>1, <4>1
      <4> QED BY <2>1, <2>5, <3>2, <4>2
    <3>3. CASE p[1] # q[1]
      BY <1>11, <3>1, <3>3
    <3> QED BY <3>2, <3>3
  <2>6. FirstOverlap(rows) \in Hits(rows)
    BY <2>5 DEF FirstOverlap
  <2> QED BY <1>2, <2>1, <2>6
<1>13. \A k \in 1 .. n : k + 1 \in 1 .. n => rows[k].to # None /\ rows[k].to <= rows[k + 1].from
  <2> SUFFICES ASSUME NEW k \in 1 .. n, k + 1 \in 1 .. n
               PROVE  rows[k].to # None /\ rows[k].to <= rows[k + 1].from
    OBVIOUS
  <2>1. Adjacent(rows, k, k + 1)
    BY <1>8, <1>11 DEF Adjacent
  <2>2. <<k, k + 1>> \notin Hits(rows)
    BY <1>12
  <2>3. ~(rows[k].to = None \/ rows[k + 1].from < rows[k].to)
    BY <1>8, <2>1, <2>2 DEF Hits
  <2> QED BY <1>10, <2>3
<1>14. \A k, l \in 1 .. n : k < l => rows[k].to # None /\ rows[k].to <= rows[l].from
  <2> SUFFICES ASSUME NEW k \in 1 .. n, NEW l \in 1 .. n, k < l
               PROVE  rows[k].to # None /\ rows[k].to <= rows[l].from
    OBVIOUS
  <2>1. k + 1 \in 1 .. n /\ (k + 1 = l \/ k + 1 < l)
    BY <1>5
  <2>2. rows[k].to # None /\ rows[k].to <= rows[k + 1].from
    BY <1>13, <2>1
  <2>3. rows[k + 1].from <= rows[l].from
    BY <1>9, <1>10, <2>1
  <2> QED BY <1>10, <2>1, <2>2, <2>3
<1>15. i < j \/ j < i
  BY <1>5, <1>7
<1> QED BY <1>7, <1>14, <1>15 DEF RangesOverlap

\* A spell of its own overlaps with none.
LEMMA SingleSpells ==
  ASSUME NEW records, \A r \in records : r.from \in Nat,
         \A s \in Securities : \A r, q \in records : r.sid = s /\ q.sid = s => r = q
  PROVE  NoOverlap(records)
<1> SUFFICES ASSUME NEW s \in Securities
             PROVE  LET current == {r \in records : r.sid = s /\ IsCurrent(r)}
                    IN  FirstOverlap(Sorted(current, [r \in current |-> r.from])) = <<>>
  BY DEF NoOverlap
<1> DEFINE current == {r \in records : r.sid = s /\ IsCurrent(r)}
           key == [r \in current |-> r.from]
           rows == Sorted(current, key)
<1>1. IsFiniteSet(current) /\ Cardinality(current) \in {0, 1}
  <2>1. CASE current = {}
    BY <2>1, FS_EmptySet
  <2>2. CASE current # {}
    <3>1. PICK x : current = {x}
      BY <2>2
    <3> HIDE DEF current
    <3> QED BY <3>1, FS_Singleton
  <2> QED BY <2>1, <2>2
<1>2. \A r \in current : r.from \in Nat /\ key[r] \in Nat
  OBVIOUS
<1>3. IsSorted(rows, current, key)
  <2> HIDE DEF current, key
  <2> QED BY <1>1, <1>2, SortedExists
<1> HIDE DEF rows
<1>4. DOMAIN rows \subseteq {1} /\ \A i \in DOMAIN rows : rows[i].from \in Nat
  <2> HIDE DEF current, key
  <2> QED BY <1>1, <1>2, <1>3 DEF IsSorted
<1>5. \A p \in Hits(rows) : 1 \in DOMAIN rows /\ Before(rows, 1, 1)
  BY <1>4 DEF Hits, Adjacent
<1>6. Hits(rows) = {}
  BY <1>4, <1>5 DEF Before
<1>7. FirstOverlap(rows) = <<>>
  BY <1>6 DEF FirstOverlap
<1> QED BY <1>7 DEF rows

-----------------------------------------------------------------------------
LEMMA InitInv == Init => Inv
<1> SUFFICES ASSUME Init PROVE Inv
  OBVIOUS
<1>1. now = 1 /\ now \in 1 .. MaxDay
  BY UniverseAssumption DEF Init
<1>2. SpellsInv
  <2>1. PICK sids \in SUBSET Founders :
          spells = {[sid |-> x, from |-> 1, to |-> None, recorded |-> None, superseded |-> None] :
                      x \in sids}
    BY DEF Init
  <2>2. \A r \in spells : /\ r.sid \in sids /\ r.from = 1 /\ r.to = None
                          /\ r.recorded = None /\ r.superseded = None
                          /\ r = [sid |-> r.sid, from |-> 1, to |-> None, recorded |-> None,
                                  superseded |-> None]
    BY <2>1
  <2>3. spells \subseteq SpellType
    BY <1>1, <2>1, UniverseAssumption, ContextAssumption DEF SpellType, Days, None
  <2>4. IsFiniteSet(spells)
    <3>1. IsFiniteSet(sids)
      BY ContextAssumption, FS_Subset
    <3> DEFINE f == [x \in sids |-> [sid |-> x, from |-> 1, to |-> None, recorded |-> None,
                                     superseded |-> None]]
    <3>2. f \in Surjection(sids, spells)
      BY <2>1 DEF Surjection
    <3> HIDE DEF f
    <3> QED BY <3>1, <3>2, FS_Surjection
  <2>5. \A r \in spells : ValidSpell(r)
    BY <2>2 DEF ValidSpell, None
  <2>6. \A s \in Securities : \A r, q \in spells : r.sid = s /\ q.sid = s => r = q
    BY <2>2
  <2>7. NoOverlap(spells)
    BY <2>2, <2>6, SingleSpells
  <2> QED BY <2>3, <2>4, <2>5, <2>7 DEF SpellsInv
<1>3. BarsInv
  <2>1. PICK printing \in SUBSET Securities :
          bars = [s \in Securities |-> [d \in IF s \in printing THEN {1} ELSE {} |-> Closes[s][d]]]
    BY DEF Init
  <2> QED BY <1>1, <2>1 DEF BarsInv
<1>4. ActionsInv
  BY DEF Init, ActionsInv
<1>5. SeenType /\ SeenInv
  BY <1>1 DEF Init, SeenType, SeenInv
<1> QED BY <1>1, <1>2, <1>3, <1>4, <1>5 DEF Inv

LEMMA NextDayInv == Inv /\ NextDay => Inv'
<1> SUFFICES ASSUME Inv, NextDay PROVE Inv'
  OBVIOUS
<1>1. /\ now \in 1 .. MaxDay /\ now' = now + 1 /\ now' \in 1 .. MaxDay
      /\ spells' = spells /\ actions' = actions /\ seen' = Append(seen, Shown(now))
  BY UniverseAssumption DEF Inv, NextDay
<1>2. SpellsInv'
  <2>1. SpellType \subseteq SpellType'
    <3>1. 0 .. now \subseteq 0 .. now'
      BY <1>1
    <3> QED BY <3>1 DEF SpellType
  <2> QED BY <1>1, <2>1 DEF Inv, SpellsInv
<1>3. BarsInv'
  <2>1. PICK printing \in SUBSET Securities :
          bars' = [s \in Securities |->
                    [d \in DOMAIN bars[s] \cup (IF s \in printing THEN {now'} ELSE {}) |->
                        Closes[s][d]]]
    BY DEF NextDay
  <2>2. ASSUME NEW s \in Securities
        PROVE  /\ DOMAIN bars'[s] \subseteq 1 .. now'
               /\ bars'[s] = [d \in DOMAIN bars'[s] |-> Closes[s][d]]
    <3>1. DOMAIN bars[s] \subseteq 1 .. now
      BY DEF Inv, BarsInv
    <3> QED BY <1>1, <2>1, <3>1
  <2> QED BY <2>1, <2>2 DEF BarsInv
<1>4. ActionsInv'
  <2>1. \A a \in actions : a.available \in Nat /\ a.available <= now
    BY DEF Inv, ActionsInv, ActionType
  <2>2. \A a \in actions : a.available <= now'
    BY <1>1, <2>1
  <2> QED BY <1>1, <2>2 DEF Inv, ActionsInv
<1>5. PICK V : seen \in Seq(V) /\ Len(seen) = now - 1
  BY DEF Inv, SeenType
<1>6. /\ seen' \in Seq(V \cup {Shown(now)}) /\ Len(seen') = now
      /\ \A clock \in 1 .. now - 1 : seen'[clock] = seen[clock]
      /\ seen'[now] = Shown(now)
  <2> DEFINE x == Shown(now)
  <2>1. seen \in Seq(V \cup {x}) /\ x \in V \cup {x}
    BY <1>5
  <2> HIDE DEF x
  <2>2. /\ Append(seen, x) \in Seq(V \cup {x}) /\ Len(Append(seen, x)) = now
        /\ \A clock \in 1 .. now - 1 : Append(seen, x)[clock] = seen[clock]
        /\ Append(seen, x)[now] = x
    BY <1>1, <1>5, <2>1
  <2> QED BY <1>1, <2>2 DEF x
<1>7. SeenType'
  BY <1>1, <1>6 DEF SeenType
<1>8. ASSUME NEW clock \in 1 .. now
      PROVE  /\ seen'[clock].members = Members(clock, clock)
             /\ seen'[clock].price = [s \in Securities |-> Price(s, clock)]
             /\ \A s \in Securities :
                   /\ seen'[clock].excluded[s] \in BOOLEAN
                   /\ seen'[clock].momentum[s] = MomentumIf(seen'[clock].excluded[s], s, clock)
  <2>1. CASE clock = now
    <3>1. seen'[clock] = Shown(clock)
      BY <1>6, <2>1
    <3>2. \A s \in Securities : Momentum(s, clock) = MomentumIf(Excluded(s, clock), s, clock)
      BY DEF Momentum, MomentumIf, ComputableBars, ComputableActions
    <3>3. \A s \in Securities : Excluded(s, clock) \in BOOLEAN
      BY DEF Excluded
    <3>4. /\ Shown(clock).members = Members(clock, clock)
          /\ Shown(clock).price = [s \in Securities |-> Price(s, clock)]
          /\ Shown(clock).excluded = [s \in Securities |-> Excluded(s, clock)]
          /\ Shown(clock).momentum = [s \in Securities |-> Momentum(s, clock)]
      BY DEF Shown
    <3> QED BY <3>1, <3>2, <3>3, <3>4
  <2>2. CASE clock # now
    <3>1. clock \in 1 .. now - 1 /\ seen'[clock] = seen[clock]
      BY <1>1, <1>6, <2>2
    <3> QED BY <3>1 DEF Inv, SeenInv
  <2> QED BY <2>1, <2>2
<1>9. SeenInv'
  <2>1. now' - 1 = now
    BY <1>1
  <2>2. SUFFICES ASSUME NEW clock \in 1 .. now
                 PROVE  /\ seen'[clock].members = Members(clock, clock)'
                        /\ seen'[clock].price = [s \in Securities |-> Price(s, clock)']
                        /\ \A s \in Securities :
                              /\ seen'[clock].excluded[s] \in BOOLEAN
                              /\ \A e \in BOOLEAN :
                                   seen'[clock].excluded[s] = e
                                     => seen'[clock].momentum[s] = MomentumIf(e, s, clock)'
    BY <2>1 DEF SeenInv
  <2>3. /\ Members(clock, clock)' = Members(clock, clock)
        /\ \A s \in Securities :
              /\ Price(s, clock)' = Price(s, clock)
              /\ \A e \in BOOLEAN : MomentumIf(e, s, clock)' = MomentumIf(e, s, clock)
    BY NextDayShows
  <2>4. [s \in Securities |-> Price(s, clock)'] = [s \in Securities |-> Price(s, clock)]
    BY <2>3
  <2> QED BY <1>8, <2>3, <2>4
<1> QED BY <1>1, <1>2, <1>3, <1>4, <1>7, <1>9 DEF Inv

\* Where a step leaves the days before as they were, what was shown is still described.
LEMMA SeenStands ==
  ASSUME Inv, now' = now, seen' = seen,
         \A clock \in 1 .. now - 1 :
           /\ Members(clock, clock)' = Members(clock, clock)
           /\ \A s \in Securities :
                 /\ Price(s, clock)' = Price(s, clock)
                 /\ \A e \in BOOLEAN : MomentumIf(e, s, clock)' = MomentumIf(e, s, clock)
  PROVE  SeenType' /\ SeenInv'
<1>1. SeenType'
  BY DEF Inv, SeenType
<1>2. SUFFICES ASSUME NEW clock \in 1 .. now - 1
               PROVE  /\ seen[clock].members = Members(clock, clock)'
                      /\ seen[clock].price = [s \in Securities |-> Price(s, clock)']
                      /\ \A s \in Securities :
                            /\ seen[clock].excluded[s] \in BOOLEAN
                            /\ seen[clock].momentum[s]
                                 = MomentumIf(seen[clock].excluded[s], s, clock)'
  BY <1>1 DEF SeenInv
<1>3. /\ seen[clock].members = Members(clock, clock)
      /\ seen[clock].price = [s \in Securities |-> Price(s, clock)]
      /\ \A s \in Securities :
            /\ seen[clock].excluded[s] \in BOOLEAN
            /\ seen[clock].momentum[s] = MomentumIf(seen[clock].excluded[s], s, clock)
  BY DEF Inv, SeenInv
<1> QED BY <1>3

LEMMA PublishInv == Inv /\ Publish => Inv'
<1> SUFFICES ASSUME Inv, Publish PROVE Inv'
  OBVIOUS
<1>1. spells' = spells /\ now' = now /\ bars' = bars /\ seen' = seen
  BY DEF Publish
<1>2. now \in 1 .. MaxDay /\ now \in Nat
  BY UniverseAssumption DEF Inv
<1>3. ActionsInv'
  <2>1. PICK a \in Announcements : actions' = actions \cup {[a EXCEPT !.available = now]}
    BY DEF Publish
  <2>2. /\ [a EXCEPT !.available = now] \in ActionType
        /\ [a EXCEPT !.available = now].available = now
    BY <1>2, ContextAssumption DEF ActionType
  <2>3. actions \subseteq ActionType /\ \A x \in actions : x.available <= now
    BY DEF Inv, ActionsInv
  <2>4. now <= now
    BY <1>2
  <2> DEFINE b == [a EXCEPT !.available = now]
  <2> HIDE DEF b
  <2>5. actions' = actions \cup {b} /\ b \in ActionType /\ b.available = now
    BY <2>1, <2>2 DEF b
  <2> QED BY <1>1, <2>3, <2>4, <2>5 DEF ActionsInv
<1>4. SpellsInv' /\ BarsInv'
  BY <1>1 DEF Inv, SpellsInv, SpellType, BarsInv
<1>5. SeenType' /\ SeenInv'
  BY <1>1, PublishShows, SeenStands
<1> QED BY <1>1, <1>2, <1>3, <1>4, <1>5 DEF Inv

LEMMA LearnInv == Inv /\ Learn => Inv'
<1> SUFFICES ASSUME Inv, Learn PROVE Inv'
  OBVIOUS
<1>1. actions' = actions /\ now' = now /\ bars' = bars /\ seen' = seen
  BY DEF Learn
<1>2. now \in 1 .. MaxDay /\ now \in 0 .. now
  BY UniverseAssumption DEF Inv
<1>3. PICK s \in Securities, day \in Days : Join(s, day) \/ Leave(s, day)
  BY DEF Learn
<1>4. SpellsInv'
  <2>1. CASE Join(s, day)
    <3> DEFINE r == [sid |-> s, from |-> day, to |-> None, recorded |-> now, superseded |-> None]
    <3>1. r \in SpellType
      BY <1>2 DEF SpellType, None
    <3>2. /\ spells' = spells \cup {r} /\ \A q \in spells' : ValidSpell(q)
          /\ NoOverlap(spells')
      BY <2>1 DEF Join, WriteUniverse
    <3> HIDE DEF r
    <3>3. IsFiniteSet(spells')
      BY <3>2, FS_AddElement DEF Inv, SpellsInv
    <3> QED BY <1>1, <3>1, <3>2, <3>3 DEF Inv, SpellsInv, SpellType
  <2>2. CASE Leave(s, day)
    <3>1. /\ spells' = (spells \ Open(s)) \cup UNION {Closed(r, day) : r \in Open(s)}
          /\ \A r \in spells' : ValidSpell(r)
          /\ NoOverlap(spells')
      BY <2>2, LeaveRows
    <3>2. Open(s) \subseteq spells /\ \A r \in Open(s) : \A q \in Closed(r, day) : q \in SpellType
      BY ClosedRows DEF Open
    <3>3. spells' \subseteq SpellType
      BY <3>1, <3>2 DEF Inv, SpellsInv
    <3>4. IsFiniteSet(spells \ Open(s)) /\ IsFiniteSet(Open(s))
      BY <3>2, FS_Subset DEF Inv, SpellsInv
    <3>5. IsFiniteSet(UNION {Closed(r, day) : r \in Open(s)})
      <4> DEFINE closed == {Closed(r, day) : r \in Open(s)}
                 f == [r \in Open(s) |-> Closed(r, day)]
      <4>1. f \in Surjection(Open(s), closed)
        BY DEF Surjection
      <4>2. \A c \in closed : IsFiniteSet(c)
        <5>1. ASSUME NEW x, NEW y PROVE IsFiniteSet({x, y})
          <6>1. IsFiniteSet({x} \cup {y})
            BY FS_Singleton, FS_Union
          <6>2. {x, y} = {x} \cup {y}
            OBVIOUS
          <6> QED BY <6>1, <6>2
        <5> DEFINE ended(r) == [r EXCEPT !.superseded = now]
                   next(r) == [r EXCEPT !.to = day, !.recorded = now]
        <5>2. \A r \in Open(s) : Closed(r, day) = {ended(r), next(r)}
          BY DEF Closed
        <5> HIDE DEF ended, next
        <5>3. \A r \in Open(s) : IsFiniteSet(Closed(r, day))
          BY <5>1, <5>2
        <5> QED BY <5>3
      <4> HIDE DEF f, closed
      <4>3. IsFiniteSet(closed)
        BY <3>4, <4>1, FS_Surjection
      <4>4. IsFiniteSet(UNION closed)
        BY <4>2, <4>3, FS_UNION
      <4> QED BY <4>4 DEF closed
    <3>6. IsFiniteSet(spells')
      BY <3>1, <3>4, <3>5, FS_Union
    <3> QED BY <1>1, <3>1, <3>3, <3>6 DEF SpellsInv, SpellType
  <2> QED BY <1>3, <2>1, <2>2
<1>5. BarsInv' /\ ActionsInv'
  BY <1>1 DEF Inv, BarsInv, ActionsInv
<1>6. SeenType' /\ SeenInv'
  BY <1>1, LearnShows, SeenStands
<1> QED BY <1>1, <1>2, <1>4, <1>5, <1>6 DEF Inv

LEMMA StutterInv == Inv /\ UNCHANGED vars => Inv'
<1> SUFFICES ASSUME Inv, UNCHANGED vars PROVE Inv'
  OBVIOUS
<1>1. spells' = spells /\ now' = now /\ bars' = bars /\ actions' = actions /\ seen' = seen
  BY DEF vars
<1>2. SpellsInv' /\ BarsInv' /\ ActionsInv' /\ SeenType'
  BY <1>1 DEF Inv, SpellsInv, SpellType, BarsInv, ActionsInv, SeenType
<1>3. \A clock \in 1 .. now - 1 :
        /\ Members(clock, clock)' = Members(clock, clock)
        /\ \A s \in Securities :
              /\ Price(s, clock)' = Price(s, clock)
              /\ \A e \in BOOLEAN : MomentumIf(e, s, clock)' = MomentumIf(e, s, clock)
  BY <1>1 DEF Members, Covered, First, VisibleAsOf, Price, MomentumIf, Relevant, ActionsOf, Sliced,
              BarsFor
<1>4. SeenInv'
  BY <1>1, <1>3, SeenStands
<1> QED BY <1>1, <1>2, <1>4 DEF Inv

(***************************************************************************)
(* What the theorems rest on, in every state of every behaviour: the       *)
(* spells are valid and those of a security never overlap, the bars are    *)
(* the closes of past days, no action is known before it was published,    *)
(* and what was shown for a past day is what the data still say of it.     *)
(***************************************************************************)
THEOREM ContextInvariant == Spec => []Inv
<1>1. Inv /\ [Next]_vars => Inv'
  BY NextDayInv, PublishInv, LearnInv, StutterInv DEF Next
<1> QED BY InitInv, <1>1, PTL DEF Spec

LEMMA InvDecisionsStand == Inv => DecisionsStand
<1> SUFFICES ASSUME Inv, NEW clock \in 1 .. now - 1
             PROVE  /\ Shown(clock).members = seen[clock].members
                    /\ Shown(clock).price = seen[clock].price
                    /\ \A s \in Securities :
                          Shown(clock).excluded[s] = seen[clock].excluded[s]
                            => Shown(clock).momentum[s] = seen[clock].momentum[s]
  BY DEF DecisionsStand
<1>1. /\ Shown(clock).members = Members(clock, clock)
      /\ Shown(clock).price = [s \in Securities |-> Price(s, clock)]
      /\ \A s \in Securities : /\ Shown(clock).excluded[s] = Excluded(s, clock)
                               /\ Shown(clock).momentum[s] = Momentum(s, clock)
  BY DEF Shown
<1>2. /\ seen[clock].members = Members(clock, clock)
      /\ seen[clock].price = [s \in Securities |-> Price(s, clock)]
      /\ \A s \in Securities :
            seen[clock].momentum[s] = MomentumIf(seen[clock].excluded[s], s, clock)
  BY DEF Inv, SeenInv
<1>3. \A s \in Securities : Momentum(s, clock) = MomentumIf(Excluded(s, clock), s, clock)
  BY DEF Momentum, MomentumIf, ComputableBars, ComputableActions
<1> QED BY <1>1, <1>2, <1>3

(***************************************************************************)
(* What a context showed for a day, a later look at the same day shows     *)
(* again: no bar, action or spell that comes later changes the members,    *)
(* the prices, or the momentum of a security whose exclusion is as it was. *)
(***************************************************************************)
THEOREM WhatWasShownStands == Spec => []DecisionsStand
BY ContextInvariant, InvDecisionsStand, PTL

-----------------------------------------------------------------------------
\* The slice of a clock day ends where the series known on that day ends.
LEMMA SliceEnds ==
  ASSUME Inv, NEW s \in Securities, NEW clock \in 1 .. now, NEW d \in DOMAIN Sliced(s, clock)
  PROVE  LET full == BarsFor(s, 1, clock)
             window == Sliced(s, clock)
         IN  /\ DOMAIN full \subseteq 0 .. now
             /\ DOMAIN window = {e \in DOMAIN full : clock - Lookback <= e}
             /\ \A e \in DOMAIN window : window[e] = full[e]
             /\ Max(DOMAIN window) = Max(DOMAIN full)
             /\ Min(DOMAIN window) <= d /\ Min(DOMAIN window) \in Nat
             /\ Max(DOMAIN window) \in Nat /\ d \in Nat
<1> DEFINE full == BarsFor(s, 1, clock)
           window == Sliced(s, clock)
           F == DOMAIN full
           W == DOMAIN window
<1>1. now \in Nat /\ clock \in Nat /\ Lookback \in Nat
  BY UniverseAssumption, ContextAssumption DEF Inv
<1>2. DOMAIN bars[s] \subseteq 1 .. now
  BY DEF Inv, BarsInv
<1>3. F \subseteq 0 .. now /\ F = {e \in DOMAIN bars[s] : 1 <= e /\ e <= clock}
  BY <1>1, <1>2 DEF BarsFor, Restrict
<1>4. W = {e \in DOMAIN bars[s] : clock - Lookback <= e /\ e <= clock}
  BY DEF Sliced, BarsFor, Restrict
<1>5. \A e \in DOMAIN bars[s] : e \in Nat /\ 1 <= e
  BY <1>1, <1>2
<1>6. W = {e \in F : clock - Lookback <= e}
  BY <1>3, <1>4, <1>5
<1>7. \A e \in W : window[e] = full[e]
  BY <1>3, <1>4, <1>5 DEF Sliced, BarsFor, Restrict
<1>8. d \in W /\ W \subseteq 0 .. now /\ W \subseteq Nat /\ F # {} /\ W # {}
  BY <1>1, <1>3, <1>6
<1> HIDE DEF F, W
<1>9. /\ Max(W) \in W /\ \A e \in W : e <= Max(W)
      /\ Max(F) \in F /\ \A e \in F : e <= Max(F)
      /\ Min(W) \in W /\ \A e \in W : Min(W) <= e
  BY <1>1, <1>3, <1>8, Greatest, Least
<1>10. Max(W) = Max(F)
  <2>1. Max(W) \in Nat /\ Max(F) \in Nat /\ Max(W) <= Max(F) /\ d <= Max(F) /\ d \in Nat
    BY <1>1, <1>3, <1>6, <1>8, <1>9
  <2>2. Max(F) \in W
    BY <1>1, <1>6, <1>8, <1>9, <2>1
  <2> QED BY <1>9, <2>1, <2>2
<1> QED BY <1>3, <1>6, <1>7, <1>8, <1>9, <1>10 DEF F, W

\* Inside the slice, a price has the same close before it.
LEMMA SlicePrevious ==
  ASSUME Inv, NEW s \in Securities, NEW clock \in 1 .. now, NEW d \in DOMAIN Sliced(s, clock),
         NEW ex \in Nat, d < ex
  PROVE  PreviousClose(Sliced(s, clock), ex) = PreviousClose(BarsFor(s, 1, clock), ex)
<1> DEFINE full == BarsFor(s, 1, clock)
           window == Sliced(s, clock)
           F == PreviousDates(full, ex)
           W == PreviousDates(window, ex)
<1>1. /\ DOMAIN full \subseteq 0 .. now
      /\ DOMAIN window = {e \in DOMAIN full : clock - Lookback <= e}
      /\ \A e \in DOMAIN window : window[e] = full[e]
  BY SliceEnds
<1>2. now \in Nat /\ clock \in Nat /\ Lookback \in Nat
  BY UniverseAssumption, ContextAssumption DEF Inv
<1> HIDE DEF full, window
<1>3. /\ F = {e \in DOMAIN full : e < ex} /\ W = {e \in DOMAIN window : e < ex}
      /\ F \subseteq 0 .. now /\ W \subseteq 0 .. now /\ d \in W /\ d \in F
  BY <1>1, <1>2 DEF PreviousDates, window
<1> HIDE DEF F, W
<1>4. /\ Max(W) \in W /\ \A e \in W : e <= Max(W)
      /\ Max(F) \in F /\ \A e \in F : e <= Max(F)
  BY <1>2, <1>3, Greatest
<1>5. Max(W) = Max(F)
  <2>1. Max(W) \in Nat /\ Max(F) \in Nat /\ Max(W) <= Max(F) /\ d <= Max(F) /\ d \in Nat
    BY <1>1, <1>2, <1>3, <1>4
  <2>2. Max(F) \in W
    BY <1>1, <1>2, <1>3, <1>4, <2>1
  <2> QED BY <1>4, <2>1, <2>2
<1> QED BY <1>1, <1>3, <1>4, <1>5 DEF PreviousClose, F, W, full, window

LEMMA SliceFactor ==
  ASSUME Inv, NEW s \in Securities, NEW clock \in 1 .. now, NEW d \in DOMAIN Sliced(s, clock)
  PROVE  Factor(Sliced(s, clock), Known(Relevant(s, clock), clock), "total", d)
           = Factor(BarsFor(s, 1, clock), Known(ActionsOf(s), clock), "total", d)
<1> DEFINE full == BarsFor(s, 1, clock)
           window == Sliced(s, clock)
           F == Adjusting(full, Known(ActionsOf(s), clock))
           W == Adjusting(window, Known(Relevant(s, clock), clock))
           LaterF == {ex \in {a.ex : a \in F} : After(ex, d)}
           LaterW == {ex \in {a.ex : a \in W} : After(ex, d)}
<1>1. /\ Max(DOMAIN window) = Max(DOMAIN full) /\ Max(DOMAIN window) \in Nat
      /\ Min(DOMAIN window) <= d /\ Min(DOMAIN window) \in Nat /\ d \in Nat
  BY SliceEnds
<1>2. window # <<>>
  OBVIOUS
<1>3. \A a \in actions : a.ex \in Nat
  BY DEF Inv, ActionsInv, ActionType, Days
<1>4. \A a \in F : a \in actions /\ a.ex \in Nat
  BY <1>3 DEF Adjusting, Known, ActionsOf
<1>5. W \subseteq F
  BY <1>1 DEF Adjusting, Known, Relevant
<1>6. ASSUME NEW a \in F, a.ex > d PROVE a \in W
  <2>1. /\ a \in ActionsOf(s) /\ a.available <= clock /\ a.kind \in {"split", "dividend"}
        /\ a.ex <= Max(DOMAIN window)
    BY <1>1 DEF Adjusting, Known
  <2>2. InsideSpan(window, a.ex)
    BY <1>1, <1>2, <1>4, <1>6, <2>1 DEF InsideSpan
  <2> QED BY <2>1, <2>2 DEF Adjusting, Known, Relevant
<1> HIDE DEF F, W
<1>7. LaterW = LaterF
  BY <1>5, <1>6 DEF After
<1>8. ASSUME NEW ex \in LaterF
      PROVE  /\ SplitPart(W, ex) = SplitPart(F, ex)
             /\ DividendPart(window, W, ex) = DividendPart(full, F, ex)
  <2>1. ex > d /\ ex \in Nat
    BY <1>4 DEF After
  <2>2. \A kind : On(W, kind, ex) = On(F, kind, ex)
    BY <1>5, <1>6, <2>1 DEF On
  <2>3. SplitPart(W, ex) = SplitPart(F, ex)
    BY <2>2 DEF SplitPart
  <2>4. PreviousClose(window, ex) = PreviousClose(full, ex)
    BY <1>1, <2>1, SlicePrevious
  <2> QED BY <2>2, <2>3, <2>4 DEF DividendPart
<1> DEFINE part(bars_, adjusting, ex) ==
             Times(SplitPart(adjusting, ex), DividendPart(bars_, adjusting, ex))
<1>9. [ex \in LaterW |-> part(window, W, ex)] = [ex \in LaterF |-> part(full, F, ex)]
  BY <1>7, <1>8
<1>10. /\ Factor(window, Known(Relevant(s, clock), clock), "total", d)
            = Product([ex \in LaterW |-> part(window, W, ex)])
       /\ Factor(full, Known(ActionsOf(s), clock), "total", d)
            = Product([ex \in LaterF |-> part(full, F, ex)])
  BY DEF Factor, F, W
<1> QED BY <1>9, <1>10

LEMMA InvSlicingIsExact == Inv => SlicingIsExact
<1> SUFFICES ASSUME Inv, NEW clock \in 1 .. now, NEW s \in Securities
             PROVE  LET full == BarsFor(s, 1, clock)
                        window == ComputableBars(s, clock)
                        inFull == Known(ActionsOf(s), clock)
                        inWindow == Known(ComputableActions(s, clock), clock)
                    IN  /\ Computes(window, inWindow)
                        /\ \A d \in DOMAIN window :
                             Adjusted(window, inWindow, "total", d) = Adjusted(full, inFull, "total", d)
  BY DEF SlicingIsExact
<1>1. CASE Excluded(s, clock)
  <2>1. ComputableBars(s, clock) = <<>>
    BY <1>1 DEF ComputableBars
  <2> QED BY <2>1 DEF Computes
<1>2. CASE ~Excluded(s, clock)
  <2>1. ComputableBars(s, clock) = Sliced(s, clock) /\ ComputableActions(s, clock) = Relevant(s, clock)
    BY <1>2 DEF ComputableBars, ComputableActions
  <2>2. Computes(Sliced(s, clock), Known(Relevant(s, clock), clock))
    BY <1>2 DEF Excluded, Computes, Adjusting, Known
  <2>3. ASSUME NEW d \in DOMAIN Sliced(s, clock)
        PROVE  Adjusted(Sliced(s, clock), Known(Relevant(s, clock), clock), "total", d)
                 = Adjusted(BarsFor(s, 1, clock), Known(ActionsOf(s), clock), "total", d)
    <3>1. Sliced(s, clock)[d] = BarsFor(s, 1, clock)[d]
      BY SliceEnds
    <3> QED BY <3>1, SliceFactor DEF Adjusted
  <2> QED BY <2>1, <2>2, <2>3
<1> QED BY <1>1, <1>2

(***************************************************************************)
(* computable_inputs: what it lets through never raises AdjustmentError,   *)
(* and a bar adjusted with the actions inside the window is what it is in  *)
(* the whole series adjusted with every action known on the clock day.     *)
(***************************************************************************)
THEOREM SlicesAreExact == Spec => []SlicingIsExact
BY ContextInvariant, InvSlicingIsExact, PTL

-----------------------------------------------------------------------------
\* The members after each of the first n changes
IsAfter(after, sids, changes, n) ==
    after = [k \in 0 .. n |-> IF k = 0 THEN sids ELSE Apply(after[k - 1], changes[k])]

LEMMA AfterPointwise ==
  ASSUME NEW sids, NEW changes, NEW n \in Nat, NEW after, IsAfter(after, sids, changes, n)
  PROVE  after[0] = sids /\ \A k \in 1 .. n : after[k] = Apply(after[k - 1], changes[k])
<1> DEFINE g == [k \in 0 .. n |-> IF k = 0 THEN sids ELSE Apply(after[k - 1], changes[k])]
<1>1. g[0] = sids /\ \A k \in 1 .. n : g[k] = Apply(after[k - 1], changes[k])
  OBVIOUS
<1>2. after = g
  BY DEF IsAfter
<1> HIDE DEF g
<1> QED BY <1>1, <1>2

LEMMA AfterExists ==
  ASSUME NEW sids, NEW changes, NEW n \in Nat
  PROVE  \E after : IsAfter(after, sids, changes, n)
<1> DEFINE Bad == {k \in Nat : ~ \E f : IsAfter(f, sids, changes, k)}
<1>1. 0 \notin Bad
  <2>1. IsAfter([k \in 0 .. 0 |-> sids], sids, changes, 0)
    BY DEF IsAfter
  <2> QED BY <2>1
<1>2. ASSUME NEW k \in Nat, k # 0, k - 1 \notin Bad PROVE k \notin Bad
  <2>1. PICK f : IsAfter(f, sids, changes, k - 1)
    BY <1>2
  <2>2. f[0] = sids /\ \A i \in 1 .. k - 1 : f[i] = Apply(f[i - 1], changes[i])
    BY <1>2, <2>1, AfterPointwise
  <2> DEFINE g == [i \in 0 .. k |-> IF i = k THEN Apply(f[k - 1], changes[k]) ELSE f[i]]
  <2>3. g[0] = sids /\ \A i \in 0 .. k - 1 : g[i] = f[i]
    BY <1>2, <2>2
  <2>4. \A i \in 1 .. k : g[i] = Apply(g[i - 1], changes[i])
    <3>1. g[k] = Apply(f[k - 1], changes[k]) /\ g[k - 1] = f[k - 1]
      BY <1>2, <2>3
    <3> QED BY <1>2, <2>2, <2>3, <3>1
  <2>5. g = [i \in 0 .. k |-> g[i]]
    OBVIOUS
  <2> HIDE DEF g
  <2>6. [i \in 0 .. k |-> g[i]]
          = [i \in 0 .. k |-> IF i = 0 THEN sids ELSE Apply(g[i - 1], changes[i])]
    BY <1>2, <2>3, <2>4
  <2>7. IsAfter(g, sids, changes, k)
    BY <2>5, <2>6 DEF IsAfter
  <2> QED BY <2>7
<1>3. Bad = {}
  <2> SUFFICES ASSUME Bad # {} PROVE FALSE
    OBVIOUS
  <2>1. PICK k \in Bad : \A y \in Bad : k <= y
    <3>1. Bad \subseteq Nat
      OBVIOUS
    <3> HIDE DEF Bad
    <3> QED BY <3>1, Least
  <2>2. k \in Nat /\ k # 0
    BY <1>1, <2>1
  <2>3. k - 1 \notin Bad
    <3> HIDE DEF Bad
    <3>1. ~(k <= k - 1)
      BY <2>2
    <3> QED BY <2>1, <3>1
  <2> HIDE DEF Bad
  <2> QED BY <1>2, <2>1, <2>2, <2>3
<1> QED BY <1>3

LEMMA AppliedIs ==
  ASSUME NEW sids, NEW changes, Len(changes) \in Nat
  PROVE  \E after : /\ Applied(sids, changes) = after[Len(changes)] /\ after[0] = sids
                    /\ \A k \in 1 .. Len(changes) : after[k] = Apply(after[k - 1], changes[k])
<1> DEFINE n == Len(changes)
           f == CHOOSE g : IsAfter(g, sids, changes, n)
<1>1. Applied(sids, changes) = f[n]
  BY DEF Applied, IsAfter
<1>2. IsAfter(f, sids, changes, n)
  <2> HIDE DEF n
  <2> QED BY AfterExists DEF n
<1>3. f[0] = sids /\ \A k \in 1 .. n : f[k] = Apply(f[k - 1], changes[k])
  <2>1. n \in Nat
    OBVIOUS
  <2> HIDE DEF f, n
  <2> QED BY ONLY <1>2, <2>1, AfterPointwise
<1> QED BY <1>1, <1>3

\* After the i-th of n changes, none is of the security.
NoneAfter(changes, n, i, s) == \A k \in 1 .. n : i < k => changes[k].sid # s

\* Changes of others change nothing for a security.
LEMMA OthersChange ==
  ASSUME NEW after, NEW changes, NEW n \in Nat, NEW i \in 0 .. n, NEW s,
         \A k \in 1 .. n : after[k] = Apply(after[k - 1], changes[k]),
         NoneAfter(changes, n, i, s)
  PROVE  s \in after[n] <=> s \in after[i]
<1> DEFINE Bad == {k \in Nat : i <= k /\ k <= n /\ ~(s \in after[k] <=> s \in after[i])}
<1>1. Bad = {}
  <2> SUFFICES ASSUME Bad # {} PROVE FALSE
    OBVIOUS
  <2> DEFINE k == Min(Bad)
  <2>1. k \in Bad /\ \A y \in Bad : k <= y
    <3>1. Bad \subseteq Nat
      OBVIOUS
    <3> HIDE DEF Bad
    <3> QED BY <3>1, Least
  <2>2. /\ k \in Nat /\ i <= k /\ k <= n /\ ~(s \in after[k] <=> s \in after[i])
    BY <2>1
  <2>3. k # i /\ k - 1 \in Nat /\ i <= k - 1 /\ k \in 1 .. n
    <3> HIDE DEF k
    <3>1. k # i
      BY <2>2
    <3> QED BY <2>2, <3>1
  <2>4. k - 1 \notin Bad
    <3> HIDE DEF Bad, k
    <3> QED BY <2>1, <2>3
  <2> HIDE DEF k
  <2>5. s \in after[k - 1] <=> s \in after[i]
    BY <2>2, <2>3, <2>4
  <2>6. after[k] = Apply(after[k - 1], changes[k]) /\ changes[k].sid # s
    BY <2>2, <2>3 DEF NoneAfter
  <2>7. s \in after[k] <=> s \in after[k - 1]
    BY <2>6 DEF Apply
  <2> QED BY <2>2, <2>5, <2>7
<1> QED BY <1>1

\* As of today the current spells are what is known.
LEMMA VisibleNow ==
  ASSUME Inv
  PROVE  /\ VisibleAsOf(now) \subseteq spells
         /\ \A r \in VisibleAsOf(now) : /\ r \in SpellType /\ IsCurrent(r)
                                        /\ r.from \in Nat /\ r.to \in Nat
                                        /\ r.to # None => r.from < r.to
<1>1. now \in Nat
  BY UniverseAssumption DEF Inv
<1>2. ASSUME NEW r \in VisibleAsOf(now)
      PROVE  /\ r \in SpellType /\ IsCurrent(r) /\ r.from \in Nat /\ r.to \in Nat
             /\ r.to # None => r.from < r.to
  <2>1. r \in spells /\ (r.superseded = None \/ r.superseded > now)
    BY <1>2 DEF VisibleAsOf
  <2>2. r \in SpellType /\ ValidSpell(r)
    BY <2>1 DEF Inv, SpellsInv
  <2>3. r.from \in Nat /\ r.to \in Nat /\ r.superseded \in 0 .. now
    BY <2>2 DEF SpellType, Days, None
  <2>4. IsCurrent(r)
    BY <1>1, <2>1, <2>3 DEF IsCurrent
  <2> QED BY <2>2, <2>3, <2>4 DEF ValidSpell
<1> QED BY <1>2 DEF VisibleAsOf

Joined(r) == [sid |-> r.sid, effective |-> r.from, removed |-> 0]

Left(r) == [sid |-> r.sid, effective |-> r.to, removed |-> 1]

LEMMA ChangeOf ==
  ASSUME NEW start, NEW end
  PROVE  /\ \A r \in VisibleAsOf(now) :
              /\ Within(start, end, r.from) => Joined(r) \in ChangesWithin(start, end, now)
              /\ r.to # None /\ Within(start, end, r.to) => Left(r) \in ChangesWithin(start, end, now)
         /\ \A c \in ChangesWithin(start, end, now) :
              \/ \E r \in VisibleAsOf(now) : c = Joined(r) /\ Within(start, end, r.from)
              \/ \E r \in VisibleAsOf(now) : c = Left(r) /\ r.to # None /\ Within(start, end, r.to)
  BY DEF ChangesWithin, Joined, Left

LEMMA ChangesFinite ==
  ASSUME Inv, NEW start, NEW end
  PROVE  /\ IsFiniteSet(ChangesWithin(start, end, now))
         /\ \A c \in ChangesWithin(start, end, now) : 2 * c.effective + c.removed \in Nat
<1> DEFINE joins == {q \in VisibleAsOf(now) : Within(start, end, q.from)}
           leaves == {q \in VisibleAsOf(now) : q.to # None /\ Within(start, end, q.to)}
           joined == {[sid |-> r.sid, effective |-> r.from, removed |-> 0] : r \in joins}
           left == {[sid |-> r.sid, effective |-> r.to, removed |-> 1] : r \in leaves}
<1>1. IsFiniteSet(joins) /\ IsFiniteSet(leaves)
  <2>1. IsFiniteSet(spells) /\ joins \subseteq spells /\ leaves \subseteq spells
    BY VisibleNow DEF Inv, SpellsInv
  <2> QED BY <2>1, FS_Subset
<1>2. IsFiniteSet(joined)
  <2> DEFINE f == [r \in joins |-> [sid |-> r.sid, effective |-> r.from, removed |-> 0]]
  <2>1. f \in Surjection(joins, joined)
    BY DEF Surjection
  <2> HIDE DEF f, joins, joined
  <2> QED BY <1>1, <2>1, FS_Surjection
<1>3. IsFiniteSet(left)
  <2> DEFINE f == [r \in leaves |-> [sid |-> r.sid, effective |-> r.to, removed |-> 1]]
  <2>1. f \in Surjection(leaves, left)
    BY DEF Surjection
  <2> HIDE DEF f, leaves, left
  <2> QED BY <1>1, <2>1, FS_Surjection
<1>4. ChangesWithin(start, end, now) = joined \cup left
  BY DEF ChangesWithin
<1>5. IsFiniteSet(ChangesWithin(start, end, now))
  <2> HIDE DEF joined, left
  <2> QED BY <1>2, <1>3, <1>4, FS_Union
<1>6. ASSUME NEW c \in ChangesWithin(start, end, now) PROVE 2 * c.effective + c.removed \in Nat
  <2>1. PICK r \in VisibleAsOf(now) : c = Joined(r) \/ c = Left(r)
    BY ChangeOf
  <2>2. r.from \in Nat /\ r.to \in Nat
    BY VisibleNow
  <2>3. c.effective \in Nat /\ c.removed \in {0, 1}
    BY <2>1, <2>2 DEF Joined, Left
  <2> QED BY <2>3
<1> QED BY <1>5, <1>6

\* A security's last change decides, and without one it is as it was.
LEMMA LastChange ==
  ASSUME NEW changes, NEW n \in Nat, NEW s
  PROVE  \E i \in 0 .. n : /\ i # 0 => changes[i].sid = s
                           /\ NoneAfter(changes, n, i, s)
<1> DEFINE mine == {k \in 1 .. n : changes[k].sid = s}
<1>1. CASE mine = {}
  <2>1. 0 \in 0 .. n /\ NoneAfter(changes, n, 0, s)
    BY <1>1 DEF NoneAfter
  <2> QED BY <2>1
<1>2. CASE mine # {}
  <2> DEFINE i == Max(mine)
  <2>1. mine \subseteq 0 .. n
    OBVIOUS
  <2>2. i \in mine /\ \A k \in mine : k <= i
    <3> HIDE DEF mine
    <3> QED BY <1>2, <2>1, Greatest
  <2>3. i \in 1 .. n /\ changes[i].sid = s
    BY <2>2
  <2>4. \A k \in 1 .. n : i < k => k \notin mine
    <3> HIDE DEF i, mine
    <3> QED BY <2>2, <2>3
  <2>5. NoneAfter(changes, n, i, s)
    <3> HIDE DEF i
    <3> QED BY <2>4 DEF NoneAfter
  <2> QED BY <2>3, <2>5
<1> QED BY <1>1, <1>2

\* The days covered, where the coverage has begun
LEMMA MembersAre ==
  ASSUME NEW on, Covered(on, now)
  PROVE  Members(on, now).sids = CoveringSids(VisibleAsOf(now), on)
  BY DEF Members, CoveringSids

LEMMA CoveredLater ==
  ASSUME Inv, NEW start \in Days, NEW end \in Days, start < end, Covered(start, now)
  PROVE  Covered(end, now)
<1> DEFINE X == {r.from : r \in VisibleAsOf(now)}
<1>1. X \subseteq Nat
  BY VisibleNow
<1>2. X # {}
  BY DEF Covered
<1>3. Min(X) \in Nat
  <2> HIDE DEF X
  <2> QED BY <1>1, <1>2, Least
<1>4. First(VisibleAsOf(now)) = Min(X)
  BY DEF First
<1> HIDE DEF X
<1>5. start \in Nat /\ end \in Nat
  BY DEF Days
<1> QED BY <1>3, <1>4, <1>5 DEF Covered

\* The changes as they are applied: all of them, in the order of their dates
IsHistory(changes, n, start, end) ==
    /\ n \in Nat
    /\ \A k \in 1 .. n : changes[k] \in ChangesWithin(start, end, now)
    /\ \A c \in ChangesWithin(start, end, now) : \E k \in 1 .. n : changes[k] = c
    /\ \A k, l \in 1 .. n :
          k < l => 2 * changes[k].effective + changes[k].removed
                     <= 2 * changes[l].effective + changes[l].removed

LEMMA ChangesAre ==
  ASSUME Inv, NEW start, NEW end
  PROVE  /\ Len(Changes(start, end, now)) \in Nat
         /\ IsHistory(Changes(start, end, now), Len(Changes(start, end, now)), start, end)
<1> DEFINE C == ChangesWithin(start, end, now)
           key == [c \in C |-> 2 * c.effective + c.removed]
           rows == Sorted(C, key)
           n == Cardinality(C)
<1>1. rows = Changes(start, end, now)
  BY DEF Changes
<1>2. IsFiniteSet(C) /\ (\A c \in C : key[c] = 2 * c.effective + c.removed) /\ \A c \in C : key[c] \in Nat
  BY ChangesFinite
<1>3. n \in Nat
  BY <1>2, FS_CardinalityType
<1> HIDE DEF C, key
<1>4. IsSorted(rows, C, key)
  BY <1>2, SortedExists
<1> HIDE DEF rows
<1>5. \A c \in C : \E k \in 1 .. n : rows[k] = c
  BY <1>2, <1>4, SortedAll
<1>6. rows \in [1 .. n -> C] /\ \A k, l \in 1 .. n : k < l => key[rows[k]] <= key[rows[l]]
  BY <1>4 DEF IsSorted
<1> HIDE DEF n
<1>7. Len(rows) = n
  BY <1>3, <1>6
<1>8. IsHistory(rows, n, start, end)
  BY <1>2, <1>3, <1>5, <1>6 DEF IsHistory, C
<1> QED BY <1>1, <1>3, <1>7, <1>8

\* A change that comes after every other of its security has the greatest key.
LEMMA LastIsLatest ==
  ASSUME NEW changes, NEW n, NEW start, NEW end, IsHistory(changes, n, start, end), NEW s,
         NEW i \in 1 .. n, NoneAfter(changes, n, i, s),
         NEW c \in ChangesWithin(start, end, now), c.sid = s
  PROVE  c = changes[i] \/ 2 * c.effective + c.removed
                             <= 2 * changes[i].effective + changes[i].removed
<1>1. n \in Nat
  BY DEF IsHistory
<1>2. PICK k \in 1 .. n : changes[k] = c
  BY DEF IsHistory
<1>3. ~(i < k)
  BY <1>2 DEF NoneAfter
<1>4. k = i \/ k < i
  BY <1>1, <1>3
<1> QED BY <1>2, <1>4 DEF IsHistory

\* Without a change of its own a security is in or out on both days.
LEMMA Undisturbed ==
  ASSUME Inv, NEW start \in Days, NEW end \in Days, start < end, NEW s,
         \A c \in ChangesWithin(start, end, now) : c.sid # s
  PROVE  s \in CoveringSids(VisibleAsOf(now), start) <=> s \in CoveringSids(VisibleAsOf(now), end)
<1>1. start \in Nat /\ end \in Nat
  BY DEF Days
<1>2. ASSUME NEW r \in VisibleAsOf(now), r.sid = s PROVE Covers(r, start) <=> Covers(r, end)
  <2>1. r.from \in Nat /\ r.to \in Nat /\ (r.to # None => r.from < r.to)
    BY VisibleNow
  <2>2. ~Within(start, end, r.from)
    BY <1>2, ChangeOf DEF Joined
  <2>3. r.to # None => ~Within(start, end, r.to)
    BY <1>2, ChangeOf DEF Left
  <2>4. ~(start < r.from /\ r.from <= end)
    BY <2>2 DEF Within
  <2>5. r.to # None => ~(start < r.to /\ r.to <= end)
    BY <2>3 DEF Within
  <2>6. Covers(r, start) => Covers(r, end)
    BY <1>1, <2>1, <2>5 DEF Covers
  <2>7. Covers(r, end) => Covers(r, start)
    BY <1>1, <2>1, <2>4 DEF Covers
  <2> QED BY <2>6, <2>7
<1> QED BY <1>2 DEF CoveringSids

\* A security whose last change is an addition is in on the last day.
LEMMA JoinedLast ==
  ASSUME Inv, NEW start \in Days, NEW end \in Days, start < end, NEW c, c.removed = 0,
         c \in ChangesWithin(start, end, now),
         \A d \in ChangesWithin(start, end, now) :
            d.sid = c.sid => d = c \/ 2 * d.effective + d.removed <= 2 * c.effective + c.removed
  PROVE  c.sid \in CoveringSids(VisibleAsOf(now), end)
<1>1. start \in Nat /\ end \in Nat
  BY DEF Days
<1>2. PICK r \in VisibleAsOf(now) : c = Joined(r) /\ Within(start, end, r.from)
  BY ChangeOf DEF Left
<1>3. r.from \in Nat /\ r.to \in Nat /\ (r.to # None => r.from < r.to)
  BY VisibleNow
<1>4. c.sid = r.sid /\ c.effective = r.from
  BY <1>2 DEF Joined
<1>5. r.to = None \/ end < r.to
  <2> SUFFICES ASSUME r.to # None, ~(end < r.to) PROVE FALSE
    OBVIOUS
  <2>1. Within(start, end, r.to)
    BY <1>1, <1>2, <1>3 DEF Within
  <2>2. Left(r) \in ChangesWithin(start, end, now)
    BY <2>1, ChangeOf
  <2>3. Left(r).sid = r.sid /\ Left(r).effective = r.to /\ Left(r).removed = 1
    BY DEF Left
  <2>4. Left(r) # c
    BY <2>3
  <2>5. 2 * r.to + 1 <= 2 * r.from
    <3>1. 2 * r.to + 1 <= 2 * r.from + 0
      BY <1>4, <2>2, <2>3, <2>4
    <3> QED BY <1>3, <3>1
  <2> QED BY <1>3, <2>5
<1>6. Covers(r, end)
  BY <1>1, <1>2, <1>3, <1>5 DEF Covers, Within
<1> QED BY <1>4, <1>6 DEF CoveringSids

\* A security whose last change is a removal is out on the last day.
LEMMA LeftLast ==
  ASSUME Inv, NoTouchingSpells(now), NEW start \in Days, NEW end \in Days, start < end,
         NEW c, c.removed = 1, c \in ChangesWithin(start, end, now),
         \A d \in ChangesWithin(start, end, now) :
            d.sid = c.sid => d = c \/ 2 * d.effective + d.removed <= 2 * c.effective + c.removed
  PROVE  c.sid \notin CoveringSids(VisibleAsOf(now), end)
<1>1. start \in Nat /\ end \in Nat
  BY DEF Days
<1>2. PICK r \in VisibleAsOf(now) : c = Left(r) /\ r.to # None /\ Within(start, end, r.to)
  BY ChangeOf DEF Joined
<1>3. c.sid = r.sid /\ c.effective = r.to
  BY <1>2 DEF Left
<1> SUFFICES ASSUME NEW q \in VisibleAsOf(now), q.sid = r.sid, Covers(q, end) PROVE FALSE
  BY <1>3 DEF CoveringSids
<1>4. /\ r.from \in Nat /\ r.to \in Nat /\ r.from < r.to
      /\ q.from \in Nat /\ q.to \in Nat /\ (q.to # None => q.from < q.to)
  BY <1>2, VisibleNow
<1>5. /\ start < r.to /\ r.to <= end /\ q.from <= end /\ (q.to = None \/ end < q.to)
  BY <1>2 DEF Within, Covers
<1>6. q # r
  BY <1>1, <1>2, <1>4, <1>5
<1>7. ~RangesOverlap(r, q)
  <2>1. /\ IsFiniteSet(spells) /\ spells \subseteq SpellType /\ now \in Nat
        /\ (\A x \in spells : ValidSpell(x)) /\ NoOverlap(spells)
    BY UniverseAssumption DEF Inv, SpellsInv
  <2>2. r \in spells /\ q \in spells /\ IsCurrent(r) /\ IsCurrent(q)
    BY VisibleNow
  <2> QED BY <1>6, <2>1, <2>2, NoOverlapMeans
<1>8. r.to <= q.from
  BY <1>1, <1>2, <1>4, <1>5, <1>7 DEF RangesOverlap, None
<1>9. r.to # q.from
  BY DEF NoTouchingSpells
<1>10. Within(start, end, q.from)
  BY <1>1, <1>4, <1>5, <1>8 DEF Within
<1>11. Joined(q) \in ChangesWithin(start, end, now)
  BY <1>10, ChangeOf
<1>12. Joined(q).sid = c.sid /\ Joined(q).effective = q.from /\ Joined(q).removed = 0
  BY <1>3 DEF Joined
<1>13. 2 * q.from + 0 <= 2 * r.to + 1
  BY <1>3, <1>11, <1>12
<1> QED BY <1>4, <1>8, <1>9, <1>13

LEMMA InvChangesCarryMembers == Inv => ChangesCarryMembers
<1> SUFFICES ASSUME Inv, NoTouchingSpells(now), NEW start \in Days, NEW end \in Days,
                    start < end, Covered(start, now)
             PROVE  Applied(Members(start, now).sids, Changes(start, end, now))
                      = Members(end, now).sids
  BY DEF ChangesCarryMembers
<1> DEFINE sids == CoveringSids(VisibleAsOf(now), start)
           changes == Changes(start, end, now)
           n == Len(changes)
<1>1. /\ Members(start, now).sids = sids
      /\ Members(end, now).sids = CoveringSids(VisibleAsOf(now), end)
  BY MembersAre, CoveredLater
<1>2. n \in Nat /\ IsHistory(changes, n, start, end)
  BY ChangesAre
<1> HIDE DEF sids, changes
<1>3. PICK after : /\ Applied(sids, changes) = after[n] /\ after[0] = sids
                   /\ \A k \in 1 .. n : after[k] = Apply(after[k - 1], changes[k])
  BY <1>2, AppliedIs
<1> HIDE DEF n
<1>4. ASSUME NEW s PROVE s \in after[n] <=> s \in CoveringSids(VisibleAsOf(now), end)
  <2>1. PICK i \in 0 .. n : (i # 0 => changes[i].sid = s) /\ NoneAfter(changes, n, i, s)
    BY <1>2, LastChange
  <2>2. s \in after[n] <=> s \in after[i]
    <3>1. n \in Nat /\ \A k \in 1 .. n : after[k] = Apply(after[k - 1], changes[k])
      BY <1>2, <1>3
    <3> QED BY ONLY <2>1, <3>1, OthersChange
  <2>3. CASE i = 0
    <3>1. \A c \in ChangesWithin(start, end, now) : c.sid # s
      BY <1>2, <2>1, <2>3 DEF IsHistory, NoneAfter
    <3>2. s \in sids <=> s \in CoveringSids(VisibleAsOf(now), end)
      BY <3>1, Undisturbed DEF sids
    <3> QED BY <1>3, <2>2, <2>3, <3>2
  <2>4. CASE i # 0
    <3> DEFINE c == changes[i]
    <3>1. i \in 1 .. n /\ c.sid = s
      BY <1>2, <2>1, <2>4
    <3>2. s \in after[i] <=> c.removed # 1
      BY <1>3, <3>1 DEF Apply
    <3>3. c \in ChangesWithin(start, end, now)
      BY <1>2, <3>1 DEF IsHistory
    <3>4. \A d \in ChangesWithin(start, end, now) :
            d.sid = c.sid => d = c \/ 2 * d.effective + d.removed <= 2 * c.effective + c.removed
      BY <1>2, <2>1, <3>1, LastIsLatest
    <3>5. c.removed = 0 \/ c.removed = 1
      BY <3>3, ChangeOf DEF Joined, Left
    <3> HIDE DEF c
    <3>6. c.removed = 0 => c.sid \in CoveringSids(VisibleAsOf(now), end)
      BY <3>3, <3>4, JoinedLast
    <3>7. c.removed = 1 => c.sid \notin CoveringSids(VisibleAsOf(now), end)
      BY <3>3, <3>4, LeftLast
    <3> QED BY <2>2, <3>1, <3>2, <3>5, <3>6, <3>7
  <2> QED BY <2>3, <2>4
<1>5. after[n] = CoveringSids(VisibleAsOf(now), end)
  BY <1>4
<1> QED BY <1>1, <1>3, <1>5 DEF changes

(***************************************************************************)
(* "Applying them in date order to members(start) reproduces members(end)" *)
(* (membership_changes) where no two spells of a security touch, for any   *)
(* universe and any two days: check_memberships keeps the spells of a      *)
(* security apart, so the last of its changes decides.                     *)
(***************************************************************************)
THEOREM ChangesCarry == Spec => []ChangesCarryMembers
BY ContextInvariant, InvChangesCarryMembers, PTL
=============================================================================
