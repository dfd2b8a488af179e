-------------------------- MODULE AsOfFeatures_proofs --------------------------
(***************************************************************************)
(* Theorems about AsOfFeatures for every file of results.                  *)
(***************************************************************************)
EXTENDS AsOfFeatures, FiniteSetTheorems, WellFoundedInduction, TLAPS

-------------------------------------------------------------------------------
(* The order of the matches, and the latest of them *)

LEMMA EarlierIsOrder ==
    ASSUME TypeOK, NEW x \in Match, NEW y \in Match, NEW z \in Match
    PROVE  /\ ~Earlier(x, x)
           /\ Earlier(x, y) /\ Earlier(y, z) => Earlier(x, z)
           /\ x # y => Earlier(x, y) \/ Earlier(y, x)
           /\ Earlier(x, y) => file[x].day <= file[y].day
  <1>1. file[x].day \in Int /\ file[y].day \in Int /\ file[z].day \in Int
    BY ConstantsAssumption DEF TypeOK, Row, Day
  <1>2. x \in Int /\ y \in Int /\ z \in Int
    BY ConstantsAssumption DEF Match
  <1> QED BY <1>1, <1>2 DEF Earlier

LEMMA MaxExists ==
    ASSUME NEW n \in Nat, NEW S \in SUBSET (1 .. n), S # {}
    PROVE  \E x \in S : \A y \in S : y <= x
  <1> DEFINE R == OpToRel(<, Nat)
             T == {n - x : x \in S}
  <1>1. T \subseteq Nat /\ T # {}
    <2>1. \A x \in S : x \in Int /\ x <= n
      OBVIOUS
    <2>2. \A x \in S : n - x \in Nat
      BY <2>1
    <2> QED BY <2>2
  <1>2. IsWellFoundedOn(R, Nat)
    BY NatLessThanWellFounded
  <1>3. PICK t \in T : \A u \in T : <<u, t>> \notin R
    <2> HIDE DEF R, T
    <2> QED BY <1>1, <1>2, WFMin
  <1>4. \A u \in T : ~(u < t)
    BY <1>1, <1>3 DEF OpToRel
  <1>5. PICK x \in S : t = n - x
    OBVIOUS
  <1>6. ASSUME NEW y \in S PROVE y <= x
    <2>1. n - y \in T
      OBVIOUS
    <2> QED BY <1>4, <1>5, <2>1
  <1> QED BY <1>6

\* The greatest index of a set of places in a list is one of them.
LEMMA LatestIsOne ==
    ASSUME NEW n \in Nat, NEW S \in SUBSET (1 .. n), S # {}
    PROVE  (CHOOSE i \in S : \A j \in S : j <= i) \in S
  BY MaxExists

-------------------------------------------------------------------------------
(* Types *)

LEMMA KeptIsFinite ==
    ASSUME NEW p PROVE IsFiniteSet(Kept(p)) /\ Cardinality(Kept(p)) \in Nat
  <1>1. IsFiniteSet(Match)
    BY ConstantsAssumption, FS_Interval DEF Match
  <1>2. Kept(p) \subseteq Match
    BY DEF Kept
  <1> QED BY <1>1, <1>2, FS_Subset, FS_CardinalityType

LEMMA ApplyKeepsTypes ==
    ASSUME TypeOK, NEW p \in Program, NEW m \in Match, Apply(p, m)
    PROVE  /\ file' = file
           /\ pending' \in [Program -> SUBSET Match]
           /\ history' \in [Program -> Seq(Match)]
           /\ \A q \in Program :
                Len(history'[q]) + Cardinality(pending'[q]) = Cardinality(Kept(q))
           /\ Len(history'[p]) = Len(history[p]) + 1
           /\ \A q \in Program : q # p => Len(history'[q]) = Len(history[q])
  <1>1. /\ file' = file /\ m \in pending[p]
        /\ pending' = [pending EXCEPT ![p] = pending[p] \ {m}]
        /\ history' = [history EXCEPT ![p] = Append(history[p], m)]
    BY DEF Apply, Left
  <1>2. history[p] \in Seq(Match)
    BY DEF TypeOK
  <1>3. Len(history'[p]) = Len(history[p]) + 1 /\ history'[p] \in Seq(Match)
    BY <1>1, <1>2 DEF TypeOK
  <1>4. Cardinality(pending[p] \ {m}) = Cardinality(pending[p]) - 1
    <2>1. IsFiniteSet(pending[p])
      BY ConstantsAssumption, FS_Interval, FS_Subset DEF TypeOK, Match
    <2> QED BY <1>1, <2>1, FS_RemoveElement
  <1>5. Cardinality(pending[p]) \in Nat
    <2>1. IsFiniteSet(pending[p])
      BY ConstantsAssumption, FS_Interval, FS_Subset DEF TypeOK, Match
    <2> QED BY <2>1, FS_CardinalityType
  <1>6. Len(history'[p]) + Cardinality(pending'[p]) = Cardinality(Kept(p))
    BY <1>1, <1>2, <1>3, <1>4, <1>5 DEF TypeOK
  <1>7. \A q \in Program : q # p => history'[q] = history[q] /\ pending'[q] = pending[q]
    BY <1>1 DEF TypeOK
  <1> QED BY <1>1, <1>2, <1>3, <1>6, <1>7 DEF TypeOK

LEMMA TypeInductive == TypeOK /\ [Next]_vars => TypeOK'
  <1> SUFFICES ASSUME TypeOK, [Next]_vars PROVE TypeOK'
    OBVIOUS
  <1>0. "live" \in Program /\ "train" \in Program /\ "live" # "train"
    BY DEF Program
  <1>1. ASSUME NEW p \in Program, NEW m \in Match, Apply(p, m),
               Len(rows') = Len(history'["train"])
        PROVE  TypeOK'
    <2>1. /\ file' = file
          /\ pending' \in [Program -> SUBSET Match] /\ history' \in [Program -> Seq(Match)]
          /\ \A q \in Program :
               Len(history'[q]) + Cardinality(pending'[q]) = Cardinality(Kept(q))
      BY <1>1, ApplyKeepsTypes
    <2>2. \A q : Kept(q)' = Kept(q)
      BY <2>1 DEF Kept
    <2>3. file' \in [Match -> Row]
      BY <2>1 DEF TypeOK
    <2> QED BY <1>1, <2>1, <2>2, <2>3 DEF TypeOK
  <1>2. ASSUME NEW m \in Match, Load(m) PROVE TypeOK'
    <2>1. Apply("live", m) /\ rows' = rows
      BY <1>2 DEF Load
    <2>2. Len(history'["train"]) = Len(history["train"])
      BY <1>0, <2>1, ApplyKeepsTypes
    <2>3. Len(rows') = Len(history'["train"])
      BY <2>1, <2>2 DEF TypeOK
    <2> QED BY <1>0, <1>1, <2>1, <2>3
  <1>4. ASSUME NEW m \in Match, Replay(m) PROVE TypeOK'
    <2>1. Apply("train", m) /\ Len(rows') = Len(rows) + 1
      BY <1>4 DEF Replay
    <2>2. Len(history'["train"]) = Len(history["train"]) + 1
      BY <1>0, <2>1, ApplyKeepsTypes
    <2>3. Len(rows') = Len(history'["train"])
      BY <2>1, <2>2 DEF TypeOK
    <2> QED BY <1>0, <1>1, <2>1, <2>3
  <1>3. CASE UNCHANGED vars
    BY <1>3 DEF vars, TypeOK, Kept
  <1> QED BY <1>2, <1>3, <1>4 DEF Next

\* Types; and a program applies every row it kept exactly once.
THEOREM AsOfTypeCorrect == Spec => []TypeOK
  <1>1. Init => TypeOK
    <2> SUFFICES ASSUME Init PROVE TypeOK
      OBVIOUS
    <2>1. \A p \in Program : pending[p] = Kept(p) /\ history[p] = <<>>
      BY DEF Init
    <2>2. pending \in [Program -> SUBSET Match] /\ history \in [Program -> Seq(Match)]
      BY DEF Init, Kept
    <2>3. \A p \in Program : Len(history[p]) + Cardinality(pending[p]) = Cardinality(Kept(p))
      BY <2>1, KeptIsFinite
    <2> QED BY <2>1, <2>2, <2>3 DEF Init, TypeOK, Program
  <1> QED BY <1>1, TypeInductive, PTL DEF Spec

-------------------------------------------------------------------------------
(* What one turn of a loop does *)

\* The functions that hold ratings have the domains they started with.
Shape ==
    /\ DOMAIN after = Program /\ DOMAIN rating = Program
    /\ \A p \in Program : DOMAIN after[p] = Match /\ DOMAIN rating[p] = Team

LEMMA ApplyEffect ==
    ASSUME TypeOK, Shape, NEW p \in Program, NEW m \in Match, Apply(p, m)
    PROVE  /\ Len(history[p]) \in Nat /\ file' = file
           /\ Len(history'[p]) = Len(history[p]) + 1
           /\ \A i \in 1 .. Len(history[p]) : history'[p][i] = history[p][i]
           /\ history'[p][Len(history[p]) + 1] = m
           /\ pending'[p] = pending[p] \ {m}
           /\ \A q \in Program : q # p => history'[q] = history[q] /\ pending'[q] = pending[q]
  <1> DEFINE n == Len(history[p])
  <1>1. /\ file' = file
        /\ pending' = [pending EXCEPT ![p] = pending[p] \ {m}]
        /\ history' = [history EXCEPT ![p] = Append(history[p], m)]
    BY DEF Apply, Left
  <1>2. history[p] \in Seq(Match) /\ n \in Nat
    BY DEF TypeOK
  <1>3. /\ Len(history'[p]) = n + 1
        /\ \A i \in 1 .. n : history'[p][i] = history[p][i]
        /\ history'[p][n + 1] = m
    BY <1>1, <1>2 DEF TypeOK
  <1> QED BY <1>1, <1>2, <1>3 DEF TypeOK

LEMMA ApplyRatings ==
    ASSUME TypeOK, Shape, NEW p \in Program, NEW m \in Match, Apply(p, m)
    PROVE  /\ Shape'
           /\ \A x \in Match : x # m => after'[p][x] = after[p][x]
           /\ after'[p][m] = [t \in {file[m].home, file[m].away} |-> NewRating(p, m, t)]
           /\ \A t \in Team :
                rating'[p][t] = IF Plays(m, t) THEN after'[p][m][t] ELSE rating[p][t]
           /\ \A q \in Program : q # p => after'[q] = after[q] /\ rating'[q] = rating[q]
  <1> DEFINE new == [t \in {file[m].home, file[m].away} |-> NewRating(p, m, t)]
             new2 == [t \in Team |-> IF Plays(m, t) THEN new[t] ELSE rating[p][t]]
  <1>1. /\ after' = [after EXCEPT ![p] = [after[p] EXCEPT ![m] = new]]
        /\ rating' = [rating EXCEPT ![p] = new2]
    BY DEF Apply
  <1>2. \A t \in Team : new2[t] = IF Plays(m, t) THEN new[t] ELSE rating[p][t]
    OBVIOUS
  <1>3. DOMAIN new2 = Team
    OBVIOUS
  <1> HIDE DEF new, new2
  <1>4. /\ after'[p] = [after[p] EXCEPT ![m] = new]
        /\ rating'[p] = new2
        /\ DOMAIN after' = Program /\ DOMAIN rating' = Program
    BY <1>1 DEF Shape
  <1>5. /\ after'[p][m] = new /\ DOMAIN after'[p] = Match
        /\ \A x \in Match : x # m => after'[p][x] = after[p][x]
    BY <1>4 DEF Shape
  <1>6. \A q \in Program : q # p => after'[q] = after[q] /\ rating'[q] = rating[q]
    BY <1>1 DEF Shape
  <1>7. Shape'
    BY <1>3, <1>4, <1>5, <1>6 DEF Shape
  <1> QED BY <1>2, <1>4, <1>5, <1>6, <1>7 DEF new

-------------------------------------------------------------------------------
(* Both programs apply the matches in the same order *)

\* What is applied is earlier than what is pending, and nothing is lost.
OrderInv ==
    \A p \in Program :
        /\ \A i, j \in 1 .. Len(history[p]) :
             i < j => Earlier(history[p][i], history[p][j])
        /\ \A i \in 1 .. Len(history[p]), m \in pending[p] : Earlier(history[p][i], m)
        /\ \A m \in Kept(p) : m \in pending[p] \/ \E i \in 1 .. Len(history[p]) : history[p][i] = m
        /\ pending[p] \subseteq Kept(p)
        /\ \A i \in 1 .. Len(history[p]) : history[p][i] \in Kept(p)

LEMMA OrderInductive ==
    ASSUME TypeOK, Shape, OrderInv, NEW p \in Program, NEW m \in Match, Apply(p, m)
    PROVE  OrderInv'
  <1> DEFINE n == Len(history[p])
  <1>0. /\ n \in Nat /\ file' = file
        /\ Len(history'[p]) = n + 1
        /\ \A i \in 1 .. n : history'[p][i] = history[p][i]
        /\ history'[p][n + 1] = m
        /\ pending'[p] = pending[p] \ {m}
        /\ \A q \in Program : q # p => history'[q] = history[q] /\ pending'[q] = pending[q]
    BY ApplyEffect
  <1>1. m \in pending[p] /\ \A x \in pending[p] \ {m} : Earlier(m, x)
    BY DEF Apply
  <1> HIDE DEF n
  <1>2. /\ \A x, y : Earlier(x, y)' <=> Earlier(x, y)
        /\ \A q \in Program : Kept(q)' = Kept(q)
    BY <1>0 DEF Earlier, Kept
  <1>3. ASSUME NEW q \in Program, q # p
        PROVE  /\ \A i, j \in 1 .. Len(history'[q]) :
                    i < j => Earlier(history'[q][i], history'[q][j])
               /\ \A i \in 1 .. Len(history'[q]), x \in pending'[q] : Earlier(history'[q][i], x)
               /\ \A x \in Kept(q) : x \in pending'[q]
                                     \/ \E i \in 1 .. Len(history'[q]) : history'[q][i] = x
               /\ pending'[q] \subseteq Kept(q)
               /\ \A i \in 1 .. Len(history'[q]) : history'[q][i] \in Kept(q)
    BY <1>0, <1>3 DEF OrderInv
  <1>4. n = Len(history[p])
    BY DEF n
  <1>5. ASSUME NEW i \in 1 .. n + 1, NEW j \in 1 .. n + 1, i < j
        PROVE  Earlier(history'[p][i], history'[p][j])
    <2>1. i \in 1 .. n
      BY <1>0, <1>5
    <2>2. CASE j = n + 1
      BY <1>0, <1>1, <1>4, <2>1, <2>2 DEF OrderInv
    <2>3. CASE j # n + 1
      <3>1. j \in 1 .. n
        BY <1>0, <2>3
      <3> QED BY <1>0, <1>4, <1>5, <2>1, <3>1 DEF OrderInv
    <2> QED BY <2>2, <2>3
  <1>6. ASSUME NEW i \in 1 .. n + 1, NEW x \in pending'[p]
        PROVE  Earlier(history'[p][i], x)
    <2>1. CASE i = n + 1
      BY <1>0, <1>1, <2>1
    <2>2. CASE i # n + 1
      <3>1. i \in 1 .. n
        BY <1>0, <2>2
      <3> QED BY <1>0, <1>4, <3>1 DEF OrderInv
    <2> QED BY <2>1, <2>2
  <1>7. ASSUME NEW x \in Kept(p), x \notin pending'[p]
        PROVE  \E i \in 1 .. n + 1 : history'[p][i] = x
    <2>1. CASE x = m
      BY <1>0, <2>1
    <2>2. CASE x # m
      <3>1. PICK i \in 1 .. n : history[p][i] = x
        BY <1>0, <1>4, <1>7, <2>2 DEF OrderInv
      <3> QED BY <1>0, <3>1
    <2> QED BY <2>1, <2>2
  <1>8. /\ pending'[p] \subseteq Kept(p)
        /\ \A i \in 1 .. n + 1 : history'[p][i] \in Kept(p)
    <2>1. m \in Kept(p) /\ pending'[p] \subseteq Kept(p)
      BY <1>0, <1>1 DEF OrderInv
    <2>2. ASSUME NEW i \in 1 .. n + 1 PROVE i \in 1 .. n \/ i = n + 1
      BY <1>0
    <2>3. ASSUME NEW i \in 1 .. n PROVE history'[p][i] \in Kept(p)
      <3>1. history[p][i] \in Kept(p)
        BY <1>4 DEF OrderInv
      <3>2. history'[p][i] = history[p][i]
        BY <1>0
      <3> QED BY <3>1, <3>2
    <2>4. history'[p][n + 1] \in Kept(p)
      BY <1>0, <2>1
    <2>5. ASSUME NEW i \in 1 .. n + 1 PROVE history'[p][i] \in Kept(p)
      BY <2>2, <2>3, <2>4
    <2> QED BY <2>1, <2>5
  <1> QED BY <1>0, <1>2, <1>3, <1>5, <1>6, <1>7, <1>8 DEF OrderInv

-------------------------------------------------------------------------------
(* Equal histories give equal reads *)

\* S is a set of places in a list, and the two histories say the same there.
SameEntries(S, team, g, a, h, b) ==
    /\ \E n \in Nat : S \subseteq 1 .. n
    /\ \A i \in S : g[i] = h[i] /\ a[g[i]][team] = b[h[i]][team]

\* A rating depends on the entries seen and on nothing else.
LEMMA RatingOfEntries ==
    ASSUME NEW S, NEW team, NEW g, NEW h, NEW a, NEW b, SameEntries(S, team, g, a, h, b)
    PROVE  LatestRating(g, a, S, team) = LatestRating(h, b, S, team)
  <1> USE DEF SameEntries
  <1>1. CASE S = {}
    BY <1>1 DEF LatestRating
  <1>2. CASE S # {}
    <2> DEFINE last == CHOOSE i \in S : \A j \in S : j <= i
    <2>1. last \in S
      BY <1>2, LatestIsOne
    <2>2. a[g[last]][team] = b[h[last]][team]
      BY <2>1
    <2> HIDE DEF last
    <2>3. LatestRating(g, a, S, team) = a[g[last]][team]
      BY <1>2 DEF LatestRating, last
    <2>4. LatestRating(h, b, S, team) = b[h[last]][team]
      BY <1>2 DEF LatestRating, last
    <2> QED BY <2>2, <2>3, <2>4
  <1> QED BY <1>1, <1>2

\* So does the form.
LEMMA FormOfEntries ==
    ASSUME NEW f, NEW S, NEW g, NEW h, \A i \in S : g[i] = h[i]
    PROVE  LatestForm(f, g, S) = LatestForm(f, h, S)
  <1>1. ASSUME NEW i \in S
        PROVE  {j \in S : NewerFirst(f, g, j, i)} = {j \in S : NewerFirst(f, h, j, i)}
    BY <1>1 DEF NewerFirst
  <1> DEFINE G == {i \in S : Cardinality({j \in S : NewerFirst(f, g, j, i)}) < FormLength}
             H == {i \in S : Cardinality({j \in S : NewerFirst(f, h, j, i)}) < FormLength}
  <1>2. G = H /\ G \subseteq S
    BY <1>1
  <1>3. LatestForm(f, g, S) = {g[i] : i \in G} /\ LatestForm(f, h, S) = {h[i] : i \in H}
    BY DEF LatestForm
  <1> HIDE DEF G, H
  <1> QED BY <1>2, <1>3

\* No match dated t or later is seen as of t, so applying one changes no read:
\* neither an instant's rating nor its form ever depends on what came after.
LEMMA ReadsAreFinal ==
    ASSUME TypeOK, Shape, OrderInv, NEW p \in Program, NEW m \in Match, Apply(p, m),
           NEW team, NEW t \in Int, t <= file[m].day
    PROVE  /\ Seen(p, team, t)' = Seen(p, team, t)
           /\ RatingAsOf(p, team, t)' = RatingAsOf(p, team, t)
           /\ FormAsOf(p, team, t)' = FormAsOf(p, team, t)
  <1> DEFINE n == Len(history[p])
  <1>0. /\ n \in Nat /\ file' = file
        /\ Len(history'[p]) = n + 1
        /\ \A i \in 1 .. n : history'[p][i] = history[p][i]
        /\ history'[p][n + 1] = m
    BY ApplyEffect
  <1>12. \A x \in Match : x # m => after'[p][x] = after[p][x]
    BY ApplyRatings
  <1> DEFINE S == Seen(p, team, t)
  <1>1. file[m].day \in Int
    BY ConstantsAssumption DEF TypeOK, Row, Day
  <1>2. /\ DOMAIN history[p] = 1 .. n
        /\ \A i \in 1 .. n : history[p][i] \in Match
    BY DEF TypeOK
  <1>3. history' \in [Program -> Seq(Match)]
    BY ApplyKeepsTypes
  <1>4. DOMAIN history'[p] = 1 .. n + 1
    BY <1>0, <1>3
  <1> HIDE DEF n
  <1>5. S \subseteq 1 .. n
    BY <1>2 DEF Seen
  <1>6. S' = S
    BY <1>0, <1>1, <1>2, <1>4 DEF Seen, Plays, BeforeAsOf
  <1>7. m \in pending[p]
    BY DEF Apply
  <1>8. \A i \in 1 .. n : history[p][i] # m
    BY <1>2, <1>7, EarlierIsOrder DEF OrderInv, n
  <1>9. \A i \in S : /\ history'[p][i] = history[p][i]
                     /\ after'[p][history'[p][i]][team] = after[p][history[p][i]][team]
    BY <1>0, <1>2, <1>5, <1>8, <1>12
  <1> HIDE DEF S
  <1>10. LatestRating(history'[p], after'[p], S, team)
           = LatestRating(history[p], after[p], S, team)
    <2>1. SameEntries(S, team, history'[p], after'[p], history[p], after[p])
      BY <1>0, <1>5, <1>9 DEF SameEntries
    <2> QED BY <2>1, RatingOfEntries
  <1>11. LatestForm(file, history'[p], S) = LatestForm(file, history[p], S)
    BY <1>9, FormOfEntries
  <1> QED BY <1>0, <1>6, <1>10, <1>11 DEF RatingAsOf, FormAsOf, S

-------------------------------------------------------------------------------
(* Ratings come from the entries before, in both programs alike *)

\* The entries of history h among the first k that a team of file f played in.
Played(f, h, team, k) == {i \in 1 .. k : team \in {f[h[i]].home, f[h[i]].away}}

\* The rating of a team after the first k entries.
RatingAfter(f, h, a, team, k) == LatestRating(h, a, Played(f, h, team, k), team)

\* What a match makes of its teams' ratings x and y.
Entry(f, m, x, y) == [t \in {f[m].home, f[m].away} |-> <<x, y, m, t>>]

\* Each entry's ratings come from those after the entries before it.
EntriesDerived(f, h, a) ==
    \A k \in 1 .. Len(h) :
        a[h[k]] = Entry(f, h[k], RatingAfter(f, h, a, f[h[k]].home, k - 1),
                                 RatingAfter(f, h, a, f[h[k]].away, k - 1))

\* And the current ratings are those after the last entry.
RatingsDerived(f, h, a, r) ==
    \A t \in Team : r[t] = RatingAfter(f, h, a, t, Len(h))

\* Histories that agree on k entries agree on the ratings after them.
LEMMA RatingAfterAgrees ==
    ASSUME NEW f, NEW g, NEW h, NEW a, NEW b, NEW k \in Nat, NEW team \in Team,
           \A i \in 1 .. k : g[i] = h[i] /\ a[h[i]] = b[h[i]]
    PROVE  RatingAfter(f, g, a, team, k) = RatingAfter(f, h, b, team, k)
  <1> DEFINE S == Played(f, h, team, k)
  <1>1. Played(f, g, team, k) = S
    BY DEF Played
  <1>2. \E n \in Nat : S \subseteq 1 .. n
    BY DEF Played
  <1>3. SameEntries(S, team, g, a, h, b)
    BY <1>2 DEF Played, SameEntries
  <1> HIDE DEF S
  <1>4. LatestRating(g, a, S, team) = LatestRating(h, b, S, team)
    BY <1>3, RatingOfEntries
  <1> QED BY <1>1, <1>4 DEF RatingAfter, S

\* What applying m to a history h with entries a and ratings r makes of them.
OneMore(f, h, a, r, m, g, b, s) ==
    /\ \A i \in 1 .. Len(h) : h[i] # m
    /\ Len(g) = Len(h) + 1
    /\ \A i \in 1 .. Len(h) : g[i] = h[i]
    /\ g[Len(h) + 1] = m
    /\ \A x \in Match : x # m => b[x] = a[x]
    /\ b[m] = Entry(f, m, r[f[m].home], r[f[m].away])
    /\ \A t \in Team : s[t] = IF t \in {f[m].home, f[m].away} THEN b[m][t] ELSE r[t]

\* Applying one more match keeps ratings and entries derived.
LEMMA OneMoreMatch ==
    ASSUME NEW f \in [Match -> Row], NEW h \in Seq(Match), NEW a, NEW r,
           NEW g, NEW b, NEW s, NEW m \in Match,
           EntriesDerived(f, h, a), RatingsDerived(f, h, a, r),
           OneMore(f, h, a, r, m, g, b, s)
    PROVE  EntriesDerived(f, g, b) /\ RatingsDerived(f, g, b, s)
  <1> DEFINE n == Len(h)
  <1> USE DEF OneMore
  <1>1. n \in Nat /\ \A i \in 1 .. n : h[i] \in Match
    OBVIOUS
  <1>2. \A x \in Match : f[x].home \in Team /\ f[x].away \in Team
    BY DEF Row
  <1>3. ASSUME NEW team \in Team, NEW k \in 0 .. n
        PROVE  RatingAfter(f, g, b, team, k) = RatingAfter(f, h, a, team, k)
    <2>1. k \in Nat /\ \A i \in 1 .. k : i \in 1 .. n
      BY <1>1
    <2>2. \A i \in 1 .. k : g[i] = h[i] /\ b[h[i]] = a[h[i]]
      BY <1>1, <2>1
    <2>3. k \in Nat
      BY <2>1
    <2> QED BY <2>2, <2>3, RatingAfterAgrees
  <1>4. ASSUME NEW team \in Team, team \in {f[m].home, f[m].away}
        PROVE  RatingAfter(f, g, b, team, n + 1) = b[m][team]
    <2> DEFINE S == Played(f, g, team, n + 1)
               last == CHOOSE i \in S : \A j \in S : j <= i
    <2>1. n + 1 \in S /\ \A j \in S : j <= n + 1 /\ j \in Int
      BY <1>1, <1>4 DEF Played
    <2> HIDE DEF S
    <2>2. \A i \in S : (\A j \in S : j <= i) => i = n + 1
      BY <1>1, <2>1
    <2>3. last = n + 1
      BY <2>1, <2>2
    <2> HIDE DEF last
    <2>4. LatestRating(g, b, S, team) = b[g[last]][team]
      BY <2>1 DEF LatestRating, last
    <2> QED BY <2>3, <2>4 DEF RatingAfter, S
  <1>5. ASSUME NEW team \in Team, team \notin {f[m].home, f[m].away}
        PROVE  RatingAfter(f, g, b, team, n + 1) = RatingAfter(f, g, b, team, n)
    <2>1. Played(f, g, team, n + 1) = Played(f, g, team, n)
      BY <1>1, <1>5 DEF Played
    <2> QED BY <2>1 DEF RatingAfter
  <1> HIDE DEF n
  <1>6. RatingsDerived(f, g, b, s)
    <2> SUFFICES ASSUME NEW t \in Team PROVE s[t] = RatingAfter(f, g, b, t, n + 1)
      BY DEF RatingsDerived, n
    <2>1. CASE t \in {f[m].home, f[m].away}
      BY <1>4, <2>1
    <2>2. CASE t \notin {f[m].home, f[m].away}
      <3>1. r[t] = RatingAfter(f, h, a, t, n)
        BY DEF RatingsDerived, n
      <3>2. RatingAfter(f, g, b, t, n) = RatingAfter(f, h, a, t, n)
        BY <1>1, <1>3
      <3> QED BY <1>5, <2>2, <3>1, <3>2
    <2> QED BY <2>1, <2>2
  <1>7. EntriesDerived(f, g, b)
    <2> SUFFICES ASSUME NEW k \in 1 .. n + 1
                 PROVE  b[g[k]] = Entry(f, g[k], RatingAfter(f, g, b, f[g[k]].home, k - 1),
                                                 RatingAfter(f, g, b, f[g[k]].away, k - 1))
      BY DEF EntriesDerived, n
    <2>1. k - 1 \in 0 .. n
      BY <1>1
    <2>2. CASE k = n + 1
      <3>1. g[k] = m /\ k - 1 = n
        BY <1>1, <2>2 DEF n
      <3>3. /\ r[f[m].home] = RatingAfter(f, h, a, f[m].home, n)
            /\ r[f[m].away] = RatingAfter(f, h, a, f[m].away, n)
        BY <1>2 DEF RatingsDerived, n
      <3>4. /\ RatingAfter(f, g, b, f[m].home, n) = RatingAfter(f, h, a, f[m].home, n)
            /\ RatingAfter(f, g, b, f[m].away, n) = RatingAfter(f, h, a, f[m].away, n)
        BY <1>1, <1>2, <1>3
      <3> QED BY <3>1, <3>3, <3>4
    <2>3. CASE k # n + 1
      <3>1. k \in 1 .. n
        BY <1>1, <2>3
      <3>2. g[k] = h[k] /\ h[k] \in Match /\ h[k] # m
        BY <1>1, <3>1 DEF n
      <3>3. a[h[k]] = Entry(f, h[k], RatingAfter(f, h, a, f[h[k]].home, k - 1),
                                     RatingAfter(f, h, a, f[h[k]].away, k - 1))
        BY <3>1, <3>2 DEF EntriesDerived, n
      <3>4. /\ RatingAfter(f, g, b, f[h[k]].home, k - 1) = RatingAfter(f, h, a, f[h[k]].home, k - 1)
            /\ RatingAfter(f, g, b, f[h[k]].away, k - 1) = RatingAfter(f, h, a, f[h[k]].away, k - 1)
        BY <1>2, <1>3, <2>1, <3>2
      <3> QED BY <3>2, <3>3, <3>4
    <2> QED BY <2>2, <2>3
  <1> QED BY <1>6, <1>7

\* Every rating of either program is derived from the matches applied before.
DerivedInv ==
    \A p \in Program : /\ EntriesDerived(file, history[p], after[p])
                       /\ RatingsDerived(file, history[p], after[p], rating[p])

LEMMA DerivedInductive ==
    ASSUME TypeOK, Shape, OrderInv, DerivedInv,
           NEW p \in Program, NEW m \in Match, Apply(p, m)
    PROVE  DerivedInv'
  <1>1. /\ file' = file
        /\ \A q \in Program : q # p => history'[q] = history[q]
    BY ApplyEffect
  <1>2. \A q \in Program : q # p => after'[q] = after[q] /\ rating'[q] = rating[q]
    BY ApplyRatings
  <1>3. OneMore(file, history[p], after[p], rating[p], m, history'[p], after'[p], rating'[p])
    <2>1. m \in pending[p] /\ \A i \in 1 .. Len(history[p]) : history[p][i] \in Match
      BY DEF Apply, TypeOK
    <2>2. \A i \in 1 .. Len(history[p]) : history[p][i] # m
      BY <2>1, EarlierIsOrder DEF OrderInv
    <2>3. /\ \A x \in Match : x # m => after'[p][x] = after[p][x]
          /\ after'[p][m] = [t \in {file[m].home, file[m].away} |-> NewRating(p, m, t)]
          /\ \A t \in Team :
               rating'[p][t] = IF Plays(m, t) THEN after'[p][m][t] ELSE rating[p][t]
      BY ApplyRatings
    <2>4. after'[p][m] = Entry(file, m, rating[p][file[m].home], rating[p][file[m].away])
      BY <2>3 DEF Entry, NewRating
    <2>5. /\ Len(history'[p]) = Len(history[p]) + 1
          /\ \A i \in 1 .. Len(history[p]) : history'[p][i] = history[p][i]
          /\ history'[p][Len(history[p]) + 1] = m
      BY ApplyEffect
    <2> QED BY <2>2, <2>3, <2>4, <2>5 DEF OneMore, Plays
  <1>4. /\ EntriesDerived(file, history'[p], after'[p])
        /\ RatingsDerived(file, history'[p], after'[p], rating'[p])
    <2>1. file \in [Match -> Row] /\ history[p] \in Seq(Match)
      BY DEF TypeOK
    <2>2. /\ EntriesDerived(file, history[p], after[p])
          /\ RatingsDerived(file, history[p], after[p], rating[p])
      BY DEF DerivedInv
    <2> QED BY <1>3, <2>1, <2>2, OneMoreMatch
  <1> QED BY <1>1, <1>2, <1>4 DEF DerivedInv

\* Every row of the file has goals, and so neither program drops one.
AllKept == \A p \in Program : Kept(p) = Match

\* As far as both have come, the two programs have the same entries.
SameInv ==
    \A p, q \in Program, k \in Nat :
        k \in 1 .. Len(history[p]) /\ k \in 1 .. Len(history[q]) =>
            /\ history[p][k] = history[q][k]
            /\ after[p][history[p][k]] = after[q][history[q][k]]

LEMMA SameInductive ==
    ASSUME TypeOK, Shape, OrderInv, DerivedInv, AllKept, SameInv,
           NEW p \in Program, NEW m \in Match, Apply(p, m)
    PROVE  SameInv'
  <1> DEFINE n == Len(history[p])
  <1>1. /\ n \in Nat /\ file' = file
        /\ Len(history'[p]) = n + 1
        /\ \A i \in 1 .. n : history'[p][i] = history[p][i]
        /\ history'[p][n + 1] = m
        /\ \A q \in Program : q # p => history'[q] = history[q]
    BY ApplyEffect
  <1>2. /\ \A x \in Match : x # m => after'[p][x] = after[p][x]
        /\ after'[p][m] = [t \in {file[m].home, file[m].away} |-> NewRating(p, m, t)]
        /\ \A q \in Program : q # p => after'[q] = after[q]
    BY ApplyRatings
  <1>3. \A q \in Program : /\ Len(history[q]) \in Nat
                           /\ \A i \in 1 .. Len(history[q]) : history[q][i] \in Match
    BY DEF TypeOK
  <1>4. m \in pending[p] /\ \A x \in pending[p] \ {m} : Earlier(m, x)
    BY DEF Apply
  <1>5. \A i \in 1 .. n : history[p][i] # m
    BY <1>3, <1>4, EarlierIsOrder DEF OrderInv
  <1>6. ASSUME NEW q \in Program, q # p, n + 1 \in 1 .. Len(history[q])
        PROVE  history[q][n + 1] = m
    <2> DEFINE x == history[q][n + 1]
    <2>1. x \in Match
      BY <1>3, <1>6
    <2>2. ASSUME NEW i \in 1 .. n
          PROVE  i \in 1 .. Len(history[q]) /\ history[p][i] = history[q][i] /\ i < n + 1
      <3>1. i \in 1 .. Len(history[q]) /\ i \in Nat /\ i < n + 1
        BY <1>1, <1>3, <1>6
      <3> QED BY <3>1 DEF SameInv
    <2>3. \A i \in 1 .. n : Earlier(history[p][i], x)
      BY <1>6, <2>2 DEF OrderInv
    <2>4. \A i \in 1 .. n : history[p][i] # x
      BY <1>3, <2>1, <2>3, EarlierIsOrder
    <2>5. x \in pending[p]
      BY <2>1, <2>4 DEF OrderInv, AllKept
    <2>6. SUFFICES ASSUME x # m PROVE FALSE
      OBVIOUS
    <2>7. Earlier(m, x)
      BY <1>4, <2>5, <2>6
    <2>8. ~Earlier(x, m)
      BY <2>1, <2>7, EarlierIsOrder
    <2>9. m \notin pending[q]
      BY <1>6, <2>8 DEF OrderInv
    <2>10. PICK j \in 1 .. Len(history[q]) : history[q][j] = m
      BY <2>9 DEF OrderInv, AllKept
    <2>11. CASE j < n + 1
      <3>1. j \in 1 .. n
        BY <1>1, <1>3, <2>11
      <3> QED BY <1>5, <2>2, <2>10, <3>1
    <2>12. CASE j = n + 1
      BY <2>6, <2>10, <2>12
    <2>13. CASE n + 1 < j
      BY <1>6, <2>8, <2>10, <2>13 DEF OrderInv
    <2> QED BY <1>1, <1>3, <2>11, <2>12, <2>13
  <1>7. ASSUME NEW q \in Program, q # p, n + 1 \in 1 .. Len(history[q])
        PROVE  after'[p][m] = after[q][m]
    <2>1. history[q][n + 1] = m
      BY <1>6, <1>7
    <2>2. after[q][m] = Entry(file, m, RatingAfter(file, history[q], after[q], file[m].home, n),
                                       RatingAfter(file, history[q], after[q], file[m].away, n))
      <3>1. (n + 1) - 1 = n
        BY <1>1
      <3> QED BY <1>7, <2>1, <3>1 DEF DerivedInv, EntriesDerived
    <2>3. file[m].home \in Team /\ file[m].away \in Team
      BY DEF TypeOK, Row
    <2>4. /\ rating[p][file[m].home] = RatingAfter(file, history[p], after[p], file[m].home, n)
          /\ rating[p][file[m].away] = RatingAfter(file, history[p], after[p], file[m].away, n)
      BY <2>3 DEF DerivedInv, RatingsDerived
    <2>5. after'[p][m] = Entry(file, m, rating[p][file[m].home], rating[p][file[m].away])
      BY <1>2 DEF Entry, NewRating
    <2>6. \A i \in 1 .. n : /\ history[p][i] = history[q][i]
                            /\ after[p][history[q][i]] = after[q][history[q][i]]
      <3>1. \A i \in 1 .. n : i \in Nat /\ i \in 1 .. Len(history[q])
        BY <1>1, <1>3, <1>7
      <3> QED BY <3>1 DEF SameInv
    <2> HIDE DEF n
    <2>7. \A team \in Team : RatingAfter(file, history[p], after[p], team, n)
                               = RatingAfter(file, history[q], after[q], team, n)
      BY <1>1, <2>6, RatingAfterAgrees
    <2> QED BY <2>2, <2>3, <2>4, <2>5, <2>7
  <1>8. ASSUME NEW q \in Program, q # p, NEW k \in Nat,
               k \in 1 .. Len(history'[p]), k \in 1 .. Len(history'[q])
        PROVE  /\ history'[p][k] = history'[q][k]
               /\ after'[p][history'[p][k]] = after'[q][history'[q][k]]
    <2>1. history'[q] = history[q] /\ after'[q] = after[q]
      BY <1>1, <1>2, <1>8
    <2>2. CASE k = n + 1
      BY <1>1, <1>6, <1>7, <1>8, <2>1, <2>2
    <2>3. CASE k # n + 1
      <3>1. k \in 1 .. n
        BY <1>1, <1>8, <2>3
      <3>2. history[p][k] \in Match /\ history[p][k] # m
        BY <1>3, <1>5, <3>1
      <3>3. history[p][k] = history[q][k] /\ after[p][history[p][k]] = after[q][history[q][k]]
        BY <1>8, <2>1, <3>1 DEF SameInv
      <3> QED BY <1>1, <1>2, <2>1, <3>1, <3>2, <3>3
    <2> QED BY <2>2, <2>3
  <1>9. \A q \in Program : q # p => history'[q] = history[q] /\ after'[q] = after[q]
    BY <1>1, <1>2
  <1>10. ASSUME NEW q \in Program, q # p, NEW l \in Program, l # p, NEW k \in Nat,
                k \in 1 .. Len(history'[q]), k \in 1 .. Len(history'[l])
         PROVE  /\ history'[q][k] = history'[l][k]
                /\ after'[q][history'[q][k]] = after'[l][history'[l][k]]
    <2>1. history'[q] = history[q] /\ after'[q] = after[q]
      BY <1>9, <1>10
    <2>2. history'[l] = history[l] /\ after'[l] = after[l]
      BY <1>9, <1>10
    <2>3. k \in 1 .. Len(history[q]) /\ k \in 1 .. Len(history[l])
      BY <1>10, <2>1, <2>2
    <2>4. /\ history[q][k] = history[l][k]
          /\ after[q][history[q][k]] = after[l][history[l][k]]
      BY <2>3 DEF SameInv
    <2> QED BY <2>1, <2>2, <2>4
  <1> QED
    <2> SUFFICES ASSUME NEW q \in Program, NEW l \in Program, NEW k \in Nat,
                        k \in 1 .. Len(history'[q]), k \in 1 .. Len(history'[l])
                 PROVE  /\ history'[q][k] = history'[l][k]
                        /\ after'[q][history'[q][k]] = after'[l][history'[l][k]]
      BY DEF SameInv
    <2>1. CASE q = p /\ l = p
      BY <2>1
    <2>2. CASE q = p /\ l # p
      BY <1>8, <2>2
    <2>3. CASE q # p /\ l = p
      BY <1>8, <2>3
    <2>4. CASE q # p /\ l # p
      BY <1>10, <2>4
    <2> QED BY <2>1, <2>2, <2>3, <2>4

-------------------------------------------------------------------------------
(* The rows of the dataset *)

\* A row holds what the dataset's engines still say as of the date of its match.
RowsInv ==
    /\ \E S : rows \in Seq(S)
    /\ \A k \in 1 .. Len(rows), x \in Match, t \in Int :
         x = rows[k].match /\ t = file[x].day =>
             /\ x = history["train"][k]
             /\ rows[k].features = Features("train", x, t)
    /\ \A k \in 1 .. Len(rows) : rows[k].match \in Match

LEMMA FeaturesStay ==
    ASSUME TypeOK, Shape, OrderInv, NEW p \in Program, NEW m \in Match, Apply(p, m),
           NEW x \in Match, NEW t \in Int, t <= file[m].day
    PROVE  Features(p, x, t)' = Features(p, x, t)
  <1>1. file' = file
    BY ApplyEffect
  <1>2. \A team : /\ RatingAsOf(p, team, t)' = RatingAsOf(p, team, t)
                  /\ FormAsOf(p, team, t)' = FormAsOf(p, team, t)
    BY ReadsAreFinal
  <1> QED BY <1>1, <1>2 DEF Features

\* Applying a match in one program changes nothing that the other reads.
LEMMA FeaturesApart ==
    ASSUME TypeOK, Shape, NEW p \in Program, NEW m \in Match, Apply(p, m),
           NEW q \in Program, q # p, NEW x \in Match, NEW t \in Int
    PROVE  Features(q, x, t)' = Features(q, x, t)
  <1>1. file' = file /\ history'[q] = history[q]
    BY ApplyEffect
  <1>2. after'[q] = after[q]
    BY ApplyRatings
  <1>3. \A team : Seen(q, team, t)' = Seen(q, team, t)
    BY <1>1 DEF Seen, Plays
  <1>4. \A team : /\ RatingAsOf(q, team, t)' = RatingAsOf(q, team, t)
                  /\ FormAsOf(q, team, t)' = FormAsOf(q, team, t)
    BY <1>1, <1>2, <1>3 DEF RatingAsOf, FormAsOf
  <1> QED BY <1>1, <1>4 DEF Features

LEMMA RowsInductive ==
    ASSUME TypeOK, Shape, OrderInv, RowsInv, [Next]_vars PROVE RowsInv'
  <1>0. "live" \in Program /\ "train" \in Program /\ "live" # "train"
    BY DEF Program
  <1>1. ASSUME NEW m \in Match, Load(m) PROVE RowsInv'
    <2>1. Apply("live", m) /\ rows' = rows
      BY <1>1 DEF Load
    <2>2. file' = file /\ history'["train"] = history["train"]
      BY <1>0, <2>1, ApplyEffect
    <2>3. \A x \in Match, t \in Int : Features("train", x, t)' = Features("train", x, t)
      BY <1>0, <2>1, FeaturesApart
    <2> QED BY <2>1, <2>2, <2>3 DEF RowsInv
  <1>2. ASSUME NEW m \in Match, Replay(m) PROVE RowsInv'
    <2> DEFINE n == Len(history["train"])
               e == [match |-> m, features |-> Features("train", m, file[m].day)]
    <2>1. Apply("train", m) /\ rows' = Append(rows, e)
      BY <1>2 DEF Replay
    <2>2. /\ n \in Nat /\ file' = file
          /\ \A i \in 1 .. n : history'["train"][i] = history["train"][i]
          /\ history'["train"][n + 1] = m
      BY <1>0, <2>1, ApplyEffect
    <2>3. Len(rows) = n
      BY DEF TypeOK
    <2>4. PICK S : rows \in Seq(S)
      BY DEF RowsInv
    <2>5. e.match = m /\ e.features = Features("train", m, file[m].day)
      OBVIOUS
    <2> HIDE DEF n, e
    <2>6. rows \in Seq(S \cup {e})
      BY <2>4
    <2>7. /\ rows' \in Seq(S \cup {e}) /\ Len(rows') = n + 1
          /\ \A k \in 1 .. n : rows'[k] = rows[k]
          /\ rows'[n + 1] = e
      BY <2>1, <2>2, <2>3, <2>6
    <2>8. file[m].day \in Int /\ \A x \in Match : file[x].day \in Int
      BY ConstantsAssumption DEF TypeOK, Row, Day
    <2>9. \A x \in Match, t \in Int :
             t <= file[m].day => Features("train", x, t)' = Features("train", x, t)
      BY <1>0, <2>1, FeaturesStay
    <2>10. m \in pending["train"]
      BY <2>1 DEF Apply
    <2>11. ASSUME NEW k \in 1 .. Len(rows'), NEW x \in Match, NEW t \in Int,
                  x = rows'[k].match, t = file'[x].day
           PROVE  x = history'["train"][k] /\ rows'[k].features = Features("train", x, t)'
      <3>1. CASE k = n + 1
        <4>1. x = m /\ t = file[m].day /\ rows'[k].features = Features("train", x, t)
          BY <2>2, <2>5, <2>7, <2>11, <3>1
        <4> QED BY <2>2, <2>8, <2>9, <3>1, <4>1
      <3>2. CASE k # n + 1
        <4>1. k \in 1 .. n
          BY <2>2, <2>7, <3>2
        <4>2. x = rows[k].match /\ t = file[x].day
          BY <2>2, <2>7, <2>11, <4>1
        <4>3. x = history["train"][k] /\ rows[k].features = Features("train", x, t)
          BY <2>3, <4>1, <4>2 DEF RowsInv
        <4>4. Earlier(x, m)
          BY <1>0, <2>10, <4>1, <4>3 DEF OrderInv, n
        <4>5. t <= file[m].day
          BY <4>2, <4>4, EarlierIsOrder
        <4> QED BY <2>2, <2>7, <2>9, <4>1, <4>3, <4>5
      <3> QED BY <3>1, <3>2
    <2>12. \A k \in 1 .. Len(rows') : rows'[k].match \in Match
      <3>1. ASSUME NEW k \in 1 .. Len(rows'), k # n + 1 PROVE k \in 1 .. n
        BY <2>2, <2>7, <3>1
      <3> QED BY <2>3, <2>5, <2>7, <3>1 DEF RowsInv
    <2> QED BY <2>7, <2>11, <2>12 DEF RowsInv
  <1>3. CASE UNCHANGED vars
    <2>1. file' = file /\ history' = history /\ after' = after /\ rows' = rows
      BY <1>3 DEF vars
    <2>2. \A x, t : Features("train", x, t)' = Features("train", x, t)
      BY <2>1 DEF Features, RatingAsOf, FormAsOf, Seen, Plays
    <2> QED BY <2>1, <2>2 DEF RowsInv
  <1> QED BY <1>1, <1>2, <1>3 DEF Next

-------------------------------------------------------------------------------
(* The dataset has the features of the live runtime *)

\* What holds of every file: each program applies what it keeps in order, and
\* derives every rating from the entries before.
EachInv == TypeOK /\ Shape /\ OrderInv /\ DerivedInv

\* What holds of a file whose rows all have goals.
Inv == EachInv /\ AllKept /\ SameInv /\ RowsInv

LEMMA InitEach == ASSUME Init PROVE EachInv
  <1>1. /\ \A p \in Program : history[p] = <<>> /\ after[p] = [m \in Match |-> <<>>]
        /\ \A p \in Program : rating[p] = [t \in Team |-> Initial]
        /\ DOMAIN after = Program /\ DOMAIN rating = Program
    BY DEF Init
  <1>2. \A p \in Program : pending[p] = Kept(p)
    BY DEF Init
  <1>3. TypeOK
    <2>1. pending \in [Program -> SUBSET Match] /\ history \in [Program -> Seq(Match)]
      BY DEF Init, Kept
    <2>2. \A p \in Program : Len(history[p]) + Cardinality(pending[p]) = Cardinality(Kept(p))
      BY <1>1, <1>2, KeptIsFinite
    <2> QED BY <2>1, <2>2 DEF Init, TypeOK, Program
  <1>4. Shape
    BY <1>1 DEF Shape
  <1>5. OrderInv
    BY <1>1, <1>2 DEF OrderInv
  <1>6. DerivedInv
    <2>1. \A t \in Team : RatingAfter(file, <<>>, [m \in Match |-> <<>>], t, 0) = Initial
      <3>1. \A t : Played(file, <<>>, t, 0) = {}
        BY DEF Played
      <3> QED BY <3>1 DEF RatingAfter, LatestRating
    <2> QED BY <1>1, <2>1 DEF DerivedInv, EntriesDerived, RatingsDerived
  <1> QED BY <1>3, <1>4, <1>5, <1>6 DEF EachInv

LEMMA EachInductive == EachInv /\ [Next]_vars => EachInv'
  <1> SUFFICES ASSUME EachInv, [Next]_vars PROVE EachInv'
    OBVIOUS
  <1> USE DEF EachInv
  <1>1. TypeOK'
    BY TypeInductive
  <1>2. ASSUME NEW p \in Program, NEW m \in Match, Apply(p, m)
        PROVE  Shape' /\ OrderInv' /\ DerivedInv'
    BY <1>2, ApplyRatings, OrderInductive, DerivedInductive
  <1>3. CASE UNCHANGED vars
    <2>1. Shape' /\ DerivedInv'
      BY <1>3 DEF vars, Shape, DerivedInv
    <2>2. OrderInv'
      BY <1>3 DEF vars, OrderInv, Earlier, Kept
    <2> QED BY <1>1, <2>1, <2>2
  <1>4. ASSUME NEW m \in Match, Load(m) PROVE EachInv'
    BY <1>1, <1>2, <1>4 DEF Load, Program
  <1>5. ASSUME NEW m \in Match, Replay(m) PROVE EachInv'
    BY <1>1, <1>2, <1>5 DEF Replay, Program
  <1> QED BY <1>3, <1>4, <1>5 DEF Next

LEMMA InitInv == ASSUME Init, "goalless" \notin Kind PROVE Inv
  <1>1. \A p \in Program : history[p] = <<>>
    BY DEF Init
  <1>2. AllKept
    <2>1. \A m \in Match : file[m].kind \in Kind
      BY DEF Init, Row
    <2>2. \A m \in Match : file[m].kind = "full"
      BY <2>1, ConstantsAssumption
    <2> QED BY <2>2 DEF AllKept, Kept
  <1>3. SameInv
    BY <1>1 DEF SameInv
  <1>4. RowsInv
    BY DEF Init, RowsInv
  <1> QED BY <1>2, <1>3, <1>4, InitEach DEF Inv

LEMMA InvInductive == Inv /\ [Next]_vars => Inv'
  <1> SUFFICES ASSUME Inv, [Next]_vars PROVE Inv'
    OBVIOUS
  <1> USE DEF Inv
  <1>0. TypeOK /\ Shape /\ OrderInv /\ DerivedInv
    BY DEF EachInv
  <1>1. EachInv' /\ RowsInv'
    BY <1>0, EachInductive, RowsInductive
  <1>2. ASSUME NEW p \in Program, NEW m \in Match, Apply(p, m)
        PROVE  AllKept' /\ SameInv'
    <2>1. file' = file
      BY <1>2 DEF Apply
    <2> QED BY <1>0, <1>2, <2>1, SameInductive DEF AllKept, Kept
  <1>3. CASE UNCHANGED vars
    BY <1>1, <1>3 DEF vars, AllKept, Kept, SameInv
  <1>4. ASSUME NEW m \in Match, Load(m) PROVE Inv'
    BY <1>1, <1>2, <1>4 DEF Load, Program
  <1>5. ASSUME NEW m \in Match, Replay(m) PROVE Inv'
    BY <1>1, <1>2, <1>5 DEF Replay, Program
  <1> QED BY <1>3, <1>4, <1>5 DEF Next

\* The trading process finds a team under the name the file has.
NamesAgree == \A t \in Team : Resolve[t] = t

LEMMA RowsAreLive == ASSUME Inv, NamesAgree PROVE TrainingRowIsLive
  <1> USE DEF Inv, EachInv
  <1> SUFFICES ASSUME pending["live"] = {}, NEW k \in DOMAIN rows
               PROVE  rows[k].features
                        = Features("live", rows[k].match, file[rows[k].match].day)
    BY DEF TrainingRowIsLive
  <1> DEFINE x == rows[k].match
             t == file[x].day
             n == Len(history["train"])
  <1>0. "live" \in Program /\ "train" \in Program
    BY DEF Program
  <1>1. k \in 1 .. n /\ n \in Nat /\ k \in 1 .. Len(rows)
    BY <1>0 DEF RowsInv, TypeOK
  <1>2. x \in Match
    BY <1>1 DEF RowsInv
  <1>3. \A y \in Match : file[y].day \in Int
    BY ConstantsAssumption DEF TypeOK, Row, Day
  <1>4. x = history["train"][k] /\ rows[k].features = Features("train", x, t)
    BY <1>1, <1>2, <1>3 DEF RowsInv
  <1>5. \A p \in Program : /\ Len(history[p]) \in Nat
                           /\ DOMAIN history[p] = 1 .. Len(history[p])
                           /\ \A i \in 1 .. Len(history[p]) : history[p][i] \in Match
    BY DEF TypeOK
  <1> HIDE DEF x, t, n
  <1>6. Len(history["live"]) >= n
    <2> SUFFICES ASSUME Len(history["live"]) < n PROVE FALSE
      BY <1>0, <1>1, <1>5
    <2> DEFINE l == Len(history["live"])
               y == history["train"][l + 1]
    <2>1. l \in Nat /\ l + 1 \in 1 .. n
      BY <1>0, <1>1, <1>5
    <2>2. y \in Match
      BY <1>0, <1>5, <2>1 DEF n
    <2>a. y \in Kept("live") /\ y \notin pending["live"]
      BY <1>0, <2>2 DEF AllKept
    <2>3. PICK j \in 1 .. l : history["live"][j] = y
      BY <1>0, <2>a DEF OrderInv
    <2> HIDE DEF l
    <2>4. j \in Nat /\ j \in 1 .. n /\ j < l + 1
      BY <1>1, <2>1
    <2>5. history["train"][j] = y
      BY <1>0, <2>3, <2>4 DEF SameInv, n, l
    <2>6. Earlier(y, y)
      BY <1>0, <2>1, <2>4, <2>5 DEF OrderInv, n
    <2> QED BY <2>2, <2>6, EarlierIsOrder
  <1>7. ASSUME NEW p \in Program, NEW i \in 1 .. Len(history[p]), file[history[p][i]].day < t
        PROVE  i \in 1 .. k - 1
    <2>1. i \in Nat /\ k \in Nat /\ Len(history[p]) \in Nat /\ history[p][i] \in Match
      BY <1>1, <1>5
    <2> SUFFICES ASSUME k <= i PROVE FALSE
      BY <2>1
    <2>2. k \in 1 .. Len(history[p]) /\ k \in 1 .. Len(history["train"])
      BY <1>1, <2>1 DEF n
    <2>3. history[p][k] = x
      BY <1>0, <1>4, <2>1, <2>2 DEF SameInv
    <2>4. k = i \/ Earlier(x, history[p][i])
      BY <2>1, <2>2, <2>3 DEF OrderInv
    <2>5. t <= file[history[p][i]].day
      BY <1>2, <1>3, <2>1, <2>3, <2>4, EarlierIsOrder DEF t
    <2> QED BY <1>2, <1>3, <1>7, <2>1, <2>5 DEF t
  <1>8. \A i \in 1 .. k - 1 : /\ i \in 1 .. n /\ i \in 1 .. Len(history["live"])
                              /\ history["live"][i] = history["train"][i]
                              /\ after["live"][history["live"][i]]
                                   = after["train"][history["train"][i]]
    BY <1>0, <1>1, <1>5, <1>6 DEF SameInv, n
  <1>9. ASSUME NEW team
        PROVE  Seen("live", team, t) = Seen("train", team, t)
    BY <1>0, <1>5, <1>7, <1>8 DEF Seen, Plays, BeforeAsOf, n
  <1>10. ASSUME NEW team
         PROVE  /\ RatingAsOf("live", team, t) = RatingAsOf("train", team, t)
                /\ FormAsOf("live", team, t) = FormAsOf("train", team, t)
    <2> DEFINE S == Seen("train", team, t)
    <2>1. S \subseteq 1 .. k - 1
      BY <1>0, <1>5, <1>7 DEF Seen, BeforeAsOf
    <2>2. S = Seen("live", team, t)
      BY <1>9
    <2> HIDE DEF S
    <2>3. SameEntries(S, team, history["live"], after["live"], history["train"], after["train"])
      <3>1. k - 1 \in Nat
        BY <1>1
      <3> QED BY <1>8, <2>1, <3>1 DEF SameEntries
    <2>4. LatestRating(history["live"], after["live"], S, team)
            = LatestRating(history["train"], after["train"], S, team)
      BY <2>3, RatingOfEntries
    <2>5. LatestForm(file, history["live"], S) = LatestForm(file, history["train"], S)
      <3>1. \A i \in S : history["live"][i] = history["train"][i]
        BY <1>8, <2>1
      <3> QED BY <3>1, FormOfEntries
    <2> QED BY <2>2, <2>4, <2>5 DEF RatingAsOf, FormAsOf, S
  <1>11. Features("live", x, t) = Features("train", x, t)
    <2>1. file[x].home \in Team /\ file[x].away \in Team
      BY <1>2 DEF TypeOK, Row
    <2>2. \A team \in {file[x].home, file[x].away} :
            Lookup("live", team) = team /\ Lookup("train", team) = team
      BY <2>1 DEF Lookup, NamesAgree
    <2> QED BY <1>10, <2>2 DEF Features
  <1> QED BY <1>4, <1>11 DEF x, t

\* "The same as-of semantics as the live runtime", for every file whose rows all
\* have goals and whose names are those the matcher resolves to: each row of the
\* dataset is what the trading process, its file loaded, reads as of the date of
\* the row's match.
THEOREM TrainingRowIsLiveHolds ==
    ASSUME "goalless" \notin Kind, NamesAgree PROVE Spec => []TrainingRowIsLive
  <1>1. Init => Inv
    BY InitInv
  <1>2. Inv => TrainingRowIsLive
    BY RowsAreLive
  <1> QED BY <1>1, <1>2, InvInductive, PTL DEF Spec

-------------------------------------------------------------------------------
(* The first places of an order *)

\* A finite set onto whose elements another is mapped one to one has its size.
LEMMA OneToOne ==
    ASSUME NEW S, NEW T, IsFiniteSet(S), NEW e \in [S -> T],
           \A t \in T : \E x \in S : e[x] = t,
           \A x, y \in S : e[x] = e[y] => x = y
    PROVE  Cardinality(T) = Cardinality(S)
  <1>1. e \in Surjection(S, T)
    BY DEF Surjection
  <1>2. e \in Injection(S, T)
    BY DEF Injection, IsInjective
  <1> QED BY <1>1, <1>2, FS_Surjection

\* before[i] is what comes before i in a strict total order of a finite set: those
\* with fewer than N others before them are N, or all while there are fewer.
LEMMA FirstPlaces ==
    ASSUME NEW S, IsFiniteSet(S), NEW before, NEW N \in Nat \ {0},
           \A x \in S : before[x] \subseteq S /\ x \notin before[x],
           \A x, y \in S : x = y \/ x \in before[y] \/ y \in before[x],
           \A x, y, z \in S : x \in before[y] /\ y \in before[z] => x \in before[z],
           NEW first, \A i : i \in first <=> i \in S /\ Cardinality(before[i]) < N
    PROVE  /\ IsFiniteSet(first) /\ Cardinality(first) \in Nat /\ Cardinality(first) <= N
           /\ first # S => Cardinality(first) = N
  <1> DEFINE Before(i) == before[i]
             rank(i) == Cardinality(Before(i))
             G == {i \in S : rank(i) < N}
             c == Cardinality(S)
  <1>1. c \in Nat
    BY FS_CardinalityType
  <1>2. ASSUME NEW i \in S
        PROVE  Before(i) \subseteq S /\ IsFiniteSet(Before(i)) /\ rank(i) \in Nat /\ rank(i) <= c
    <2>1. Before(i) \in SUBSET S
      OBVIOUS
    <2> HIDE DEF Before
    <2> QED BY <2>1, FS_Subset, FS_CardinalityType
  <1>3. ASSUME NEW i \in S, NEW j \in Before(i) PROVE rank(j) < rank(i)
    <2>1. j \in S /\ j \in Before(i) /\ j \notin Before(j) /\ Before(j) \in SUBSET Before(i)
      OBVIOUS
    <2> HIDE DEF Before
    <2>2. rank(j) <= rank(i) /\ rank(j) # rank(i)
      BY <1>2, <2>1, FS_Subset
    <2> QED BY <1>2, <2>1, <2>2
  <1>4. \A i, j \in S : i = j \/ i \in Before(j) \/ j \in Before(i)
    OBVIOUS
  <1> HIDE DEF Before
  <1>5. IsFiniteSet(G) /\ Cardinality(G) \in Nat /\ G \subseteq S
    <2>1. G \in SUBSET S
      OBVIOUS
    <2> HIDE DEF G
    <2> QED BY <2>1, FS_Subset, FS_CardinalityType
  <1>6. Cardinality(G) <= N
    <2>1. CASE G = {}
      <3> HIDE DEF G
      <3> QED BY <2>1, FS_EmptySet
    <2>2. CASE G # {}
      <3> DEFINE T == {rank(i) + 1 : i \in G}
      <3>1. T \in SUBSET (1 .. N) /\ T # {}
        <4>1. \A i \in G : rank(i) \in Nat /\ rank(i) < N
          BY <1>2
        <4> HIDE DEF rank, G
        <4>2. \A i \in G : rank(i) + 1 \in 1 .. N
          BY <4>1
        <4> QED BY <2>2, <4>2
      <3>2. PICK x \in T : \A y \in T : y <= x
        <4> HIDE DEF T
        <4> QED BY <3>1, MaxExists
      <3>3. PICK g \in G : x = rank(g) + 1
        OBVIOUS
      <3>4. ASSUME NEW j \in G PROVE j \in Before(g) \cup {g}
        <4>1. rank(j) + 1 <= rank(g) + 1
          BY <3>2, <3>3
        <4>2. rank(j) \in Nat /\ rank(g) \in Nat /\ j \in S /\ g \in S
          BY <1>2
        <4>3. g \in Before(j) => rank(g) < rank(j)
          BY <1>3, <4>2
        <4> HIDE DEF rank
        <4>4. g \notin Before(j)
          BY <4>1, <4>2, <4>3
        <4> QED BY <1>4, <4>2, <4>4
      <3>5. g \in S /\ rank(g) \in Nat /\ rank(g) < N
        BY <1>2
      <3>6. G \in SUBSET (Before(g) \cup {g})
        BY <3>4
      <3>7. /\ IsFiniteSet(Before(g) \cup {g})
            /\ Cardinality(Before(g) \cup {g}) <= rank(g) + 1
        <4> DEFINE B == Before(g)
        <4>1. IsFiniteSet(B) /\ Cardinality(B) = rank(g)
          BY <1>2, <3>5
        <4> HIDE DEF B, rank
        <4>2. IsFiniteSet(B \cup {g}) /\ (\/ Cardinality(B \cup {g}) = Cardinality(B)
                                          \/ Cardinality(B \cup {g}) = Cardinality(B) + 1)
          BY <4>1, FS_AddElement
        <4>3. Cardinality(B \cup {g}) <= rank(g) + 1
          BY <3>5, <4>1, <4>2
        <4> QED BY <4>2, <4>3 DEF B
      <3>8. Cardinality(G) <= Cardinality(Before(g) \cup {g})
            /\ Cardinality(Before(g) \cup {g}) \in Nat
        <4> HIDE DEF G
        <4> QED BY <3>6, <3>7, FS_Subset, FS_CardinalityType
      <3> HIDE DEF rank, G
      <3> QED BY <1>5, <3>5, <3>7, <3>8
    <2> QED BY <2>1, <2>2
  <1>7. ASSUME G # S PROVE N <= Cardinality(G)
    <2> DEFINE T == {c - rank(i) + 1 : i \in S \ G}
    <2>1. T \in SUBSET (1 .. c + 1) /\ T # {}
      <3>1. \A i \in S \ G : rank(i) \in Nat /\ rank(i) <= c
        BY <1>2
      <3> HIDE DEF rank, c
      <3>2. \A i \in S \ G : c - rank(i) + 1 \in 1 .. c + 1
        BY <1>1, <3>1
      <3>3. S \ G # {}
        BY <1>5, <1>7
      <3> HIDE DEF G
      <3> QED BY <3>2, <3>3
    <2>2. PICK x \in T : \A y \in T : y <= x
      <3>1. c + 1 \in Nat
        BY <1>1
      <3> HIDE DEF T, c
      <3> QED BY <2>1, <3>1, MaxExists
    <2>3. PICK g \in S \ G : x = c - rank(g) + 1
      OBVIOUS
    <2>4. ASSUME NEW j \in Before(g) PROVE j \in G
      <3>1. j \in S /\ g \in S /\ rank(j) < rank(g) /\ rank(j) \in Nat /\ rank(g) \in Nat
        BY <1>2, <1>3
      <3>2. j \in S \ G => c - rank(j) + 1 <= c - rank(g) + 1
        BY <2>2, <2>3
      <3> HIDE DEF rank, G, c
      <3> QED BY <1>1, <3>1, <3>2
    <2>5. N <= rank(g) /\ rank(g) \in Nat
      <3>1. rank(g) \in Nat /\ ~(rank(g) < N)
        BY <1>2
      <3> HIDE DEF rank
      <3> QED BY <3>1
    <2>6. rank(g) <= Cardinality(G)
      <3>1. Before(g) \in SUBSET G
        BY <2>4
      <3> HIDE DEF G
      <3> QED BY <1>5, <3>1, FS_Subset
    <2> HIDE DEF rank, G
    <2> QED BY <1>5, <2>5, <2>6
  <1>8. G = first
    BY DEF Before
  <1> HIDE DEF G
  <1> QED BY <1>5, <1>6, <1>7, <1>8

\* NewerFirst is a strict total order of the places of a history.
LEMMA NewerFirstIsOrder ==
    ASSUME NEW f \in [Match -> Row], NEW h, NEW S, \A i \in S : i \in Int /\ h[i] \in Match
    PROVE  /\ \A x \in S : ~NewerFirst(f, h, x, x)
           /\ \A x, y \in S : x # y => NewerFirst(f, h, x, y) \/ NewerFirst(f, h, y, x)
           /\ \A x, y, z \in S :
                NewerFirst(f, h, x, y) /\ NewerFirst(f, h, y, z) => NewerFirst(f, h, x, z)
  <1>1. \A i \in S : i \in Int /\ f[h[i]].day \in Int
    BY ConstantsAssumption DEF Row, Day
  <1> QED BY <1>1 DEF NewerFirst

\* The form that a finite set of places gives: the matches of the first of them in
\* the order of NewerFirst.
LEMMA FormOfPlaces ==
    ASSUME NEW f \in [Match -> Row], NEW h, NEW S, IsFiniteSet(S),
           \A i \in S : i \in Int /\ h[i] \in Match,
           \A i, j \in S : h[i] = h[j] => i = j,
           NEW played, played = {h[i] : i \in S}
    PROVE  LET form == LatestForm(f, h, S)
           IN  /\ form \subseteq played
               /\ \A m \in form, x \in played \ form : f[x].day <= f[m].day
               /\ \/ Cardinality(form) = FormLength
                  \/ form = played /\ Cardinality(form) < FormLength
  <1> DEFINE Newer(i) == {j \in S : NewerFirst(f, h, j, i)}
             G == {i \in S : Cardinality(Newer(i)) < FormLength}
             past == {h[i] : i \in S}
             form == {h[i] : i \in G}
  <1>4. /\ IsFiniteSet(G) /\ Cardinality(G) \in Nat /\ Cardinality(G) <= FormLength
        /\ G # S => Cardinality(G) = FormLength
    <2> DEFINE before == [i \in S |-> Newer(i)]
    <2>1. FormLength \in Nat \ {0}
      BY ConstantsAssumption
    <2>2. \A x, y \in S : x \in before[y] <=> NewerFirst(f, h, x, y)
      OBVIOUS
    <2>3. \A x \in S : before[x] \subseteq S
      OBVIOUS
    <2>4. \A i : i \in G <=> i \in S /\ Cardinality(before[i]) < FormLength
      <3> HIDE DEF Newer
      <3> QED OBVIOUS
    <2> HIDE DEF before, G
    <2>5. /\ \A x \in S : before[x] \subseteq S /\ x \notin before[x]
          /\ \A x, y \in S : x = y \/ x \in before[y] \/ y \in before[x]
          /\ \A x, y, z \in S : x \in before[y] /\ y \in before[z] => x \in before[z]
      BY <2>2, <2>3, NewerFirstIsOrder
    <2> QED BY <2>1, <2>4, <2>5, FirstPlaces
  <1>5. \A i \in S : IsFiniteSet(Newer(i)) /\ Cardinality(Newer(i)) \in Nat
    <2> TAKE i \in S
    <2>1. Newer(i) \in SUBSET S
      OBVIOUS
    <2> HIDE DEF Newer
    <2> QED BY <2>1, FS_Subset, FS_CardinalityType
  <1>6. form \subseteq past
    OBVIOUS
  <1>7. ASSUME NEW i \in G, NEW j \in S, f[h[j]].day > f[h[i]].day PROVE j \in G
    <2>0. i \in S /\ j \in S
      OBVIOUS
    <2>1. Newer(j) \in SUBSET Newer(i)
      <3>1. \A k \in S : NewerFirst(f, h, k, j) => NewerFirst(f, h, k, i)
        <4>1. NewerFirst(f, h, j, i)
          BY <1>7 DEF NewerFirst
        <4> QED BY <2>0, <4>1, NewerFirstIsOrder
      <3> QED BY <3>1
    <2>2. Cardinality(Newer(i)) < FormLength /\ Cardinality(Newer(j)) <= Cardinality(Newer(i))
      <3>1. Cardinality(Newer(i)) < FormLength
        OBVIOUS
      <3> HIDE DEF Newer, G
      <3> QED BY <1>5, <2>0, <2>1, <3>1, FS_Subset
    <2>3. Cardinality(Newer(j)) < FormLength
      <3>1. Cardinality(Newer(i)) \in Nat /\ Cardinality(Newer(j)) \in Nat /\ FormLength \in Nat
        BY <1>5, <2>0, ConstantsAssumption
      <3> HIDE DEF Newer
      <3> QED BY <2>2, <3>1
    <2> QED BY <2>3
  <1>8. ASSUME NEW m \in form, NEW x \in past \ form PROVE f[x].day <= f[m].day
    <2>1. PICK i \in G : m = h[i]
      OBVIOUS
    <2>2. PICK j \in S : x = h[j] /\ j \notin G
      OBVIOUS
    <2>3. ~(f[h[j]].day > f[h[i]].day)
      BY <1>7, <2>2
    <2>4. f[h[i]].day \in Int /\ f[h[j]].day \in Int
      BY ConstantsAssumption DEF Row, Day
    <2> QED BY <2>1, <2>2, <2>3, <2>4
  <1>9. Cardinality(form) = Cardinality(G)
    <2> DEFINE e == [i \in G |-> h[i]]
    <2>1. G \subseteq S
      OBVIOUS
    <2> HIDE DEF G
    <2>2. e \in [G -> form] /\ \A i \in G : e[i] = h[i] /\ h[i] \in form
      OBVIOUS
    <2>3. \A m \in form : \E i \in G : e[i] = m
      OBVIOUS
    <2> HIDE DEF e, form
    <2>4. \A i, j \in G : e[i] = e[j] => i = j
      BY <2>1, <2>2
    <2> QED BY <1>4, <2>2, <2>3, <2>4, OneToOne
  <1>10. \/ Cardinality(form) = FormLength
         \/ form = past /\ Cardinality(form) < FormLength
    <2>1. CASE G = S
      <3>1. form = past
        <4> HIDE DEF G
        <4> QED BY <2>1
      <3>2. FormLength \in Nat
        BY ConstantsAssumption
      <3> HIDE DEF form, past, G
      <3> QED BY <1>4, <1>9, <3>1, <3>2
    <2>2. CASE G # S
      <3> HIDE DEF form, past, G
      <3> QED BY <1>4, <1>9, <2>2
    <2> QED BY <2>1, <2>2
  <1>11. LatestForm(f, h, S) = form /\ past = played
    BY DEF LatestForm
  <1> HIDE DEF form, past, G
  <1> QED BY <1>6, <1>8, <1>10, <1>11

\* A history has no match twice, and once what is before t is applied, the places
\* that a read as of t looks at are those of all the team's matches before t.
LEMMA PlacesOfThePast ==
    ASSUME EachInv, NEW p \in Program, NEW t \in Int, Complete(p, t), NEW team
    PROVE  LET h == history[p]
               S == Seen(p, team, t)
           IN  /\ S \subseteq 1 .. Len(h) /\ IsFiniteSet(S)
               /\ \A i \in S : i \in Int /\ h[i] \in Match
               /\ \A i, j \in S : h[i] = h[j] => i = j
               /\ {h[i] : i \in S} = {m \in Kept(p) : Plays(m, team) /\ file[m].day < t}
  <1> USE DEF EachInv
  <1> DEFINE h == history[p]
             S == Seen(p, team, t)
             past == {m \in Kept(p) : Plays(m, team) /\ file[m].day < t}
  <1>1. /\ Len(h) \in Nat /\ DOMAIN h = 1 .. Len(h)
        /\ \A i \in 1 .. Len(h) : h[i] \in Match /\ h[i] \in Kept(p)
    BY DEF TypeOK, OrderInv
  <1>2. S \subseteq 1 .. Len(h) /\ IsFiniteSet(S)
    <2>1. S \in SUBSET (1 .. Len(h))
      BY <1>1 DEF Seen
    <2>2. IsFiniteSet(1 .. Len(h))
      BY <1>1, FS_Interval
    <2> HIDE DEF S
    <2> QED BY <2>1, <2>2, FS_Subset
  <1>3. \A i, j \in 1 .. Len(h) : h[i] = h[j] => i = j
    <2> SUFFICES ASSUME NEW i \in 1 .. Len(h), NEW j \in 1 .. Len(h), h[i] = h[j], i < j
                 PROVE  FALSE
      BY <1>1
    <2>1. Earlier(h[i], h[j])
      BY DEF OrderInv
    <2> QED BY <1>1, <2>1, EarlierIsOrder
  <1>4. {h[i] : i \in S} \subseteq past
    BY <1>1 DEF Seen, BeforeAsOf
  <1>5. ASSUME NEW m \in past PROVE \E i \in S : h[i] = m
    <2>1. m \in Kept(p) /\ m \in Match /\ Plays(m, team) /\ file[m].day < t
      BY DEF Kept
    <2>2. m \notin pending[p]
      <3>1. file[m].day \in Int
        BY <2>1, ConstantsAssumption DEF TypeOK, Row, Day
      <3> QED BY <2>1, <3>1 DEF Complete
    <2>3. PICK i \in 1 .. Len(h) : h[i] = m
      BY <2>1, <2>2 DEF OrderInv
    <2> QED BY <1>1, <2>1, <2>3 DEF Seen, BeforeAsOf
  <1> HIDE DEF S, past
  <1>6. {h[i] : i \in S} = past
    BY <1>4, <1>5
  <1> QED BY <1>1, <1>2, <1>3, <1>6 DEF S, past

\* The form as of t is that of the team's latest matches before t, for every file
\* and every t: the sort of compute_form picks the newest, and as many as it may.
THEOREM FormIsLatestHolds == Spec => []FormIsLatest
  <1>1. ASSUME EachInv PROVE FormIsLatest
    <2> SUFFICES ASSUME NEW p \in Program, NEW team \in Team, NEW t \in 1 .. LastDay + 1,
                        Complete(p, t)
                 PROVE  LET past == {m \in Kept(p) : Plays(m, team) /\ file[m].day < t}
                            form == FormAsOf(p, team, t)
                        IN  /\ form \subseteq past
                            /\ \A m \in form, x \in past \ form : file[x].day <= file[m].day
                            /\ \/ Cardinality(form) = FormLength
                               \/ form = past /\ Cardinality(form) < FormLength
      BY DEF FormIsLatest
    <2>1. t \in Int
      BY ConstantsAssumption
    <2> DEFINE S == Seen(p, team, t)
               h == history[p]
               past == {m \in Kept(p) : Plays(m, team) /\ file[m].day < t}
    <2>2. /\ IsFiniteSet(S) /\ \A i \in S : i \in Int /\ h[i] \in Match
          /\ \A i, j \in S : h[i] = h[j] => i = j
          /\ {h[i] : i \in S} = past
      BY <1>1, <2>1, PlacesOfThePast
    <2>3. file \in [Match -> Row]
      BY <1>1 DEF EachInv, TypeOK
    <2>4. FormAsOf(p, team, t) = LatestForm(file, h, S)
      BY DEF FormAsOf
    <2> HIDE DEF S, h, past
    <2>5. /\ LatestForm(file, h, S) \subseteq past
          /\ \A m \in LatestForm(file, h, S), x \in past \ LatestForm(file, h, S) :
                file[x].day <= file[m].day
          /\ \/ Cardinality(LatestForm(file, h, S)) = FormLength
             \/ LatestForm(file, h, S) = past /\ Cardinality(LatestForm(file, h, S)) < FormLength
      BY <2>2, <2>3, FormOfPlaces
    <2> QED BY <2>4, <2>5 DEF past
  <1>2. Init => EachInv
    BY InitEach
  <1> QED BY <1>1, <1>2, EachInductive, PTL DEF Spec

-------------------------------------------------------------------------------
(* The ratings of a world are defined: the recursion of Rebuilt ends *)

\* The latest match of a team in a set of matches.
Mine(S, team) == {m \in S : Plays(m, team)}
LastOf(S) == CHOOSE m \in S : \A x \in S \ {m} : Earlier(x, m)
Before(S, m) == {x \in S : Earlier(x, m)}

\* The ratings after the matches of S, with those of smaller sets taken from r.
RatingsBy(r, S) ==
    [team \in Team |->
        IF Mine(S, team) = {} THEN Initial
        ELSE LET m == LastOf(Mine(S, team))
                 past == r[Before(S, m)]
             IN  <<past[file[m].home], past[file[m].away], m, team>>]

RebuiltBy(r) == [S \in SUBSET Match |-> RatingsBy(r, S)]

LEMMA LatestMatch ==
    ASSUME TypeOK, NEW S \in SUBSET Match, S # {}
    PROVE  LastOf(S) \in S /\ \A x \in S \ {LastOf(S)} : Earlier(x, LastOf(S))
  <1> DEFINE D == {file[m].day : m \in S}
  <1>1. \A m \in S : file[m].day \in 1 .. LastDay /\ m \in 1 .. Matches
    BY DEF TypeOK, Row, Day, Match
  <1>2. LastDay \in Nat /\ Matches \in Nat
    BY ConstantsAssumption
  <1>3. D \in SUBSET (1 .. LastDay) /\ D # {}
    BY <1>1
  <1>4. PICK d \in D : \A e \in D : e <= d
    <2> HIDE DEF D
    <2> QED BY <1>2, <1>3, MaxExists
  <1> DEFINE M == {m \in S : file[m].day = d}
  <1>5. M \in SUBSET (1 .. Matches) /\ M # {}
    BY <1>1
  <1>6. PICK m \in M : \A x \in M : x <= m
    <2> HIDE DEF M
    <2> QED BY <1>2, <1>5, MaxExists
  <1>7. ASSUME NEW x \in S \ {m} PROVE Earlier(x, m)
    <2>1. file[x].day <= d /\ file[m].day = d /\ file[x].day \in Int /\ d \in Int
      BY <1>1, <1>4
    <2>2. file[x].day = d => x <= m /\ x \in Int /\ m \in Int
      BY <1>1, <1>6
    <2> HIDE DEF M, D
    <2> QED BY <2>1, <2>2 DEF Earlier
  <1>8. m \in S
    OBVIOUS
  <1> HIDE DEF M, D
  <1>9. \E y \in S : \A x \in S \ {y} : Earlier(x, y)
    BY <1>7, <1>8
  <1> QED BY <1>9 DEF LastOf

LEMMA EarlierMatches ==
    ASSUME TypeOK, NEW S \in SUBSET Match, NEW m \in S
    PROVE  /\ Before(S, m) \in SUBSET Match /\ IsFiniteSet(S) /\ Cardinality(S) \in Nat
           /\ Cardinality(Before(S, m)) \in Nat /\ Cardinality(Before(S, m)) < Cardinality(S)
  <1>1. IsFiniteSet(S) /\ Cardinality(S) \in Nat
    <2>1. IsFiniteSet(Match)
      BY ConstantsAssumption, FS_Interval DEF Match
    <2> QED BY <2>1, FS_Subset, FS_CardinalityType
  <1>2. Before(S, m) \in SUBSET S /\ m \notin Before(S, m)
    BY EarlierIsOrder DEF Before
  <1>3. /\ IsFiniteSet(Before(S, m)) /\ Cardinality(Before(S, m)) <= Cardinality(S)
        /\ Cardinality(Before(S, m)) # Cardinality(S)
    BY <1>1, <1>2, FS_Subset
  <1>4. Cardinality(Before(S, m)) \in Nat
    BY <1>3, FS_CardinalityType
  <1> QED BY <1>1, <1>2, <1>3, <1>4

\* The ratings after S come from those of what was before one of its matches.
LEMMA RatingsAgree ==
    ASSUME TypeOK, NEW S \in SUBSET Match, NEW f, NEW g,
           \A m \in S : f[Before(S, m)] = g[Before(S, m)]
    PROVE  RatingsBy(f, S) = RatingsBy(g, S)
  <1>1. ASSUME NEW team, Mine(S, team) # {} PROVE LastOf(Mine(S, team)) \in S
    <2>1. Mine(S, team) \in SUBSET Match /\ Mine(S, team) \subseteq S
      BY DEF Mine
    <2> QED BY <1>1, <2>1, LatestMatch
  <1>2. ASSUME NEW team, Mine(S, team) # {}
        PROVE  f[Before(S, LastOf(Mine(S, team)))] = g[Before(S, LastOf(Mine(S, team)))]
    BY <1>1, <1>2
  <1> QED BY <1>2 DEF RatingsBy

\* f is as the recursion says on all sets of at most k matches.
Upto(f, k) == \A S \in SUBSET Match : Cardinality(S) <= k => f[S] = RatingsBy(f, S)

LEMMA OneStepFurther ==
    ASSUME TypeOK, NEW f, NEW k \in Int, Upto(f, k)
    PROVE  Upto(RebuiltBy(f), k + 1)
  <1> SUFFICES ASSUME NEW S \in SUBSET Match, Cardinality(S) <= k + 1
               PROVE  RebuiltBy(f)[S] = RatingsBy(RebuiltBy(f), S)
    BY DEF Upto
  <1>1. \A T \in SUBSET Match : RebuiltBy(f)[T] = RatingsBy(f, T)
    BY DEF RebuiltBy
  <1>2. ASSUME NEW m \in S PROVE f[Before(S, m)] = RebuiltBy(f)[Before(S, m)]
    <2>1. Before(S, m) \in SUBSET Match /\ Cardinality(Before(S, m)) <= k
      BY EarlierMatches
    <2> QED BY <1>1, <2>1 DEF Upto
  <1>3. RatingsBy(f, S) = RatingsBy(RebuiltBy(f), S)
    BY <1>2, RatingsAgree
  <1> QED BY <1>1, <1>3

LEMMA UptoEach ==
    ASSUME TypeOK, NEW n \in Nat
    PROVE  \E f : Upto(f, n)
  <1> DEFINE R == OpToRel(<, Nat)
             Bad == {k \in Nat : ~\E f : Upto(f, k)}
  <1> SUFFICES ASSUME Bad # {} PROVE FALSE
    OBVIOUS
  <1>1. PICK k \in Bad : \A j \in Bad : <<j, k>> \notin R
    <2>1. IsWellFoundedOn(R, Nat) /\ Bad \subseteq Nat
      BY NatLessThanWellFounded
    <2> HIDE DEF R, Bad
    <2> QED BY <2>1, WFMin
  <1>2. k \in Nat /\ \A j \in Bad : ~(j < k)
    BY <1>1 DEF OpToRel
  <1>3. \E f : Upto(f, k - 1)
    <2>1. CASE k = 0
      <3>1. ASSUME NEW S \in SUBSET Match PROVE ~(Cardinality(S) <= k - 1)
        <4>1. Cardinality(S) \in Nat
          <5>1. IsFiniteSet(Match)
            BY ConstantsAssumption, FS_Interval DEF Match
          <5> QED BY <5>1, FS_Subset, FS_CardinalityType
        <4> QED BY <2>1, <4>1
      <3> QED BY <3>1 DEF Upto
    <2>2. CASE k # 0
      <3>1. k - 1 \in Nat /\ k - 1 < k
        BY <1>2, <2>2
      <3> QED BY <1>2, <3>1
    <2> QED BY <2>1, <2>2
  <1>4. PICK f : Upto(f, k - 1)
    BY <1>3
  <1>5. Upto(RebuiltBy(f), (k - 1) + 1)
    BY <1>2, <1>4, OneStepFurther
  <1>6. Upto(RebuiltBy(f), k)
    <2>1. (k - 1) + 1 = k
      BY <1>2
    <2> QED BY <1>5, <2>1
  <1> QED BY <1>6

\* There is a function that solves the recursion, and so Rebuilt does.
LEMMA RebuiltIsDefined ==
    ASSUME TypeOK
    PROVE  \A S \in SUBSET Match : Rebuilt[S] = RatingsBy(Rebuilt, S)
  <1>1. Rebuilt = CHOOSE r : r = RebuiltBy(r)
    BY DEF Rebuilt, RebuiltBy, RatingsBy, Mine, LastOf, Before
  <1>2. IsFiniteSet(Match) /\ Cardinality(Match) \in Nat
    <2>1. IsFiniteSet(Match)
      BY ConstantsAssumption, FS_Interval DEF Match
    <2> QED BY <2>1, FS_CardinalityType
  <1>3. PICK f : Upto(f, Cardinality(Match))
    BY <1>2, UptoEach
  <1>4. ASSUME NEW S \in SUBSET Match PROVE f[S] = RatingsBy(f, S)
    <2>1. Cardinality(S) <= Cardinality(Match)
      BY <1>2, FS_Subset
    <2> QED BY <1>3, <2>1 DEF Upto
  <1> DEFINE g == RebuiltBy(f)
  <1>5. \A S \in SUBSET Match : g[S] = RatingsBy(f, S)
    BY DEF RebuiltBy
  <1> HIDE DEF g
  <1>6. ASSUME NEW S \in SUBSET Match PROVE RatingsBy(g, S) = RatingsBy(f, S)
    <2>1. ASSUME NEW m \in S PROVE g[Before(S, m)] = f[Before(S, m)]
      <3>1. Before(S, m) \in SUBSET Match
        BY EarlierMatches
      <3> QED BY <1>4, <1>5, <3>1
    <2> QED BY <2>1, RatingsAgree
  <1>7. g = RebuiltBy(g)
    BY <1>6 DEF RebuiltBy, g
  <1>8. Rebuilt = RebuiltBy(Rebuilt)
    BY <1>1, <1>7
  <1> HIDE DEF RebuiltBy
  <1>9. \A S \in SUBSET Match : RebuiltBy(Rebuilt)[S] = RatingsBy(Rebuilt, S)
    BY DEF RebuiltBy
  <1> QED BY <1>8, <1>9

-------------------------------------------------------------------------------
(* A rating as of an instant is that of a world that ended before it *)

\* The first k matches of a history.
World(h, k) == {h[i] : i \in 1 .. k}

\* In a history in order, the latest of the first k matches of a team is the last
\* of them in the history, and what was before it is all that was applied before.
LEMMA LastApplied ==
    ASSUME EachInv, NEW p \in Program, NEW team, NEW k \in 0 .. Len(history[p]),
           NEW l \in Played(file, history[p], team, k),
           \A j \in Played(file, history[p], team, k) : j <= l
    PROVE  LET h == history[p]
           IN  /\ LastOf(Mine(World(h, k), team)) = h[l]
               /\ Before(World(h, k), h[l]) = World(h, l - 1)
  <1> USE DEF EachInv
  <1> DEFINE h == history[p]
             S == World(h, k)
  <1>1. /\ Len(h) \in Nat /\ k \in Nat /\ l \in 1 .. k /\ l \in Int
        /\ \A i \in 1 .. k : i \in Int /\ i \in 1 .. Len(h) /\ h[i] \in Match
    <2>1. Len(h) \in Nat /\ \A i \in 1 .. Len(h) : h[i] \in Match
      BY DEF TypeOK
    <2>2. l \in 1 .. k
      BY DEF Played
    <2> HIDE DEF h
    <2> QED BY <2>1, <2>2 DEF h
  <1>2. S \in SUBSET Match
    BY <1>1 DEF World
  <1>3. \A i, j \in 1 .. k : i < j => Earlier(h[i], h[j])
    BY <1>1 DEF OrderInv
  <1>4. h[l] \in Mine(S, team)
    BY <1>1 DEF Mine, World, Played, Plays
  <1>5. ASSUME NEW x \in Mine(S, team), x # h[l] PROVE Earlier(x, h[l])
    <2>1. PICK i \in 1 .. k : x = h[i]
      BY DEF Mine, World
    <2>2. i \in Played(file, h, team, k)
      BY <2>1 DEF Mine, Played, Plays
    <2>3. i < l
      BY <1>1, <1>5, <2>1, <2>2
    <2> QED BY <1>1, <1>3, <2>1, <2>3
  <1>6. LastOf(Mine(S, team)) = h[l]
    <2> DEFINE M == Mine(S, team)
               m == LastOf(M)
    <2>1. M \in SUBSET Match /\ h[l] \in M
      BY <1>2, <1>4 DEF Mine
    <2> HIDE DEF M
    <2>2. m \in M /\ \A x \in M \ {m} : Earlier(x, m)
      BY <2>1, LatestMatch
    <2>3. m # h[l] => Earlier(h[l], m) /\ Earlier(m, h[l])
      BY <1>5, <2>1, <2>2 DEF M
    <2>4. m \in Match /\ h[l] \in Match
      BY <2>1, <2>2
    <2> HIDE DEF m
    <2>5. m = h[l]
      BY <2>3, <2>4, EarlierIsOrder
    <2> QED BY <2>5 DEF m, M
  <1>7. ASSUME NEW i \in 1 .. k PROVE Earlier(h[i], h[l]) <=> i \in 1 .. l - 1
    <2>1. CASE i < l
      BY <1>1, <1>3, <2>1
    <2>2. CASE i = l
      BY <1>1, <2>2, EarlierIsOrder
    <2>3. CASE l < i
      <3>1. Earlier(h[l], h[i]) /\ h[l] \in Match /\ h[i] \in Match
        BY <1>1, <1>3, <2>3
      <3>2. ~Earlier(h[i], h[l])
        BY <3>1, EarlierIsOrder
      <3> QED BY <1>1, <2>3, <3>2
    <2> QED BY <1>1, <2>1, <2>2, <2>3
  <1>8. Before(S, h[l]) = World(h, l - 1)
    <2>1. ASSUME NEW x \in Before(S, h[l]) PROVE x \in World(h, l - 1)
      <3>1. PICK i \in 1 .. k : x = h[i] /\ Earlier(h[i], h[l])
        BY DEF Before, World
      <3> QED BY <1>7, <3>1 DEF World
    <2>2. ASSUME NEW x \in World(h, l - 1) PROVE x \in Before(S, h[l])
      <3>1. PICK i \in 1 .. l - 1 : x = h[i]
        BY DEF World
      <3>2. i \in 1 .. k
        BY <1>1
      <3> QED BY <1>7, <3>1, <3>2 DEF Before, World
    <2> QED BY <2>1, <2>2
  <1> QED BY <1>6, <1>8

\* After its first k entries a program has the ratings of the world of those k
\* matches.
LEMMA RatingsOfTheWorld ==
    ASSUME EachInv, NEW p \in Program, NEW n \in 0 .. Len(history[p]), NEW tm \in Team
    PROVE  RatingAfter(file, history[p], after[p], tm, n) = Rebuilt[World(history[p], n)][tm]
  <1> USE DEF EachInv
  <1> DEFINE h == history[p]
             a == after[p]
             R == OpToRel(<, Nat)
             Right(k) == \A team \in Team :
                            RatingAfter(file, h, a, team, k) = Rebuilt[World(h, k)][team]
             Bad == {k \in 0 .. Len(h) : ~Right(k)}
  <1>1. Len(h) \in Nat /\ \A i \in 1 .. Len(h) : h[i] \in Match
    BY DEF TypeOK
  <1> SUFFICES ASSUME Bad # {} PROVE FALSE
    OBVIOUS
  <1>2. PICK k \in Bad : \A j \in Bad : <<j, k>> \notin R
    <2>1. IsWellFoundedOn(R, Nat)
      BY NatLessThanWellFounded
    <2>2. Bad \subseteq Nat
      BY <1>1
    <2> HIDE DEF R, Bad
    <2> QED BY <2>1, <2>2, WFMin
  <1>3. k \in 0 .. Len(h) /\ k \in Nat /\ ~Right(k)
    <2> HIDE DEF Right, h
    <2> QED BY <1>1
  <1>4. ASSUME NEW j \in 0 .. Len(h), j < k PROVE Right(j)
    <2>1. j \in Nat
      BY <1>1
    <2>2. j \in Bad => FALSE
      BY <1>2, <1>3, <1>4, <2>1 DEF OpToRel
    <2> HIDE DEF Right
    <2> QED BY <2>2
  <1>5. PICK team \in Team : RatingAfter(file, h, a, team, k) # Rebuilt[World(h, k)][team]
    BY <1>3
  <1> HIDE DEF Right, Bad, R
  <1> DEFINE S == World(h, k)
             P == Played(file, h, team, k)
  <1>6. S \in SUBSET Match
    <2>1. \A i \in 1 .. k : i \in 1 .. Len(h)
      BY <1>1, <1>3
    <2> QED BY <1>1, <2>1 DEF World
  <1>7. Rebuilt[S][team] = IF Mine(S, team) = {} THEN Initial
                           ELSE LET m == LastOf(Mine(S, team))
                                    past == Rebuilt[Before(S, m)]
                                IN  <<past[file[m].home], past[file[m].away], m, team>>
    <2>1. Rebuilt[S] = RatingsBy(Rebuilt, S)
      BY <1>6, RebuiltIsDefined
    <2> HIDE DEF S
    <2> QED BY <2>1 DEF RatingsBy
  <1>8. CASE P = {}
    <2>1. Mine(S, team) = {}
      BY <1>8 DEF Mine, World, Played, Plays
    <2>2. RatingAfter(file, h, a, team, k) = Initial
      BY <1>8 DEF RatingAfter, LatestRating
    <2> QED BY <1>5, <1>7, <2>1, <2>2
  <1>9. CASE P # {}
    <2> DEFINE l == CHOOSE i \in P : \A j \in P : j <= i
    <2>1. l \in P /\ \A j \in P : j <= l
      <3>1. P \in SUBSET (1 .. k)
        BY DEF Played
      <3> HIDE DEF P
      <3> QED BY <1>3, <1>9, <3>1, MaxExists
    <2>2. RatingAfter(file, h, a, team, k) = a[h[l]][team]
      BY <1>9 DEF RatingAfter, LatestRating
    <2> HIDE DEF l
    <2>3. l \in 1 .. k /\ team \in {file[h[l]].home, file[h[l]].away}
      BY <2>1 DEF Played
    <2>4. /\ l - 1 \in 0 .. Len(h) /\ l - 1 < k /\ l \in 1 .. Len(h)
      BY <1>1, <1>3, <2>3
    <2>5. h[l] \in Match /\ file[h[l]].home \in Team /\ file[h[l]].away \in Team
      BY <1>1, <2>4 DEF TypeOK, Row
    <2>6. /\ LastOf(Mine(S, team)) = h[l]
          /\ Before(S, h[l]) = World(h, l - 1)
      BY <1>3, <2>1, LastApplied
    <2>7. Mine(S, team) # {}
      <3>1. h[l] \in Mine(S, team)
        BY <2>3, <2>5 DEF Mine, World, Plays
      <3> QED BY <3>1
    <2> DEFINE x == RatingAfter(file, h, a, file[h[l]].home, l - 1)
               y == RatingAfter(file, h, a, file[h[l]].away, l - 1)
    <2>8. a[h[l]] = Entry(file, h[l], x, y)
      BY <2>4 DEF DerivedInv, EntriesDerived
    <2>9. /\ x = Rebuilt[World(h, l - 1)][file[h[l]].home]
          /\ y = Rebuilt[World(h, l - 1)][file[h[l]].away]
      BY <1>4, <2>4, <2>5 DEF Right
    <2> HIDE DEF x, y, S
    <2>10. a[h[l]][team] = <<x, y, h[l], team>>
      BY <2>3, <2>8 DEF Entry
    <2>11. Rebuilt[S][team] = <<x, y, h[l], team>>
      BY <1>7, <2>6, <2>7, <2>9
    <2> QED BY <1>5, <2>2, <2>10, <2>11 DEF S
  <1> QED BY <1>8, <1>9

\* The places that a read as of t looks at are those of the team among the first k
\* entries, for a k that is the same for all teams.
LEMMA PastIsAPrefix ==
    ASSUME EachInv, NEW p \in Program, NEW t \in Int, Complete(p, t)
    PROVE  \E k \in 0 .. Len(history[p]) :
              /\ World(history[p], k) = {m \in Kept(p) : file[m].day < t}
              /\ \A team : Seen(p, team, t) = Played(file, history[p], team, k)
  <1> USE DEF EachInv
  <1> DEFINE h == history[p]
             n == Len(h)
             B == {i \in 1 .. n : file[h[i]].day < t}
             past == {m \in Kept(p) : file[m].day < t}
  <1>1. /\ n \in Nat /\ DOMAIN h = 1 .. n
        /\ \A i \in 1 .. n : h[i] \in Match /\ h[i] \in Kept(p)
    BY DEF TypeOK, OrderInv
  <1>2. \A m \in Match : file[m].day \in Int
    BY ConstantsAssumption DEF TypeOK, Row, Day
  <1>3. ASSUME NEW i \in 1 .. n, NEW j \in 1 .. n, i < j, file[h[j]].day < t
        PROVE  file[h[i]].day < t
    <2>1. Earlier(h[i], h[j])
      BY <1>3 DEF OrderInv
    <2>2. file[h[i]].day <= file[h[j]].day
      BY <1>1, <2>1, EarlierIsOrder
    <2> QED BY <1>1, <1>2, <1>3, <2>2
  <1>4. \E k \in 0 .. n : B = 1 .. k
    <2>1. CASE B = {}
      <3>1. B = 1 .. 0 /\ 0 \in 0 .. n
        BY <1>1, <2>1
      <3> QED BY <3>1
    <2>2. CASE B # {}
      <3>1. PICK k \in B : \A i \in B : i <= k
        <4>1. B \in SUBSET (1 .. n)
          OBVIOUS
        <4> HIDE DEF B, n
        <4> QED BY <1>1, <2>2, <4>1, MaxExists
      <3>2. k \in 1 .. n /\ file[h[k]].day < t
        OBVIOUS
      <3>3. \A i \in 1 .. n : i \in B <=> file[h[i]].day < t
        OBVIOUS
      <3>4. B \subseteq 1 .. n
        OBVIOUS
      <3> HIDE DEF B, h
      <3>5. ASSUME NEW i \in 1 .. n PROVE i \in B <=> i \in 1 .. k
        <4>1. i < k => i \in B
          BY <1>3, <3>2, <3>3
        <4>2. i \in B => i <= k
          BY <3>1
        <4> HIDE DEF n
        <4> QED BY <1>1, <3>1, <3>2, <4>1, <4>2
      <3>6. k \in 0 .. n /\ 1 .. k \subseteq 1 .. n
        BY <1>1, <3>2
      <3>7. B = 1 .. k
        <4> HIDE DEF n
        <4> QED BY <3>4, <3>5, <3>6
      <3> QED BY <3>6, <3>7
    <2> QED BY <2>1, <2>2
  <1>5. PICK k \in 0 .. n : B = 1 .. k
    BY <1>4
  <1>6. World(h, k) \subseteq past
    BY <1>1, <1>5 DEF World
  <1>7. ASSUME NEW m \in past PROVE m \in World(h, k)
    <2>1. m \in Kept(p) /\ m \in Match /\ file[m].day < t
      BY DEF Kept
    <2>2. m \notin pending[p]
      BY <1>2, <2>1 DEF Complete
    <2>3. PICK i \in 1 .. n : h[i] = m
      BY <2>1, <2>2 DEF OrderInv
    <2>4. i \in B
      BY <2>1, <2>3
    <2> QED BY <1>5, <2>3, <2>4 DEF World
  <1>8. \A team : Seen(p, team, t) = Played(file, h, team, k)
    BY <1>1, <1>5 DEF Seen, Played, Plays, BeforeAsOf
  <1> QED BY <1>6, <1>7, <1>8

\* "CRITICAL: must never use data from matches completed after ts": once what is
\* before t is applied, the rating of every team as of t is the one of a world that
\* ended before t, for every file, every t and both programs.
THEOREM AsOfIsRebuiltHolds == Spec => []AsOfIsRebuilt
  <1>1. ASSUME EachInv PROVE AsOfIsRebuilt
    <2> SUFFICES ASSUME NEW p \in Program, NEW t \in 1 .. LastDay + 1, Complete(p, t),
                        NEW team \in Team
                 PROVE  RatingAsOf(p, team, t)
                          = Rebuilt[{m \in Kept(p) : file[m].day < t}][team]
      BY DEF AsOfIsRebuilt
    <2>1. t \in Int
      BY ConstantsAssumption
    <2>2. PICK k \in 0 .. Len(history[p]) :
             /\ World(history[p], k) = {m \in Kept(p) : file[m].day < t}
             /\ Seen(p, team, t) = Played(file, history[p], team, k)
      BY <1>1, <2>1, PastIsAPrefix
    <2>3. RatingAsOf(p, team, t) = RatingAfter(file, history[p], after[p], team, k)
      BY <2>2 DEF RatingAsOf, RatingAfter
    <2>4. RatingAfter(file, history[p], after[p], team, k)
            = Rebuilt[World(history[p], k)][team]
      BY <1>1, RatingsOfTheWorld
    <2> QED BY <2>2, <2>3, <2>4
  <1>2. Init => EachInv
    BY InitEach
  <1> QED BY <1>1, <1>2, EachInductive, PTL DEF Spec
===============================================================================
