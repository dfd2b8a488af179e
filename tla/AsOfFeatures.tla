----------------------------- MODULE AsOfFeatures -----------------------------
(***************************************************************************)
(* Ratings and form as of an instant, live and in training.                *)
(*                                                                         *)
(* Two programs read the same file of results: at boot the ingestor of the *)
(* trading process applies it to its EloEngine and FormCalculator, and the *)
(* training run replays it through engines of its own, writing one row of  *)
(* features per match.  A model is only worth what it was trained on: the  *)
(* features of a match in training have to be those the trading process    *)
(* reads as of that match (elo/engine.py, elo/form.py,                     *)
(* services/external_ingestor.py, training/dataset.py).                    *)
(*                                                                         *)
(* A rating is the term of the results it was computed from, so that two   *)
(* ratings are equal exactly when the same results went into them in the   *)
(* same way.  Rows that both programs drop are no part of the file.        *)
(***************************************************************************)
EXTENDS Integers, Sequences, FiniteSets

CONSTANTS
    Team,
    Matches,       \* rows of the file
    LastDay,       \* the matches are dated 1 to LastDay
    FormLength,    \* n of compute_form
    Kind,          \* rows with a result but no goals are possible or not
    Resolve        \* TeamMatcher.resolve of the name the exchange lists a team by

Match == 1 .. Matches     \* a match is its line in the file
Day == 1 .. LastDay

ASSUME ConstantsAssumption ==
    /\ Matches \in Nat /\ LastDay \in Nat /\ FormLength \in Nat \ {0}
    /\ Kind \subseteq {"full", "goalless"}
    /\ DOMAIN Resolve = Team

VARIABLES
    file,      \* the rows of the file
    pending,   \* per program, the rows still to be applied
    history,   \* per program, EloEngine._history and FormCalculator._matches
    after,     \* per program and match, home_elo_after and away_elo_after
    rating,    \* per program, EloEngine._ratings
    rows       \* DatasetBuilder.build: X_rows with the match of each

vars == <<file, pending, history, after, rating, rows>>

Program == {"live", "train"}
Row == {r \in [day : Day, home : Team, away : Team, kind : Kind] : r.home # r.away}

Initial == <<>>

\* int("") raises and the ingestor drops the row; the dataset reads it as 0.
Kept(p) == {m \in Match : p = "train" \/ file[m].kind = "full"}

Init ==
    /\ file \in [Match -> Row]
    /\ pending = [p \in Program |-> Kept(p)]
    /\ history = [p \in Program |-> <<>>]
    /\ after = [p \in Program |-> [m \in Match |-> <<>>]]
    /\ rating = [p \in Program |-> [t \in Team |-> Initial]]
    /\ rows = <<>>

Plays(m, team) == team \in {file[m].home, file[m].away}

InFileOrder(i, j) == i < j                                             \* mutant
\* matches.sort(key=date) is stable.
Earlier(i, j) == \/ file[i].day < file[j].day
                 \/ file[i].day = file[j].day /\ i < j

-------------------------------------------------------------------------------
(* Reading as of an instant *)

UpToAsOf(day, t) == day <= t                                           \* mutant
BeforeAsOf(day, t) == day < t

\* The entries of the history that a read as of t may look at.
Seen(p, team, t) ==
    {i \in DOMAIN history[p] : /\ Plays(history[p][i], team)
                               /\ BeforeAsOf(file[history[p][i]].day, t)}

\* The rating of the team after the last entry seen, in history h with ratings a.
LatestRating(h, a, seen, team) ==
    LET last == CHOOSE i \in seen : \A j \in seen : j <= i
    IN  IF seen = {} THEN Initial ELSE a[h[last]][team]

\* get_ratings_asof walks the history back to the first entry it may look at.
RatingAsOf(p, team, t) ==
    LatestRating(history[p], after[p], Seen(p, team, t), team)

OlderFirst(f, h, i, j) == f[h[i]].day < f[h[j]].day                    \* mutant
\* The sort by date, newest first, keeps the order of the matches of one day.
NewerFirst(f, h, i, j) ==
    f[h[i]].day > f[h[j]].day \/ (f[h[i]].day = f[h[j]].day /\ i < j)

\* The first FormLength of the entries seen, newest first.
LatestForm(f, h, seen) ==
    {h[i] : i \in {i \in seen :
        Cardinality({j \in seen : NewerFirst(f, h, j, i)}) < FormLength}}

\* compute_form: the matches it averages over.
FormAsOf(p, team, t) == LatestForm(file, history[p], Seen(p, team, t))

\* Both programs apply the names of the file; the dataset reads them too, while
\* the trading process reads under the name its matcher resolves to.
Lookup(p, team) == IF p = "live" THEN Resolve[team] ELSE team

\* get_features_asof, and the values of a row of the dataset.  The trading process
\* asks as of the snapshot, an instant of the day t: the same while the file has no
\* match of the two teams on that day, as a file of past results has not.
Features(p, m, t) ==
    [team \in {file[m].home, file[m].away} |->
        [elo |-> RatingAsOf(p, Lookup(p, team), t),
         form |-> FormAsOf(p, Lookup(p, team), t)]]

-------------------------------------------------------------------------------
(* The two loops over the sorted matches *)

\* home_elo_after or away_elo_after: computed from both ratings before.
NewRating(p, m, team) ==
    <<rating[p][file[m].home], rating[p][file[m].away], m, team>>

LeftForever(p, m) == pending[p]                                        \* mutant
Left(p, m) == pending[p] \ {m}

\* apply_result and add_match for the next match of the sorted list.
Apply(p, m) ==
    /\ m \in pending[p]
    /\ \A x \in pending[p] \ {m} : Earlier(m, x)
    /\ LET new == [t \in {file[m].home, file[m].away} |-> NewRating(p, m, t)]
       IN  /\ after' = [after EXCEPT ![p][m] = new]
           /\ rating' = [rating EXCEPT ![p] =
                [t \in Team |-> IF Plays(m, t) THEN new[t] ELSE rating[p][t]]]
    /\ history' = [history EXCEPT ![p] = Append(@, m)]
    /\ pending' = [pending EXCEPT ![p] = Left(p, m)]
    /\ UNCHANGED file

\* One turn of load_historical_results.
Load(m) ==
    /\ Apply("live", m)
    /\ UNCHANGED rows

\* One turn of build: the features as of the match's date, then its result.
Replay(m) ==
    /\ Apply("train", m)
    /\ rows' = Append(rows, [match |-> m, features |-> Features("train", m, file[m].day)])

Next == \E m \in Match : Load(m) \/ Replay(m)

Spec == Init /\ [][Next]_vars

-------------------------------------------------------------------------------
(* Properties *)

\* Types; and every row a program kept is either applied, once, or pending.
TypeOK ==
    /\ file \in [Match -> Row]
    /\ pending \in [Program -> SUBSET Match]
    /\ history \in [Program -> Seq(Match)]
    /\ \A p \in Program :
         Len(history[p]) + Cardinality(pending[p]) = Cardinality(Kept(p))
    /\ Len(rows) = Len(history["train"])

\* What is before t has been applied.
Complete(p, t) == \A m \in pending[p] : file[m].day >= t

\* The rating of every team when the matches of S and no others were played, in
\* the order of their dates: the reference for a read of the past.
Rebuilt[S \in SUBSET Match] ==
    [team \in Team |->
        LET mine == {m \in S : Plays(m, team)}
            m == CHOOSE m \in mine : \A x \in mine \ {m} : Earlier(x, m)
            past == Rebuilt[{x \in S : Earlier(x, m)}]
        IN  IF mine = {} THEN Initial
            ELSE <<past[file[m].home], past[file[m].away], m, team>>]

\* "CRITICAL: must never use data from matches completed after ts": a rating as
\* of t is the one of a world that ended before t, for all t and both programs.
AsOfIsRebuilt ==
    \A p \in Program, t \in 1 .. LastDay + 1 :
        Complete(p, t) =>
            LET world == Rebuilt[{m \in Kept(p) : file[m].day < t}]
            IN  \A team \in Team : RatingAsOf(p, team, t) = world[team]

\* The form as of t is that of the team's FormLength latest matches before t,
\* or of all of them while there are fewer.
FormIsLatest ==
    \A p \in Program, team \in Team, t \in 1 .. LastDay + 1 :
        Complete(p, t) =>
            LET past == {m \in Kept(p) : Plays(m, team) /\ file[m].day < t}
                form == FormAsOf(p, team, t)
            IN  /\ form \subseteq past
                /\ \A m \in form, x \in past \ form : file[x].day <= file[m].day
                /\ \/ Cardinality(form) = FormLength
                   \/ form = past /\ Cardinality(form) < FormLength

\* "The same as-of semantics as the live runtime": the features a match was
\* trained with are those the trading process reads as of the match's date.
TrainingRowIsLive ==
    pending["live"] = {} =>
        \A k \in DOMAIN rows :
            rows[k].features = Features("live", rows[k].match, file[rows[k].match].day)
===============================================================================
