------------------------------- MODULE Solver -------------------------------
(***************************************************************************)
(* The decision engine: candidates are ranked for each demand, the demands *)
(* are then placed together by a solver with a time limit or, if it finds  *)
(* nothing, one after the other, and every placement is checked again.     *)
(* Times are ticks of a clock that is finer than minutes.  The solver knows*)
(* whole minutes only: moments are rounded down for it, and ways up.  An   *)
(* interval has its `from`, not its `to`.                                  *)
(***************************************************************************)
EXTENDS Integers, FiniteSetsExt

CONSTANTS
  Demands,    \* numbers, in the order of the ids of the requests
  Workers,    \* the providers
  Minute,     \* ticks of a minute
  Window,     \* demand |-> [from, to, minutes]; the job takes so many minutes
  Travel,     \* demand |-> demand |-> time from the one place to the other
  Home,       \* provider |-> time from home to any place
  Calendars,  \* bound: sets of windows a provider may declare
  Rooms,      \* bound: bookings a provider can still take on a day
  Scores,     \* bound: in units of 1 / ScoreScale
  Bonus, Penalty, Tie,   \* assignment_bonus, travel_penalty, rank_tiebreak
  DayMinutes, \* minutes of a day
  NoWorker

ASSUME SolverAssumption ==
  /\ Demands \subseteq Nat /\ IsFiniteSet(Demands)
  /\ Workers \subseteq Nat /\ IsFiniteSet(Workers)
  /\ Minute \in Nat \ {0}
  /\ Window \in [Demands -> [from : Nat, to : Nat, minutes : Nat \ {0}]]
  /\ Travel \in [Demands -> [Demands -> Nat]]
  /\ \A d, e \in Demands : Travel[d][e] = Travel[e][d]
  /\ Home \in [Workers -> Nat]
  /\ \A windows \in Calendars : windows \subseteq [from : Nat, to : Nat]
  /\ Rooms \subseteq Nat /\ Scores \subseteq Nat
  /\ Bonus \in Nat /\ Penalty \in Nat /\ Tie \in Nat /\ Bonus > Max(Scores)
  /\ NoWorker \notin [provider : Workers, from : Nat, to : Nat]

VARIABLES
  calendar, room, score,  \* of each provider: what core has sent
  ranking,                \* demand |-> its candidates |-> their places, 1 the best
  status,                 \* SolverStatus, "new" before
  proposed,               \* demand |-> placement or NoWorker
  accepted,               \* what is answered
  violations,             \* constraint_violations
  most                    \* how many demands a plan can serve
solverVars == <<calendar, room, score, ranking, status, proposed, accepted, violations, most>>

NoPlan == [d \in Demands |-> NoWorker]

SolverInit ==
  /\ calendar \in [Workers -> Calendars] /\ room \in [Workers -> Rooms]
  /\ score \in [Workers -> Scores]
  /\ ranking = [d \in Demands |-> <<>>]
  /\ status = "new" /\ proposed = NoPlan /\ accepted = NoPlan /\ violations = 0 /\ most = 0
-----------------------------------------------------------------------------
DayOf(d) == Window[d].from \div (Minute * DayMinutes)

Length(d) == Minute * Window[d].minutes

(* Minutes that are over at a moment, and those that a way takes.          *)
MinutesSince(t) == t \div Minute
TravelMinutes(t) == (t + (Minute - 1)) \div Minute

(* The parts of the declared windows, and of the demand's, that hold the   *)
(* whole job.                                                              *)
feasibleIntervals(d, p) ==
  LET cut(w) == [from |-> Max({w.from, Window[d].from}), to |-> Min({w.to, Window[d].to})]
  IN {i \in {cut(w) : w \in calendar[p]} : i.to - i.from >= Length(d)}

evaluate(d, p) == room[p] > 0 /\ feasibleIntervals(d, p) # {}

(* The place of x by its key, the least first; equals in the order of ids. *)
Place(key, x) ==
  1 + Cardinality({y \in DOMAIN key : key[y] < key[x] \/ (key[y] = key[x] /\ y < x)})

(* Best score first.                                                       *)
rankDemand(d) ==
  LET key == [p \in {q \in Workers : evaluate(d, q)} |-> -score[p]]
  IN [p \in DOMAIN key |-> Place(key, p)]

Candidates(d) == DOMAIN ranking[d]

(* When the solver may start a job: at a whole minute.                     *)
Starts(d, p) ==
  UNION {{Minute * m : m \in MinutesSince(i.from)..(MinutesSince(i.to) - Window[d].minutes)} :
           i \in feasibleIntervals(d, p)}

Placement(d, p, s) == [provider |-> p, from |-> s, to |-> s + Length(d)]

Given(f) == {d \in Demands : f[d] # NoWorker}
SameWorker(f) == {pr \in Given(f) \X Given(f) : pr[1] # pr[2] /\ f[pr[1]].provider = f[pr[2]].provider}
-----------------------------------------------------------------------------
(* mutation: the jobs of a provider may follow each other at once          *)
NoTravel(f, d, e) == f[e].from >= f[d].to \/ f[d].from >= f[e].to

(* One of two jobs of a provider comes first, with the minutes that the way*)
(* takes between.                                                          *)
Ordered(f, d, e) ==
  \/ f[e].from >= f[d].to + Minute * TravelMinutes(Travel[d][e])
  \/ f[d].from >= f[e].to + Minute * TravelMinutes(Travel[e][d])

WithinRoom(f) ==
  \A d \in Given(f) :
    Cardinality({e \in Given(f) : f[e].provider = f[d].provider /\ DayOf(e) = DayOf(d)})
      <= room[f[d].provider]

(* What the model of the solver admits.                                    *)
Plans ==
  LET options == [d \in Demands |->
                    {NoWorker} \cup UNION {{Placement(d, p, s) : s \in Starts(d, p)} :
                                         p \in Candidates(d)}]
  IN {f \in [Demands -> UNION {options[d] : d \in Demands}] :
        /\ \A d \in Demands : f[d] \in options[d]
        /\ WithinRoom(f)
        /\ \A pr \in SameWorker(f) : Ordered(f, pr[1], pr[2])}

(* mutation: nothing is paid for a placement as such                       *)
scoreOnly(f) ==
  MapThenSumSet(LAMBDA d : score[f[d].provider] - Penalty * TravelMinutes(Home[f[d].provider]), Given(f))

(* Every pair of jobs of a provider pays for the way from the earlier to   *)
(* the later one, not only those that follow each other.                   *)
objective(f) ==
  MapThenSumSet(LAMBDA d : Bonus + score[f[d].provider] - Tie * ranking[d][f[d].provider]
                           - Penalty * TravelMinutes(Home[f[d].provider]), Given(f))
  - MapThenSumSet(LAMBDA pr : Penalty * TravelMinutes(Travel[pr[1]][pr[2]]),
                  {pr \in SameWorker(f) : f[pr[1]].from < f[pr[2]].from})
-----------------------------------------------------------------------------
(* The starts for d with p beside the jobs in f, each of them wider by the *)
(* way between.  The fallback does not round.                              *)
earliestStarts(f, d, p) ==
  LET jobs == {e \in Given(f) : f[e].provider = p}
  IN {s \in UNION {i.from..(i.to - Length(d)) : i \in feasibleIntervals(d, p)} :
        \A e \in jobs : \/ s + Length(d) <= f[e].from - Travel[e][d]
                        \/ s >= f[e].to + Travel[e][d]}

(* The first provider in the ranking who has room and time.                *)
placed(f, d) ==
  LET used(p) == Cardinality({e \in Given(f) : f[e].provider = p /\ DayOf(e) = DayOf(d)})
      able == {p \in Candidates(d) : used(p) < room[p] /\ earliestStarts(f, d, p) # {}}
      p == CHOOSE q \in able : \A o \in able : ranking[d][q] <= ranking[d][o]
  IN IF able = {} THEN NoWorker ELSE Placement(d, p, Min(earliestStarts(f, d, p)))

(* The demands of a key one after the other: what next(f, d) makes of d    *)
(* when f is the plan of those before it.                                  *)
inTurn(key, next(_, _)) ==
  LET plan[n \in 0..Cardinality(DOMAIN key)] ==
        IF n = 0 THEN NoPlan
        ELSE LET f == plan[n - 1]
             IN [d \in Demands |-> IF d \in DOMAIN key /\ Place(key, d) = n
                                   THEN next(f, d) ELSE f[d]]
  IN plan[Cardinality(DOMAIN key)]

assign == inTurn([d \in Demands |-> Window[d].from], placed)
-----------------------------------------------------------------------------
rank ==
  /\ status = "new"
  /\ status' = "ranked" /\ ranking' = [d \in Demands |-> rankDemand(d)]
  /\ UNCHANGED <<calendar, room, score, proposed, accepted, violations, most>>

(* The solver ends with the best plan, with some plan when time is up, or  *)
(* with none.                                                              *)
solve ==
  /\ status = "ranked"
  /\ \E plans \in {Plans} : \E best \in {Max({objective(f) : f \in plans})} :
       /\ most' = Max({Cardinality(Given(f)) : f \in plans})
       /\ \/ status' = "OPTIMAL" /\ \E f \in plans : objective(f) = best /\ proposed' = f
          \/ status' = "FEASIBLE" /\ \E f \in plans : proposed' = f
          \/ status' = "TIMEOUT" /\ proposed' = assign
  /\ UNCHANGED <<calendar, room, score, ranking, accepted, violations>>

(* Is the placement of d a job that the provider can do beside those in g? *)
(* Their overlap counts, the way between them does not.                    *)
stands(f, g, d) ==
  /\ f[d].provider \in Candidates(d)
  /\ f[d].to - f[d].from = Length(d)
  /\ \E i \in feasibleIntervals(d, f[d].provider) : i.from <= f[d].from /\ f[d].to <= i.to
  /\ LET others == {e \in Given(g) : g[e].provider = f[d].provider}
     IN /\ Cardinality({e \in others : DayOf(e) = DayOf(d)}) < room[f[d].provider]
        /\ \A e \in others : ~(f[d].from < g[e].to /\ g[e].from < f[d].to)

(* In the order of their starts.                                           *)
verified(f) ==
  inTurn([d \in Given(f) |-> f[d].from],
         LAMBDA g, d : IF stands(f, g, d) THEN f[d] ELSE NoWorker)

verify ==
  /\ status \notin {"new", "ranked"} /\ accepted = NoPlan /\ violations = 0 /\ proposed # NoPlan
  /\ accepted' = verified(proposed)
  /\ violations' = Cardinality(Given(proposed)) - Cardinality(Given(accepted'))
  /\ UNCHANGED <<calendar, room, score, ranking, status, proposed, most>>

SolverNext == rank \/ solve \/ verify

SolverSpec == SolverInit /\ [][SolverNext]_solverVars
-----------------------------------------------------------------------------
(* What is answered can be carried out: each job lies within a window that *)
(* was declared, and no provider is in two homes at once, nor without the  *)
(* time to get from one to the next, nor has more jobs on a day than can   *)
(* still be taken.                                                         *)
AnswerIsFeasible ==
  /\ \A d \in Given(accepted) :
       \E i \in feasibleIntervals(d, accepted[d].provider) :
         i.from <= accepted[d].from /\ accepted[d].to <= i.to
  /\ WithinRoom(accepted)
  /\ \A pr \in SameWorker(accepted) :
       \/ accepted[pr[1]].to + Travel[pr[1]][pr[2]] <= accepted[pr[2]].from
       \/ accepted[pr[2]].to + Travel[pr[2]][pr[1]] <= accepted[pr[1]].from

(* The last check takes out only what the solver has let begin in the      *)
(* minute in which a window opens, before it does: nothing when windows    *)
(* open at whole minutes, and nothing that the fallback has placed.        *)
OnlyCutShort ==
  violations > 0 =>
    \A d \in Given(proposed) \ Given(accepted) :
      /\ status # "TIMEOUT"
      /\ \E i \in feasibleIntervals(d, proposed[d].provider) :
           i.from - Minute < proposed[d].from /\ proposed[d].from < i.from

(* What the code says of its own model: the last check finds nothing.      *)
NothingToCorrect == violations = 0

(* A solver that has time leaves nobody without a provider for the sake of *)
(* a better score or a shorter way.                                        *)
OptimumServesMost == status = "OPTIMAL" => Cardinality(Given(proposed)) = most

(* An answer can be carried out, and where the last check has changed it,  *)
(* a window that opens within a minute is why.                             *)
SolverInv == AnswerIsFeasible /\ OnlyCutShort
=============================================================================
