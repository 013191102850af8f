------------------------------ MODULE MCSolver ------------------------------
(* The instance of the decision engine: MCMarketplace checks it with the   *)
(* other services, and the disagreement about minutes is found in it alone.*)
EXTENDS Solver

(* The solver: three jobs, of which no provider has time for all, with two *)
(* ticks to a minute; windows and ways that end between two minutes.       *)
TheJobs == <<[from |-> 0, to |-> 6, minutes |-> 2], [from |-> 2, to |-> 11, minutes |-> 2],
             [from |-> 4, to |-> 12, minutes |-> 3]>>
TheTravel == <<<<0, 1, 3>>, <<1, 0, 2>>, <<3, 2, 0>>>>
TheHomes == <<2, 9>>
TheCalendars == {{[from |-> 0, to |-> 12]}, {[from |-> 0, to |-> 5], [from |-> 6, to |-> 12]},
                 {[from |-> 3, to |-> 8]}}
=============================================================================
