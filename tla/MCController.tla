----------------------------- MODULE MCController -----------------------------
(* The configurations and bounds of the runs of Controller.                   *)
EXTENDS Controller

Plain ==
  [polls |-> TRUE, invert |-> FALSE,
   mode |-> "sun_shade", shadeClosed |-> 20, summerClose |-> 10, winterOpen |-> 90,
   sleep |-> 0, open |-> 100, presenceSim |-> FALSE, afterDark |-> FALSE,
   occupiedOnly |-> FALSE, requireOccupancy |-> FALSE, whenUnoccupied |-> "off",
   occupancyUnknown |-> "yes"]

\* The sun alone in its three modes, one of them without polls and two of them inverted;
\* a schedule with presence simulation; shading with privacy after dark in a room whose
\* occupancy counts.
MCCfgs ==
  { Plain,
    [Plain EXCEPT !.polls = FALSE, !.invert = TRUE],
    [Plain EXCEPT !.mode = "sun_glare", !.invert = TRUE],
    [Plain EXCEPT !.mode = "thermal"],
    [Plain EXCEPT !.mode = "schedule", !.presenceSim = TRUE],
    [Plain EXCEPT !.afterDark = TRUE, !.occupiedOnly = TRUE,
                  !.requireOccupancy = TRUE, !.occupancyUnknown = "no"] }
=============================================================================
