------------------------------ MODULE MCDeadband ------------------------------
(* Every step with a few deadbands, wants and starting positions.              *)
EXTENDS Deadband

AllSteps == 1..100
SomeDeadbands == {1, 5, 30}
SomeWants == {0, 3, 33, 50, 75, 100}
SomeStarts == {0, 48, 100}
===============================================================================
