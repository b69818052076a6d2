----------------------------- MODULE MCScheduler -----------------------------
EXTENDS Scheduler

ModesMC == {{"enable", "count0"}, {"enable", "vblank", "write"}}

(* Neither the timer nor the watchdog reads the other's state: a program that *)
(* uses the one leaves the other alone.                                       *)
ProgramsMC == {TimerWrites, WatchdogWrites}

InitMC == Init /\ (program = TimerWrites => ~watchdogOn)
SpecMC == InitMC /\ [][Next]_vars /\ WF_vars(Next)
=============================================================================
