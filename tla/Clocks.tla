------------------------------- MODULE Clocks -------------------------------
(***************************************************************************)
(* The clocks of the machines.  Time passes in milliseconds; every machine *)
(* reads a clock of its own, which is set now and then and is never wrong  *)
(* by more than MaxSkew.  Redis expires keys in real time.                 *)
(***************************************************************************)
EXTENDS Integers

CONSTANTS
  Machines,  \* the processes that read a clock
  MaxSkew    \* how far a clock may be from real time, in ms

ASSUME SkewAssumption == MaxSkew \in Nat

VARIABLES
  now,    \* real time
  skew    \* skew[m]: what clock m is ahead

clockVars == <<now, skew>>

Skews == (-MaxSkew)..MaxSkew

ClockTypeOK ==
  /\ now \in Int /\ now > MaxSkew
  /\ skew \in [Machines -> Skews]

\* Every reading is after the zero of Unix time.
ClockInit ==
  /\ now = MaxSkew + 1
  /\ skew \in [Machines -> Skews]

\* time.Now() on machine m
Reading(m) == now + skew[m]

TimePasses ==
  /\ now' = now + 1
  /\ UNCHANGED skew

SetClock(m, s) ==
  /\ skew' = [skew EXCEPT ![m] = s]
  /\ UNCHANGED now
=============================================================================
