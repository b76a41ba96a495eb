----------------------------- MODULE UsageLimit -----------------------------
(***************************************************************************)
(* What UsageTracker promises (core/src/usage_tracker.rs): in every month  *)
(* at most Limit calls, and only a reset takes a call back.  The abstract  *)
(* specification: no files, no processes, no crashes.  EmbeddedFile is     *)
(* built on it.                                                            *)
(***************************************************************************)
EXTENDS Naturals

CONSTANTS
  Limit,        \* monthly_limit
  Months        \* months the run lasts, for TLC

ASSUME LimitAssumption == Limit \in Nat /\ Months \in Nat \ {0}

VARIABLES
  month,        \* the current month
  counted       \* month -> calls let through

UsageInit == month = 1 /\ counted = [m \in 1 .. Months |-> 0]

LaterMonth == month < Months /\ month' = month + 1 /\ UNCHANGED counted

Admit(m) ==
  /\ counted[m] < Limit
  /\ counted' = [counted EXCEPT ![m] = @ + 1]
  /\ UNCHANGED month

TakeBack ==
  /\ counted' = [m \in 1 .. Months |-> 0]
  /\ UNCHANGED month

(* A call counts for the month it began in.                                *)
UsageNext == LaterMonth \/ (\E m \in 1 .. month : Admit(m)) \/ TakeBack
UsageSpec == UsageInit /\ [][UsageNext]_<<month, counted>>
=============================================================================
