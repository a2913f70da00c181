----------------------------- MODULE BusRecovery -----------------------------
(***************************************************************************)
(* What the timer of cps-driver promises about bus resets, without saying  *)
(* how long anything takes or how a failure is found: the FPGA is held in  *)
(* reset only to answer a failure that was counted, one reset for one      *)
(* failure at most, it is released before the bus is watched again, and    *)
(* there are no more resets once FailedMax failures were passed.           *)
(***************************************************************************)
EXTENDS Naturals

CONSTANT FailedMax

VARIABLES
  phase,      \* "off", "watch", "failed", "held" or "released"
  line,       \* the FPGA_RESET line
  failures,   \* failures counted so far
  resets      \* resets started so far

vars == <<phase, line, failures, resets>>

Init ==
  /\ phase = "off"
  /\ line \in {"low", "high"}
  /\ failures = 0
  /\ resets = 0

\* The driver is loaded: an FPGA found in reset is released.
Start ==
  /\ phase = "off" /\ phase' = "watch"
  /\ line' = "high"
  /\ UNCHANGED <<failures, resets>>

\* A failure is counted; the one the watch finds asks for a reset.
Fail ==
  /\ phase # "off"
  /\ failures' = failures + 1
  /\ \/ UNCHANGED phase
     \/ phase = "watch" /\ phase' = "failed"
  /\ UNCHANGED <<line, resets>>

Hold ==
  /\ phase = "failed" /\ phase' = "held"
  /\ failures <= FailedMax
  /\ line' = "low"
  /\ resets' = resets + 1
  /\ UNCHANGED failures

Release ==
  /\ phase = "held" /\ phase' = "released"
  /\ failures <= FailedMax
  /\ line' = "high"
  /\ UNCHANGED <<failures, resets>>

Resume ==
  /\ phase = "released" /\ phase' = "watch"
  /\ UNCHANGED <<line, failures, resets>>

Next == Start \/ Fail \/ Hold \/ Release \/ Resume

Spec == Init /\ [][Next]_vars

\* One reset for one failure, and none past the limit.
ResetsAnswerFailures ==
  /\ resets <= failures /\ resets <= FailedMax
  /\ phase = "failed" => resets < failures
  /\ phase # "off" => (line = "low" <=> phase = "held")
=============================================================================
