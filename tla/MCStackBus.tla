----------------------------- MODULE MCStackBus -----------------------------
(* Small instances of StackBus for TLC. *)
EXTENDS StackBus

OneCaller == {"cpsaio"}
NoCaller == {}
\* The device counter of the FPGA reads one; one or two; one, too many or none.
OneDevice == {1}
OneOrTwo == {1, 2}
OneManyOrNone == {1, 3, NoStack}
Never == {FALSE}
=============================================================================
