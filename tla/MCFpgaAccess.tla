---------------------------- MODULE MCFpgaAccess ----------------------------
(* A small instance of FpgaAccess for TLC. *)
EXTENDS FpgaAccess

\* One register of two byte lanes in the common page and in one extension
\* page: byte and word reads, and writes that tell the lanes apart.
TwoUsers == {"process", "timer"}
TwoPages == {"common", "extension"}
OneWord == {2}
Bits == {0, 1}
Both(a, b) == [l \in Lanes |-> IF l = "low" THEN a ELSE b]
Operation(k, p, ls, v) ==
  [kind |-> k, page |-> p, word |-> 2, lanes |-> ls, val |-> v]
SomeRequests ==
  {Operation("read", "common", ls, Both(0, 0)) : ls \in {{"low"}, {"high"}, Lanes}}
  \cup {Operation("read", "extension", Lanes, Both(0, 0)),
        Operation("write", "common", {"low"}, Both(1, 0)),
        Operation("write", "common", {"high"}, Both(0, 1)),
        Operation("write", "extension", Lanes, Both(1, 0))}
=============================================================================
