------------------------ MODULE MCWdsRuntimeSettings -------------------------
(* Model-checking instance of WdsRuntimeSettings: an 8-bit mask, so that   *)
(* every mask shape (contiguous, with holes, a lone bit) occurs; IPv6      *)
(* prefix lengths 0 (absent), 64 and 128 to cover agreement and conflict.  *)
EXTENDS WdsRuntimeSettings

\* One decrement below zero is tracked: enough to tell a loop that ends
\* from one that runs past the last bit.
MCPrefixFloor == -1

MCNonZeroMasks == 1 .. (2^Width - 1)

\* The Width + 1 masks with contiguous high bits, /0 included.
MCContiguousMasks == {ContiguousMask(k) : k \in 0 .. Width}
=============================================================================
