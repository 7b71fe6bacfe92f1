--------------------------- MODULE MCCommandQueue ---------------------------
(***************************************************************************)
(* A display with its system buffer and two swap chains, and a texture     *)
(* that only the GPU uses.  The kicks render to the buffers of the chains; *)
(* one of them also reads the texture that a transfer writes.              *)
(***************************************************************************)
EXTENDS CommandQueue

CONSTANTS sys, front, back, tex

MCSyncs == {sys, front, back, tex}

\* The second chain has no buffers of its own: it can only show the system
\* buffer, which makes the two queues meet there.
MCChainBuffers == <<{front, back}, {}>>

MCKicks == {[rd |-> {tex}, wr |-> {back}], [rd |-> {}, wr |-> {front}]}

MCTransfers == {[rd |-> {front}, wr |-> {tex}], [rd |-> {back}, wr |-> {back}]}
=============================================================================
