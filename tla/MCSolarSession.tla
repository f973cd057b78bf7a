--------------------------- MODULE MCSolarSession ---------------------------
(* Small instances of the command session for TLC.                                *)
EXTENDS SolarService, TLC

CONSTANTS p1, n1, n2, a, b, big, empty

\* Two chunks of equal size (so that a fault can turn one into the other), one
\* that fits only an empty buffer, and the chunk with no data.
MCSize == (a :> 1) @@ (b :> 1) @@ (big :> 2) @@ (empty :> 0)

\* A transaction may be a proper prefix of another one (deserialise_vote takes a
\* cancelled vote whatever follows it); a message states its length, so none is.
MCTxPayloads == {<<a>>, <<a, b>>, <<big>>}
MCMsgPayloads == {<<b>>, <<a, a>>}
=============================================================================
