---------------------------- MODULE MCStreamPath ----------------------------
(* One streaming and one aggregated request share a retry budget of one.   *)
EXTENDS StreamPath
CONSTANTS s, w
MCRequests == {s, w}
MCStreaming == {s}
MCMaxChunks == [r \in {s, w} |-> IF r = s THEN 2 ELSE 3]
=============================================================================
