--------------------------- MODULE MCHttpContent ---------------------------
(***************************************************************************)
(* The setups for TLC, which keep the order of the sizes in the program.   *)
(***************************************************************************)
EXTENDS HttpContent

AllModes == {"length", "chunked", "close"}

\* A body longer than the buffer, fetched in as many calls as it takes.
Long == [modes |-> {"length"}, maxBody |-> 9, chunkSize |-> 6, bufLen |-> 4,
         cut |-> TRUE, abandon |-> FALSE]

\* httpclient_get, whose caller ignores "more": the rest is left unread.
Get == [modes |-> AllModes, maxBody |-> 5, chunkSize |-> 5, bufLen |-> 5,
        cut |-> TRUE, abandon |-> TRUE]

\* A buffer that takes the whole response.
Fits == [modes |-> AllModes, maxBody |-> 7, chunkSize |-> 12, bufLen |-> 12,
         cut |-> FALSE, abandon |-> FALSE]

MCSetups == {Long, Get, Fits}

\* A server that may stop in the header of a chunk.
Stopped == {[modes |-> {"chunked"}, maxBody |-> 2, chunkSize |-> 8, bufLen |-> 8,
             cut |-> TRUE, abandon |-> FALSE]}

\* A buffer that is smaller than what comes with the headers, and a caller that ignores
\* "more".
Remaining == {[modes |-> {"length"}, maxBody |-> 4, chunkSize |-> 8, bufLen |-> 3,
               cut |-> FALSE, abandon |-> TRUE]}
=============================================================================
