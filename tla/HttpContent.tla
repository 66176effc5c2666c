---------------------------- MODULE HttpContent ----------------------------
(***************************************************************************)
(* How httpclient_recv_response (src/src/demo/http/src/httpclient.c) reads *)
(* the body of a response into the caller's buffer, in as many calls as    *)
(* the caller makes: by Content-Length, in chunks, or until the server     *)
(* closes.  The status line and the headers are taken as read.             *)
(*                                                                         *)
(* A byte of a body is named by its request and its position; a chunk      *)
(* header is a digit, CR and LF.                                           *)
(***************************************************************************)
EXTENDS Integers, Sequences, FiniteSetsExt

CONSTANTS
    Setups,        \* the clients and servers to be looked at, of Setup
    MaxRequests    \* bound: requests one after the other

Setup ==
    [modes : SUBSET {"length", "chunked", "close"},   \* kinds of response the servers send
     maxBody : Nat,               \* the longest body
     chunkSize : Nat \ {0, 1},    \* HTTPCLIENT_CHUNK_SIZE (512), also the size of remain_buf
     bufLen : Nat \ {0, 1},       \* response_buf_len (600 in the demo)
     cut : BOOLEAN,               \* the server may stop in the middle of a response,
                                  \* and the connection may fail
     abandon : BOOLEAN]           \* the caller may leave the rest unread, as httpclient_get does

ASSUME HttpAssumption == Setups \subseteq Setup /\ MaxRequests \in Nat

CR == <<"cr", 0, 0>>
LF == <<"lf", 0, 0>>
Digit(n) == <<"size", n, 0>>

VARIABLES
    setup,     \* the setup of this behaviour
    net,       \* what the server has still to deliver on this connection
    body,      \* the body of the response it sends
    mode,      \* and how it is sent
    pc,        \* where httpclient_retrieve_content is, or "idle" outside of it
    data,      \* the first len bytes of data
    buf,       \* the first count bytes of response_buf
    readLen,   \* the local readLen
    retrieve,  \* client_data->retrieve_len
    more,      \* client_data->is_more
    remain,    \* the static remain_buf, up to remain_len
    result,    \* what the last call has returned
    got,       \* history: the blocks the caller was given for this request
    req        \* history: number of requests

client == <<pc, data, buf, readLen, retrieve, more, remain, result, got>>
exchange == <<net, body, mode, client, req>>
vars == <<setup, exchange>>

ChunkSize == setup.chunkSize
BufLen == setup.bufLen

HttpInit ==
    /\ setup \in Setups
    /\ net = << >> /\ body = << >> /\ mode \in setup.modes
    /\ pc = "idle" /\ data = << >> /\ buf = << >> /\ readLen = 0 /\ retrieve = 0
    /\ more = FALSE /\ remain = << >> /\ result = "none" /\ got = << >> /\ req = 0
-----------------------------------------------------------------------------
\* The ways to cut a body of n bytes into chunks whose length is one digit: the sets of
\* their ends.
Cuts(n) == {ends \in SUBSET (1 .. n) : \A k \in 1 .. n : \E e \in ends : k <= e /\ e < k + 15}

\* What is sent of a body in chunks from its byte k on, for every k: a chunk with its
\* header and a CR LF behind it, and what follows; the chunk of length 0 at the end.
Chunks(b, ends) ==
    LET from[k \in 1 .. Len(b) + 1] ==
            IF k > Len(b) THEN <<Digit(0), CR, LF, CR, LF>>
            ELSE LET e == Min({x \in ends : x >= k})
                 IN  <<Digit(e - k + 1), CR, LF>> \o SubSeq(b, k, e) \o <<CR, LF>> \o from[e + 1]
    IN  from

\* A new request on a new connection with a client_data that is cleared: the server
\* sends a response, or a part of one.
Request ==
    /\ pc = "idle" /\ req < MaxRequests
    /\ result # "MORE" \/ setup.abandon
    /\ \E n \in 0 .. setup.maxBody, m \in setup.modes :
        LET b == [k \in 1 .. n |-> <<"body", req + 1, k>>]
        IN  /\ \E sent \in IF m = "chunked" THEN {Chunks(b, ends)[1] : ends \in Cuts(n)} ELSE {b} :
               \E k \in 0 .. Len(sent) :
                /\ setup.cut \/ k = Len(sent)
                /\ net' = SubSeq(sent, 1, k)
                /\ body' = IF m = "close" THEN net' ELSE b
            /\ mode' = m
    /\ req' = req + 1 /\ result' = "none" /\ got' = << >> /\ more' = FALSE
    /\ UNCHANGED <<pc, data, buf, readLen, retrieve, remain>>
-----------------------------------------------------------------------------
Take(n) == SubSeq(net, 1, n)
Drop(s, n) == SubSeq(s, n + 1, Len(s))
Smaller(a, b) == IF a < b THEN a ELSE b
Larger(a, b) == IF a < b THEN b ELSE a

\* The numbers of bytes httpclient_recv can return: it asks for min bytes first, even if
\* max is less, goes on until it has min or max, and then takes what is there up to max.
\* None, if the server has closed before that.
Received(min, max) ==
    IF max = 0 THEN {0} ELSE {n \in Smaller(min, max) .. Larger(min, max) : n <= Len(net)}

\* What response_buf still has room for.
Room == BufLen - 1 - Len(buf)

Return(r, block) ==
    /\ pc' = "idle" /\ result' = r /\ got' = got \o block
    /\ data' = << >> /\ buf' = << >> /\ readLen' = 0

\* HTTPCLIENT_ERROR_CONN of httpclient_recv: SO_RCVTIMEO, or a connection that is reset.
Fails(block) == setup.cut /\ Return("CONN", block) /\ UNCHANGED net

\* The beginning of httpclient_retrieve_content: the rest the last call has kept
\* takes the place of what was just read.
Enter(d) ==
    /\ data' = IF remain # << >> THEN remain ELSE d
    /\ remain' = << >>

\* httpclient_recv_response of a new response: d is what of the body comes with its headers.
FirstCall ==
    /\ pc = "idle" /\ result = "none" /\ req > 0
    /\ pc' = IF mode = "close" THEN "close" ELSE "loop"
    /\ \E n \in 0 .. Smaller(ChunkSize - 1, Len(net)) : Enter(Take(n)) /\ net' = Drop(net, n)
    /\ retrieve' = IF mode = "length" THEN Len(body) ELSE 0
    /\ more' = TRUE
    /\ UNCHANGED <<body, mode, buf, readLen, result, got, req>>

\* httpclient_recv_response while is_more.
NextCall ==
    /\ pc = "idle" /\ result = "MORE"
    /\ pc' = IF mode = "close" THEN "close" ELSE "loop"
    /\ Enter(<< >>)
    /\ more' = TRUE
    /\ UNCHANGED <<net, body, mode, buf, readLen, retrieve, result, got, req>>
-----------------------------------------------------------------------------
\* Neither a length nor chunks: one turn of the loop that reads until the close.
UntilClose ==
    /\ pc = "close"
    /\ IF Len(data) < Room
       THEN LET b == buf \o data
                max == Smaller(ChunkSize - 1, BufLen - 1 - Len(b))
            IN  \/ \E n \in Received(1, max) :
                    /\ data' = Take(n) /\ net' = Drop(net, n) /\ buf' = b
                    /\ UNCHANGED <<pc, readLen, more, result, got>>
                \/ /\ \/ Received(1, max) = {} /\ Return("CLOSED", b) /\ UNCHANGED net
                      \/ Fails(b)
                   /\ more' = FALSE
       ELSE Return("MORE", buf \o SubSeq(data, 1, Room)) /\ UNCHANGED <<net, more>>
    /\ UNCHANGED <<body, mode, retrieve, remain, req>>

\* The next chunk, or the rest of the body.
Loop ==
    /\ pc = "loop"
    /\ IF mode = "chunked" /\ retrieve <= 0 THEN pc' = "header" /\ UNCHANGED readLen
       ELSE pc' = "copy" /\ readLen' = retrieve
    /\ UNCHANGED <<net, body, mode, data, buf, retrieve, more, remain, result, got, req>>

\* Mutant: the search for CR LF ends too early.
CrLfsShort == {p \in 1 .. Len(data) - 4 : data[p] = CR /\ data[p + 1] = LF}

\* Where a CR LF begins that has another byte behind it (crlf_pos < len - 2).
CrLfs == {p \in 1 .. Len(data) - 2 : data[p] = CR /\ data[p + 1] = LF}

\* The chunk header is there.
Header ==
    /\ pc = "header" /\ CrLfs # {}
    /\ LET p == Min(CrLfs) IN
        IF data[1][1] = "size"
        THEN /\ retrieve' = data[1][2]
             /\ IF data[1] = Digit(0) THEN Return("OK", buf) /\ more' = FALSE
                ELSE /\ pc' = "copy" /\ readLen' = retrieve' /\ data' = Drop(data, p + 1)
                     /\ UNCHANGED <<buf, more, result, got>>
        ELSE Return("PRTCL", << >>) /\ UNCHANGED <<retrieve, more>>
    /\ UNCHANGED <<net, body, mode, remain, req>>

\* How much more may be read into data.
DataRoom == Smaller(ChunkSize - Len(data) - 1, Room)

\* Or it has to be read first; a server that has closed gives 0 bytes and no error.
ReadHeader ==
    /\ pc = "header" /\ CrLfs = {}
    /\ IF Len(data) < DataRoom
       THEN \/ \E n \in Received(0, DataRoom) :
                 /\ data' = data \o Take(n) /\ net' = Drop(net, n)
                 /\ UNCHANGED <<pc, buf, readLen, result, got>>
            \/ Fails(<< >>)
       ELSE Return("ERROR", << >>) /\ UNCHANGED net
    /\ UNCHANGED <<body, mode, retrieve, more, remain, req>>

\* Mutant: data that ends with the chunk is not taken out of data.
CopyRestKeeps(s) ==
    IF Len(data) = readLen
    THEN /\ buf' = s /\ pc' = "after" /\ readLen' = 0 /\ retrieve' = 0
         /\ UNCHANGED <<net, data, result, got>>
    ELSE IF Len(data) >= readLen
    THEN /\ data' = Drop(data, readLen) /\ buf' = s
         /\ pc' = "after" /\ readLen' = 0 /\ retrieve' = 0
         /\ UNCHANGED <<net, result, got>>
    ELSE LET left == readLen - Len(data)
             max == Smaller(Smaller(ChunkSize - 1, BufLen - 1 - Len(s)), left)
         IN  /\ retrieve' = retrieve - Len(data)
             /\ \/ \E n \in Received(1, max) :
                    /\ data' = Take(n) /\ net' = Drop(net, n) /\ buf' = s /\ readLen' = left
                    /\ UNCHANGED <<pc, result, got>>
                \/ Received(1, max) = {} /\ Return("CLOSED", << >>) /\ UNCHANGED net
                \/ Fails(<< >>)

\* What is left of data behind the bytes that were copied, and the next read of the
\* do loop; s is what the buffer holds by then.
CopyRest(s) ==
    IF Len(data) >= readLen
    THEN /\ data' = Drop(data, readLen) /\ buf' = s
         /\ pc' = "after" /\ readLen' = 0 /\ retrieve' = 0
         /\ UNCHANGED <<net, result, got>>
    ELSE LET left == readLen - Len(data)
             max == Smaller(Smaller(ChunkSize - 1, BufLen - 1 - Len(s)), left)
         IN  /\ retrieve' = retrieve - Len(data)
             /\ \/ \E n \in Received(1, max) :
                    /\ data' = Take(n) /\ net' = Drop(net, n) /\ buf' = s /\ readLen' = left
                    /\ UNCHANGED <<pc, result, got>>
                \/ Received(1, max) = {} /\ Return("CLOSED", << >>) /\ UNCHANGED net
                \/ Fails(<< >>)

\* Mutant: only a chunk that goes on makes the call return when the buffer is full.
CopyTruncates ==
    /\ pc = "copy"
    /\ LET n == Smaller(Len(data), readLen) IN
        IF n < Room \/ readLen <= Len(data)
        THEN CopyRest(buf \o SubSeq(data, 1, Smaller(n, Room))) /\ UNCHANGED remain
        ELSE /\ remain' = SubSeq(data, Room + 1, n)
             /\ retrieve' = retrieve - Room
             /\ Return("MORE", buf \o SubSeq(data, 1, Room))
             /\ UNCHANGED net
    /\ UNCHANGED <<body, mode, more, req>>

\* One turn of the do loop that copies to response_buf.  When the buffer is full, and
\* not just at the end of the chunk, the rest of the chunk is kept for the next call;
\* what is behind the chunk in data is not.
Copy ==
    /\ pc = "copy"
    /\ LET n == Smaller(Len(data), readLen) IN
        IF n < Room \/ (n = Room /\ readLen <= Len(data))
        THEN CopyRest(buf \o SubSeq(data, 1, n)) /\ UNCHANGED remain
        ELSE /\ remain' = SubSeq(data, Room + 1, n)
             /\ retrieve' = retrieve - Room
             /\ Return("MORE", buf \o SubSeq(data, 1, Room))
             /\ UNCHANGED net
    /\ UNCHANGED <<body, mode, more, req>>

\* The end of a body with a length, or the CR LF behind a chunk.
After ==
    /\ pc = "after"
    /\ \/ mode # "chunked" /\ Return("OK", buf) /\ more' = FALSE /\ UNCHANGED net
       \/ /\ mode = "chunked"
          /\ LET ns == IF Len(data) < 2 THEN Received(2 - Len(data), DataRoom) ELSE {0}
             IN  \/ ns = {} /\ Return("CLOSED", << >>) /\ UNCHANGED net
                 \/ Len(data) < 2 /\ DataRoom > 0 /\ Fails(<< >>)
                 \/ \E n \in ns :
                     /\ net' = Drop(net, n)
                     /\ LET d == data \o Take(n) IN
                         IF Len(d) >= 2 /\ d[1] = CR /\ d[2] = LF
                         THEN /\ pc' = "loop" /\ data' = Drop(d, 2)
                              /\ UNCHANGED <<buf, readLen, result, got>>
                         ELSE Return("PRTCL", << >>)
          /\ UNCHANGED more
    /\ UNCHANGED <<body, mode, retrieve, remain, req>>

Retrieve == UntilClose \/ Loop \/ Header \/ ReadHeader \/ Copy \/ After

HttpNext == (Request \/ FirstCall \/ NextCall \/ Retrieve) /\ UNCHANGED setup

HttpSpec == HttpInit /\ [][HttpNext]_vars

\* The call runs; a blocking recv ends with data, the close or SO_RCVTIMEO.  Nothing
\* promises that a connection fails.
FairHttpSpec == HttpSpec /\ WF_exchange(Retrieve /\ result' # "CONN")
-----------------------------------------------------------------------------
\* HTTPCLIENT_OK, "The operation was successful": the blocks the caller was given are
\* the body of this response, whole and in order; a response that ends with the
\* connection is whole when HTTPCLIENT_CLOSED is returned.
OkMeansWhole ==
    pc = "idle" /\ (result = "OK" \/ (result = "CLOSED" /\ mode = "close")) => got = body

\* Whatever the pieces it is received in, a complete response is delivered by the first
\* call if response_buf has room for it and, with chunks, for four bytes more: the room
\* for the body also limits what is read of the headers (lines 604, 698).
CompleteIsOk ==
    pc = "idle" /\ ~setup.cut /\ Len(body) + (IF mode = "chunked" THEN 4 ELSE 1) < BufLen =>
        result \in {"none", "OK"} \/ mode = "close"

\* The server has closed in the header of a chunk, and there is room to read more of it.
StoppedInHeader ==
    setup.cut /\ pc = "header" /\ CrLfs = {} /\ net = << >> /\ Len(data) < DataRoom

\* A call returns, whatever the server sends before it stops and wherever it stops, except
\* in the header of a chunk: the loop of lines 590-619 goes on when recv returns 0.
CallReturns == pc # "idle" ~> (pc = "idle" \/ StoppedInHeader)

\* "It blocks until completion" (httpclient.h), without that exception.  The code does
\* not keep it.
CallCompletes == pc # "idle" ~> pc = "idle"
=============================================================================
