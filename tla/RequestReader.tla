---- MODULE RequestReader ----
(***************************************************************************)
(* How a connection takes its request in (srv_recv_cb,                     *)
(* parse_and_dispatch): TCP cuts the request into segments as it likes,    *)
(* the headers are gathered in a buffer of fixed size, and body bytes that *)
(* came with them go by offset to wherever the bodies of the route go: the *)
(* file of an upload, the staging buffer of adv/load, the small buffer of  *)
(* the other routes.  HttpTransfers and AdvLoad begin where a body begins. *)
(*                                                                         *)
(* A byte is its place in the stream of the connection, from 1.  The one   *)
(* request is a well-formed one, its route accepts it, and whatever the    *)
(* client sends after it is ignored.                                       *)
(***************************************************************************)
EXTENDS Integers, Sequences

CONSTANTS
    HeaderBuf,      \* HTTP_HEADER_BUF_BYTES
    BodyBuf,        \* HTTP_REQUEST_BODY_BUF_BYTES
    MaxHeader,      \* bound: longest headers, their empty line included
    MaxBody         \* bound: longest body

ASSUME ReaderAssumption ==
    /\ HeaderBuf \in Nat \ {0} /\ BodyBuf \in Nat
    /\ MaxHeader \in Nat \ {0} /\ MaxBody \in Nat

VARIABLES
    request,        \* what the client sends
    pos,            \* bytes of the stream that have arrived
    hdr_len, reading,
    body            \* the bytes handed on, in order

readerVars == <<request, pos, hdr_len, reading, body>>

\* a body is asked for in full, save by adv/load with a `size` of its own
Requests_ == {r \in [route : {"upload", "load", "other", "bodiless"},
                     header : 1..MaxHeader, content_length : 0..MaxBody,
                     wanted : 0..MaxBody, extra : 0..1] :
                 CASE r.route = "bodiless" -> r.wanted = 0
                   [] r.route = "load" -> r.wanted \in 1..r.content_length
                   [] OTHER -> r.wanted = r.content_length}

\* "response" has the answer of the route; the others refuse or fail
States_ == {"headers", "body", "response", "too_large_headers", "too_large_body",
            "failed", "closed"}

ReaderTypeOK ==
    /\ request \in Requests_
    /\ pos \in 0..(MaxHeader + MaxBody + 1)
    /\ hdr_len \in 0..(HeaderBuf - 1)
    /\ reading \in States_
    /\ body \in Seq(Nat) /\ Len(body) <= MaxBody

ReaderInit ==
    /\ request \in Requests_
    /\ pos = 0 /\ hdr_len = 0 /\ reading = "headers" /\ body = <<>>

Least(a, b) == IF a < b THEN a ELSE b

End == request.header + request.content_length + request.extra

\* n bytes of the segment that begins after `pos`, from an offset in it
Taken(off, n) == body \o [i \in 1..n |-> pos + off + i]

\* the whole body is there: route, upload_finish_ok or adv_load_finish_ok
AfterBody(got) == IF got >= request.wanted THEN "response" ELSE "body"

\* Mutant: the offset of the body is not taken from where the segment begins.
Dispatch_OffsetInHeaders(len) ==
    IF request.route = "other" /\ request.content_length > BodyBuf
    THEN reading' = "too_large_body" /\ UNCHANGED body
    ELSE LET off == Least(request.header, len)
             n   == Least(len - off, request.wanted)
         IN  \/ body' = Taken(off, n) /\ reading' = AfterBody(n)
             \/ request.route \in {"upload", "load"} /\ n > 0
                /\ \E m \in 0..n : body' = Taken(off, m) /\ reading' = "failed"

\* parse_and_dispatch of a segment of `len` bytes in which the headers end: a
\* write to the card or a chunk of the load may fail on the way
Dispatch_(len) ==
    IF request.route = "other" /\ request.content_length > BodyBuf
    THEN reading' = "too_large_body" /\ UNCHANGED body
    ELSE LET off == request.header - hdr_len
             n   == Least(len - off, request.wanted)
         IN  \/ body' = Taken(off, n) /\ reading' = AfterBody(n)
             \/ request.route \in {"upload", "load"} /\ n > 0
                /\ \E m \in 0..n : body' = Taken(off, m) /\ reading' = "failed"

\* srv_recv_cb in HC_READ_HEADERS
ReceiveHeaders(len) ==
    LET have == hdr_len + Least(len, HeaderBuf - 1 - hdr_len) IN
    /\ reading = "headers"
    /\ hdr_len' = have
    /\ \/ have >= request.header /\ Dispatch_(len)
       \/ /\ have < request.header
          /\ reading' = IF have = HeaderBuf - 1 THEN "too_large_headers" ELSE "headers"
          /\ UNCHANGED body

\* srv_recv_cb in HC_READ_BODY, HC_STREAM_UPLOAD and HC_STREAM_LOAD
ReceiveBody(len) ==
    LET n == Least(len, request.wanted - Len(body)) IN
    /\ reading = "body"
    /\ \/ body' = Taken(0, n) /\ reading' = AfterBody(Len(body) + n)
       \/ request.route # "other"
          /\ \E m \in 0..n : body' = Taken(0, m) /\ reading' = "failed"
    /\ UNCHANGED hdr_len

\* an answer is on its way: the bytes are dropped
Ignore == reading \notin {"headers", "body", "closed"} /\ UNCHANGED <<hdr_len, reading, body>>

Segment ==
    \E len \in 1..(End - pos) :
        /\ pos' = pos + len
        /\ ReceiveHeaders(len) \/ ReceiveBody(len) \/ Ignore
        /\ UNCHANGED request

\* the client closes: conn_close
ReaderCloses ==
    /\ reading \in {"headers", "body"} /\ reading' = "closed"
    /\ UNCHANGED <<request, pos, hdr_len, body>>

ReaderNext == Segment \/ ReaderCloses

ReaderSpec == ReaderInit /\ [][ReaderNext]_readerVars

----------------------------------------------------------------------------
\* However TCP cuts the request, the route gets exactly the bytes of its body,
\* in order and none of the headers or of what follows; it answers when and
\* only when the last one is there; and a request is refused for its size only
\* when its headers or its body do not fit (srv_recv_cb, parse_and_dispatch).
BodyIsExact ==
    /\ Len(body) <= request.wanted
    /\ \A i \in DOMAIN body : body[i] = request.header + i
    /\ reading = "response" => Len(body) = request.wanted
    /\ reading = "too_large_headers" => request.header >= HeaderBuf
    /\ reading = "too_large_body" => request.route = "other" /\ request.content_length > BodyBuf
    /\ pos >= request.header + request.content_length => reading \notin {"headers", "body"}
====
