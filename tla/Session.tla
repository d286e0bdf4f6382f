------------------------------ MODULE Session ------------------------------
(***************************************************************************)
(* One client connection: the fiber session() of src/server/main.cpp on    *)
(* the awaitables of src/net/async_socket.cpp.  The client sends request   *)
(* frames of docs/wire_protocol.md one after the other; TCP delivers the   *)
(* bytes in order but in pieces of any size, and the client may close or   *)
(* reset the connection at any byte.                                       *)
(*                                                                         *)
(* A byte is its position in the stream: byte p is byte p % FrameBytes of  *)
(* frame p \div FrameBytes.  A length field read from the right bytes has  *)
(* the value the client wrote; one read from other bytes can be anything.  *)
(***************************************************************************)
EXTENDS Integers

CONSTANTS IdBytes,       \* model_id_len of the client's requests
          CountBytes,    \* sizeof(input_elems), 4 in the code
          ElemBytes,     \* sizeof(float), 4 in the code
          Elems,         \* input_elems of the client's requests
          MaxElems,      \* MAX_ELEMS
          Frames,        \* bound: how many requests the client sends
          Lengths        \* values a misplaced length field can have

ASSUME SessionAssumption ==
    /\ {IdBytes, CountBytes, ElemBytes, Elems, MaxElems, Frames} \subseteq Nat \ {0}
    /\ Elems <= MaxElems
    /\ Lengths \subseteq Nat

FrameBytes == 1 + IdBytes + CountBytes + Elems * ElemBytes

VARIABLES delivered,  \* bytes that have arrived in the socket's buffer, ever
          pos,        \* bytes the session has received, ever
          peer,       \* the client's end: "open", "closed" or "reset"
          g_running,  \* cleared by the signal handler
          reactor,    \* its loop: "running", "stopping" (stop() called) or "ended"
          phase,      \* the co_await the session is suspended in, or "ended"
          want,       \* bytes the current read asks for
          elems,      \* input_elems
          bytes_read, \* of the payload
          short,      \* history: a header field was read in part only
          served      \* history: requests given to the runtime

sessionVars == <<delivered, pos, peer, g_running, reactor, phase, want, elems,
                 bytes_read, short, served>>
input == <<delivered, peer, g_running, reactor>>
session == <<pos, phase, want, elems, bytes_read, short, served>>

Reads == {"len", "id", "count", "payload"}
Writes == {"status", "latency", "out_elems", "output"}

SessionTypeOK ==
    /\ delivered \in 0 .. Frames * FrameBytes
    /\ pos \in 0 .. delivered
    /\ peer \in {"open", "closed", "reset"}
    /\ g_running \in BOOLEAN
    /\ reactor \in {"running", "stopping", "ended"}
    /\ phase \in Reads \cup Writes \cup {"infer", "ended"}
    /\ want \in Nat
    /\ elems \in 0 .. MaxElems
    /\ bytes_read \in 0 .. MaxElems * ElemBytes
    /\ short \in BOOLEAN
    /\ served \in Nat

SessionInit ==
    /\ delivered = 0 /\ pos = 0
    /\ peer = "open"
    /\ g_running = TRUE
    /\ reactor = "running"
    /\ phase = "len" /\ want = 1
    /\ elems = 0 /\ bytes_read = 0
    /\ short = FALSE
    /\ served = 0

----------------------------------------------------------------------------
(* The network, the operator and the reactor's loop *)

Deliver ==
    /\ peer = "open"
    /\ \E k \in 1 .. Frames * FrameBytes - delivered : delivered' = delivered + k
    /\ UNCHANGED <<peer, g_running, reactor, session>>

Disconnect ==
    /\ peer = "open"
    /\ peer' \in {"closed", "reset"}
    /\ UNCHANGED <<delivered, g_running, reactor, session>>

\* SIGINT or SIGTERM.  Reactor::current() is thread-local: r->stop() is called only
\* when the signal is delivered on the reactor's own thread.
SignalHandler ==
    /\ reactor = "running"
    /\ g_running' = FALSE
    /\ reactor' \in {"running", "stopping"}
    /\ UNCHANGED <<delivered, peer, session>>

\* run() returns at its next test of running_, after the round it is in, and main's
\* while (g_running) with it: from then on nobody resumes a session.
ReactorReturns ==
    /\ reactor = "stopping"
    /\ reactor' = "ended"
    /\ UNCHANGED <<delivered, peer, g_running, session>>

----------------------------------------------------------------------------
(* AsyncReadAwaitable: resumed when epoll reports EPOLLIN *)

Readable == delivered > pos \/ peer # "open"

\* What await_resume returns: recv until the buffer is full, EAGAIN or the end of the
\* stream; -1 when the connection has been reset.
Received == IF peer = "reset" THEN -1
            ELSE IF want < delivered - pos THEN want ELSE delivered - pos

ReadFailedOnError(n) == n < 0   \* mutant: the end of the stream is not tested

\* n <= 0: the session ends.
ReadFailed(n) == n <= 0

End == /\ phase' = "ended"
       /\ UNCHANGED <<want, elems, bytes_read, served>>

\* The next co_await: a read of k bytes.
AwaitRead(p, k) == phase' = p /\ want' = k

\* A header field starting at offset at, of which n bytes were received, is intact.
Intact(at, n) == pos % FrameBytes = at /\ n = want

\* The values a field may have.
FieldValue(at, n, value) == IF Intact(at, n) THEN {value} ELSE Lengths

ReadLen ==
    /\ phase = "len"
    /\ Readable
    /\ IF ReadFailed(Received) THEN End /\ UNCHANGED pos
       ELSE /\ pos' = pos + Received
            /\ \E k \in FieldValue(0, Received, IdBytes) : AwaitRead("id", k)
            /\ UNCHANGED <<elems, bytes_read, served>>
    /\ UNCHANGED <<input, short>>

\* A model_id_len of 0 reads nothing and ends the session.
ReadId ==
    /\ phase = "id"
    /\ Readable
    /\ IF ReadFailed(Received) THEN End /\ UNCHANGED <<pos, short>>
       ELSE /\ pos' = pos + Received
            /\ short' = (short \/ Received < want)
            /\ AwaitRead("count", CountBytes)
            /\ UNCHANGED <<elems, bytes_read, served>>
    /\ UNCHANGED input

\* After the header: the payload, or the inference if there is none to read; too many
\* elements throw.
AfterCount(k) ==
    \/ k > MaxElems /\ End
    \/ /\ k \in 1 .. MaxElems
       /\ elems' = k
       /\ bytes_read' = 0
       /\ AwaitRead("payload", k * ElemBytes)
       /\ UNCHANGED served
    \/ /\ k = 0
       /\ elems' = 0
       /\ bytes_read' = 0
       /\ AwaitRead("infer", 0)
       /\ served' = served + 1

ReadCount ==
    /\ phase = "count"
    /\ Readable
    /\ IF ReadFailed(Received) THEN End /\ UNCHANGED <<pos, short>>
       ELSE /\ pos' = pos + Received
            /\ short' = (short \/ Received < want)
            /\ \E k \in FieldValue(1 + IdBytes, Received, Elems) : AfterCount(k)
    /\ UNCHANGED input

bytes_to_read == elems * ElemBytes

PayloadIncompleteNever(n) == FALSE   \* mutant: one read, no loop
PayloadIncomplete(n) == n < bytes_to_read

PayloadWant(n) == bytes_to_read - n

\* The payload is read in a loop, however it is cut up.
ReadPayload ==
    /\ phase = "payload"
    /\ Readable
    /\ IF ReadFailed(Received) THEN End /\ UNCHANGED pos
       ELSE LET n == bytes_read + Received IN
            /\ pos' = pos + Received
            /\ bytes_read' = n
            /\ IF PayloadIncomplete(n)
               THEN AwaitRead("payload", PayloadWant(n)) /\ UNCHANGED served
               ELSE AwaitRead("infer", 0) /\ served' = served + 1
            /\ UNCHANGED elems
    /\ UNCHANGED <<input, short>>

----------------------------------------------------------------------------
(* The response.  What the sends return is logged and not looked at. *)

\* co_await infer_future(...): resumed by the reactor.
Infer ==
    /\ phase = "infer"
    /\ phase' = "status"
    /\ UNCHANGED <<input, pos, want, elems, bytes_read, short, served>>

WriteNext(from, to) ==
    /\ phase = from
    /\ phase' = to
    /\ UNCHANGED <<input, pos, want, elems, bytes_read, short, served>>

\* while (g_running): the next request, or the end.
NextRequest(from) ==
    /\ phase = from
    /\ \/ g_running /\ AwaitRead("len", 1)
       \/ ~g_running /\ phase' = "ended" /\ UNCHANGED want
    /\ UNCHANGED <<input, pos, elems, bytes_read, short, served>>

WriteStatus == WriteNext("status", "latency")
WriteLatency == WriteNext("latency", "out_elems")

\* An output payload follows only when the inference succeeded.
WriteOutElems == WriteNext("out_elems", "output") \/ NextRequest("out_elems")
WriteOutput == NextRequest("output")

Read == ReadLen \/ ReadId \/ ReadCount \/ ReadPayload
Write == WriteStatus \/ WriteLatency \/ WriteOutElems \/ WriteOutput

\* The reactor's loop resumes the session.
Step == reactor # "ended" /\ (Read \/ Infer \/ Write)

SessionNext == Deliver \/ Disconnect \/ SignalHandler \/ ReactorReturns \/ Step

SessionSpec == SessionInit /\ [][SessionNext]_sessionVars

(* As long as its loop runs the reactor resumes a session whose socket is    *)
(* readable, or writable because its client has gone; a loop that was asked  *)
(* to stop ends.  Nothing makes the client send, read or close, makes the    *)
(* inference be answered, or makes a signal come.                            *)
Resumed == reactor # "ended" /\ (Read \/ (peer # "open" /\ Write))

SessionFairness == WF_sessionVars(Resumed) /\ WF_sessionVars(ReactorReturns)
----------------------------------------------------------------------------
(* Properties *)

(* docs/wire_protocol.md: the server cuts the stream into the client's        *)
(* frames.  Whenever it turns to the next request it has consumed exactly     *)
(* the frames of the requests before it.                                      *)
Framed == phase = "len" => pos = served * FrameBytes

(* The payload may arrive in any pieces; as long as the header fields arrive  *)
(* whole, the requests are the client's frames.                               *)
FramedUnlessHeaderSplit == ~short => Framed

(* A session does not outlive its client: when the client has gone the        *)
(* session ends, at whatever byte of a request or a response it is, unless    *)
(* the server is shut down before or the inference it waits for is never      *)
(* answered.  (A client that has gone stays away, so what holds again and     *)
(* again of it is what its leaving leads to.)                                 *)
EndsWithClient ==
    \/ []<>(peer # "open" => phase = "ended" \/ reactor = "ended")
    \/ <>[](phase = "infer")
=============================================================================
