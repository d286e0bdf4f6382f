--------------------------- MODULE SessionProofs ---------------------------
(***************************************************************************)
(* Proofs about Session for frames of any size, any number of frames and   *)
(* any way in which the stream is cut into pieces.                         *)
(***************************************************************************)
EXTENDS Session, TLAPS

(* Every field of a frame has at least one byte. *)
LEMMA Sizes ==
  /\ IdBytes \in Nat \ {0} /\ CountBytes \in Nat \ {0} /\ Elems * ElemBytes \in Nat \ {0}
  /\ FrameBytes \in Nat \ {0} /\ FrameBytes = 1 + IdBytes + CountBytes + Elems * ElemBytes
  /\ Frames * FrameBytes \in Nat
<1>1. /\ IdBytes \in Nat \ {0} /\ CountBytes \in Nat \ {0} /\ Elems \in Nat \ {0}
      /\ ElemBytes \in Nat \ {0} /\ Frames \in Nat
  BY SessionAssumption
<1>2. \A a, b \in Nat \ {0} : a * b \in Nat \ {0}
  OBVIOUS
<1>3. Elems * ElemBytes \in Nat \ {0}
  BY <1>1, <1>2
<1>4. FrameBytes \in Nat \ {0}
  BY <1>1, <1>3 DEF FrameBytes
<1> QED BY <1>1, <1>3, <1>4 DEF FrameBytes

(* The offset of a byte in its frame. *)
LEMMA Offset ==
  ASSUME NEW n \in Nat, NEW k \in 0 .. FrameBytes - 1
  PROVE  (n * FrameBytes + k) % FrameBytes = k
<1> DEFINE F == FrameBytes
           q == (n * F + k) \div F
           r == (n * F + k) % F
<1>0. F \in Nat \ {0}
  BY Sizes
<1>1. n * F + k \in Nat
  BY <1>0
<1>2. q \in Int /\ r \in 0 .. F - 1 /\ n * F + k = F * q + r
  BY <1>0, <1>1
<1> HIDE DEF F, q, r
<1>3. k - r = F * (q - n)
  BY <1>0, <1>2
<1>4. k \in 0 .. F - 1
  BY DEF F
<1>5. q - n < 1 /\ q - n > -1
  BY <1>0, <1>2, <1>3, <1>4
<1>6. k = r
  BY <1>0, <1>2, <1>3, <1>4, <1>5
<1> QED BY <1>6 DEF F, r

----------------------------------------------------------------------------
(* The inductive invariant: where in the current frame each co_await is.    *)

\* The payload loop asks for what is missing.
PayloadInv == phase = "payload" =>
    /\ elems > 0 /\ bytes_read < bytes_to_read
    /\ want = bytes_to_read - bytes_read

\* Bytes of the current frame that the session has consumed, and what it asks for next.
Consumed == pos - served * FrameBytes

Aligned ==
    /\ phase = "len" => Consumed = 0 /\ want = 1
    /\ phase = "id" => Consumed = 1 /\ want = IdBytes
    /\ phase = "count" => Consumed = 1 + IdBytes /\ want = CountBytes
    /\ phase = "payload" => Consumed = 1 + IdBytes + CountBytes + bytes_read /\ elems = Elems
    /\ phase \in Writes \cup {"infer"} => Consumed = 0

IndInv == SessionTypeOK /\ PayloadInv /\ (~short => Aligned)

(* A session that begins has consumed nothing. *)
LEMMA InitInv == SessionInit => IndInv
<1> SUFFICES ASSUME SessionInit PROVE IndInv
  OBVIOUS
<1>1. MaxElems \in Nat /\ MaxElems * ElemBytes \in Nat
  BY SessionAssumption
<1>2. SessionTypeOK
  <2>1. delivered \in 0 .. Frames * FrameBytes
    BY Sizes DEF SessionInit
  <2>2. elems \in 0 .. MaxElems /\ bytes_read \in 0 .. MaxElems * ElemBytes
    BY <1>1 DEF SessionInit
  <2>3. pos \in 0 .. delivered /\ want \in Nat /\ served \in Nat
    BY DEF SessionInit
  <2>4. /\ peer \in {"open", "closed", "reset"} /\ g_running \in BOOLEAN /\ short \in BOOLEAN
        /\ phase \in Reads /\ reactor \in {"running", "stopping", "ended"}
    BY DEF SessionInit, Reads
  <2> QED BY <2>1, <2>2, <2>3, <2>4 DEF SessionTypeOK
<1>3. Consumed = 0
  BY Sizes DEF SessionInit, Consumed
<1> QED BY <1>2, <1>3 DEF SessionInit, IndInv, PayloadInv, Aligned, Writes

(* What a successful read returns: at least a byte, no more than asked for   *)
(* and no more than has arrived.                                            *)
LEMMA ReceivedBounds ==
  ASSUME SessionTypeOK, ~ReadFailed(Received)
  PROVE  /\ Received \in Nat \ {0} /\ Received <= want
         /\ pos + Received \in 0 .. delivered
  BY Sizes DEF SessionTypeOK, ReadFailed, Received

(* A session that ends says nothing about frames any more.                   *)
LEMMA EndStep ==
  ASSUME IndInv, End, UNCHANGED <<input, pos, short>>
  PROVE  IndInv'
  BY DEF IndInv, SessionTypeOK, End, input, PayloadInv, Aligned, Reads, Writes

(* The network and the signal move bytes and ends, not the session.          *)
LEMMA EnvironmentStep ==
  ASSUME IndInv, Deliver \/ Disconnect \/ SignalHandler \/ ReactorReturns
  PROVE  IndInv'
<1>1. UNCHANGED <<pos, phase, want, elems, bytes_read, short, served>>
  BY DEF Deliver, Disconnect, SignalHandler, ReactorReturns, session
<1>2. SessionTypeOK'
  <2> DEFINE Sent == Frames * FrameBytes
  <2>1. Sent \in Nat /\ delivered \in 0 .. Sent /\ pos \in 0 .. delivered
    BY Sizes DEF IndInv, SessionTypeOK
  <2>2. delivered' \in 0 .. Sent /\ delivered <= delivered'
    <3>1. CASE Deliver
      <4>1. PICK k \in 1 .. Sent - delivered : delivered' = delivered + k
        BY <3>1 DEF Deliver
      <4> HIDE DEF Sent
      <4> QED BY <2>1, <4>1
    <3>2. CASE Disconnect \/ SignalHandler \/ ReactorReturns
      BY <2>1, <3>2 DEF Disconnect, SignalHandler, ReactorReturns
    <3> QED BY <3>1, <3>2
  <2>3. pos' \in 0 .. delivered'
    <3> HIDE DEF Sent
    <3> QED BY <1>1, <2>1, <2>2
  <2> QED BY <1>1, <2>2, <2>3 DEF IndInv, SessionTypeOK, Deliver, Disconnect, SignalHandler,
                                          ReactorReturns
<1>3. PayloadInv' /\ (~short => Aligned)'
  BY <1>1 DEF IndInv, PayloadInv, Aligned, Consumed, bytes_to_read
<1> QED BY <1>2, <1>3 DEF IndInv

(* The length of the model id is intact if the frame starts here.           *)
LEMMA LenStep ==
  ASSUME IndInv, ReadLen
  PROVE  IndInv'
<1> USE DEF IndInv
<1>1. CASE ReadFailed(Received)
  BY <1>1, EndStep DEF ReadLen
<1>2. CASE ~ReadFailed(Received)
  <2>1. PICK k \in FieldValue(0, Received, IdBytes) : phase' = "id" /\ want' = k
    BY <1>2 DEF ReadLen, AwaitRead
  <2>2. /\ phase = "len" /\ pos' = pos + Received
        /\ UNCHANGED <<delivered, peer, g_running, reactor, elems, bytes_read, served, short>>
    BY <1>2 DEF ReadLen, input
  <2>3. k \in Nat
    BY Sizes, SessionAssumption DEF FieldValue
  <2>4. SessionTypeOK'
    BY <1>2, <2>1, <2>2, <2>3, ReceivedBounds DEF SessionTypeOK, Reads
  <2>5. ASSUME ~short PROVE Aligned'
    <3>1. pos = served * FrameBytes /\ want = 1 /\ pos \in Nat /\ served \in Nat
      BY <2>2, <2>5, Sizes DEF Aligned, Consumed, SessionTypeOK
    <3>2. Received = 1
      BY <1>2, <3>1, ReceivedBounds
    <3>3. pos % FrameBytes = 0
      <4>1. (served * FrameBytes + 0) % FrameBytes = 0
        BY <3>1, Offset, Sizes
      <4> QED BY <3>1, <4>1
    <3>4. k = IdBytes
      BY <3>1, <3>2, <3>3 DEF FieldValue, Intact
    <3> QED BY <2>1, <2>2, <3>1, <3>2, <3>4, Sizes DEF Aligned, Consumed, Writes
  <2> QED BY <2>1, <2>2, <2>4, <2>5 DEF PayloadInv
<1> QED BY <1>1, <1>2

(* A model id that arrives whole leaves the session at the element count.   *)
LEMMA IdStep ==
  ASSUME IndInv, ReadId
  PROVE  IndInv'
<1> USE DEF IndInv
<1>1. CASE ReadFailed(Received)
  BY <1>1, EndStep DEF ReadId
<1>2. CASE ~ReadFailed(Received)
  <2>1. /\ phase = "id" /\ phase' = "count" /\ want' = CountBytes /\ pos' = pos + Received
        /\ short' = (short \/ Received < want)
        /\ UNCHANGED <<delivered, peer, g_running, reactor, elems, bytes_read, served>>
    BY <1>2 DEF ReadId, input, AwaitRead
  <2>2. SessionTypeOK'
    BY <1>2, <2>1, ReceivedBounds, Sizes DEF SessionTypeOK, Reads
  <2>3. ASSUME ~short' PROVE Aligned'
    <3>1. ~short /\ Received = want
      <4>1. ~short /\ ~(Received < want)
        BY <2>1, <2>3
      <4> QED BY <1>2, <4>1, ReceivedBounds DEF SessionTypeOK
    <3>2. pos = served * FrameBytes + 1 /\ want = IdBytes /\ served * FrameBytes \in Nat
      BY <2>1, <3>1, Sizes DEF Aligned, Consumed, SessionTypeOK
    <3> QED BY <2>1, <3>1, <3>2, Sizes DEF Aligned, Consumed, Writes
  <2> QED BY <2>1, <2>2, <2>3 DEF PayloadInv
<1> QED BY <1>1, <1>2

(* The element count decides how many bytes of payload follow.              *)
LEMMA CountStep ==
  ASSUME IndInv, ReadCount
  PROVE  IndInv'
<1> USE DEF IndInv
<1>1. CASE ReadFailed(Received)
  BY <1>1, EndStep DEF ReadCount
<1>2. CASE ~ReadFailed(Received)
  <2>1. PICK k \in FieldValue(1 + IdBytes, Received, Elems) : AfterCount(k)
    BY <1>2 DEF ReadCount
  <2>2. /\ phase = "count" /\ pos' = pos + Received /\ short' = (short \/ Received < want)
        /\ UNCHANGED <<delivered, peer, g_running, reactor>>
    BY <1>2 DEF ReadCount, input
  <2>3. /\ k \in Nat /\ MaxElems \in Nat /\ ElemBytes \in Nat \ {0} /\ Elems \in 1 .. MaxElems
        /\ served \in Nat /\ MaxElems * ElemBytes \in Nat
    <3>1. MaxElems \in Nat /\ ElemBytes \in Nat \ {0} /\ Elems \in 1 .. MaxElems
      BY SessionAssumption
    <3>2. k \in Nat
      BY <3>1, SessionAssumption DEF FieldValue
    <3> QED BY <3>1, <3>2 DEF SessionTypeOK
  <2>4. /\ pos' \in 0 .. delivered
        /\ short' \in BOOLEAN
    BY <1>2, <2>2, ReceivedBounds DEF SessionTypeOK
  <2>5. ASSUME ~short' PROVE k = Elems /\ pos' = served * FrameBytes + 1 + IdBytes + CountBytes
    <3>1. ~short /\ Received = want
      <4>1. ~short /\ ~(Received < want)
        BY <2>2, <2>5
      <4> QED BY <1>2, <4>1, ReceivedBounds DEF SessionTypeOK
    <3>2. /\ pos = served * FrameBytes + (1 + IdBytes) /\ want = CountBytes
          /\ served * FrameBytes \in Nat
      BY <2>2, <3>1, Sizes DEF Aligned, Consumed, SessionTypeOK
    <3>3. pos % FrameBytes = 1 + IdBytes
      <4>1. 1 + IdBytes \in 0 .. FrameBytes - 1
        BY Sizes
      <4>2. (served * FrameBytes + (1 + IdBytes)) % FrameBytes = 1 + IdBytes
        BY <2>3, <4>1, Offset
      <4> QED BY <3>2, <4>2
    <3> QED BY <2>2, <3>1, <3>2, <3>3, Sizes DEF FieldValue, Intact
  <2>6. CASE k > MaxElems /\ End
    BY <2>2, <2>4, <2>6 DEF End, SessionTypeOK, PayloadInv, Aligned, Reads, Writes
  <2>7. CASE /\ k \in 1 .. MaxElems /\ elems' = k /\ bytes_read' = 0 /\ UNCHANGED served
             /\ phase' = "payload" /\ want' = k * ElemBytes
    <3>1. k * ElemBytes \in Nat \ {0}
      BY <2>3, <2>7
    <3>2. SessionTypeOK'
      BY <2>2, <2>3, <2>4, <2>7, <3>1 DEF SessionTypeOK, Reads
    <3>3. PayloadInv'
      BY <2>3, <2>7, <3>1 DEF PayloadInv, bytes_to_read
    <3>4. ~short' => Aligned'
      BY <2>3, <2>5, <2>7, Sizes DEF Aligned, Consumed, Writes
    <3> QED BY <3>2, <3>3, <3>4
  <2>8. CASE /\ k = 0 /\ elems' = 0 /\ bytes_read' = 0 /\ phase' = "infer" /\ want' = 0
             /\ served' = served + 1
    <3>1. SessionTypeOK'
      BY <2>2, <2>3, <2>4, <2>8 DEF SessionTypeOK
    <3>2. short'
      BY <2>3, <2>4, <2>5, <2>8
    <3> QED BY <2>8, <3>1, <3>2 DEF PayloadInv
  <2> QED BY <2>1, <2>6, <2>7, <2>8 DEF AfterCount, AwaitRead
<1> QED BY <1>1, <1>2

(* The payload loop: a piece more, or the end of the frame.                 *)
LEMMA PayloadStep ==
  ASSUME IndInv, ReadPayload
  PROVE  IndInv'
<1> USE DEF IndInv
<1>1. CASE ReadFailed(Received)
  BY <1>1, EndStep DEF ReadPayload
<1>2. CASE ~ReadFailed(Received)
  <2> DEFINE n == bytes_read + Received
  <2>1. /\ phase = "payload" /\ pos' = pos + Received /\ bytes_read' = n
        /\ IF n < bytes_to_read
           THEN phase' = "payload" /\ want' = bytes_to_read - n /\ served' = served
           ELSE phase' = "infer" /\ want' = 0 /\ served' = served + 1
        /\ UNCHANGED <<delivered, peer, g_running, reactor, short, elems>>
    BY <1>2 DEF ReadPayload, input, PayloadIncomplete, PayloadWant, AwaitRead
  <2>2. /\ Received \in Nat \ {0} /\ bytes_read \in Nat /\ served \in Nat /\ pos \in Nat
        /\ bytes_read + Received <= bytes_to_read /\ bytes_to_read \in Nat
    <3>1. elems \in 0 .. MaxElems /\ MaxElems \in Nat /\ ElemBytes \in Nat
      BY SessionAssumption DEF SessionTypeOK
    <3>2. elems * ElemBytes \in Nat
      BY <3>1
    <3> QED BY <1>2, <2>1, <3>2, ReceivedBounds DEF PayloadInv, SessionTypeOK, bytes_to_read
  <2>3. bytes_to_read <= MaxElems * ElemBytes
    <3>1. \A a, b, c \in Nat : a <= b => a * c <= b * c
      OBVIOUS
    <3> QED BY <3>1, SessionAssumption DEF SessionTypeOK, bytes_to_read
  <2>4. SessionTypeOK'
    <3>1. MaxElems * ElemBytes \in Nat
      BY SessionAssumption
    <3>2. pos' \in 0 .. delivered' /\ bytes_read' \in 0 .. MaxElems * ElemBytes
      BY <1>2, <2>1, <2>2, <2>3, <3>1, ReceivedBounds
    <3>3. want' \in Nat /\ served' \in Nat /\ phase' \in {"payload", "infer"}
      BY <2>1, <2>2
    <3> QED BY <2>1, <3>2, <3>3 DEF SessionTypeOK, Reads
  <2>5. PayloadInv'
    BY <2>1, <2>2 DEF PayloadInv, bytes_to_read
  <2>6. ASSUME ~short PROVE Aligned'
    <3>1. /\ pos = served * FrameBytes + 1 + IdBytes + CountBytes + bytes_read
          /\ bytes_to_read = Elems * ElemBytes /\ elems = Elems /\ served * FrameBytes \in Nat
      BY <2>1, <2>2, <2>6, Sizes, SMTT(40) DEF Aligned, Consumed, bytes_to_read
    <3>2. (served + 1) * FrameBytes = served * FrameBytes + FrameBytes
      BY <2>2, Sizes
    <3>3. CASE n < bytes_to_read
      BY <2>1, <2>2, <3>1, <3>3, Sizes DEF Aligned, Consumed, Writes
    <3>4. CASE ~(n < bytes_to_read)
      <4>1. n = Elems * ElemBytes
        BY <2>2, <3>1, <3>4
      <4>2. pos' = (served + 1) * FrameBytes
        BY <2>1, <2>2, <3>1, <3>2, <4>1, Sizes
      <4>3. (served + 1) * FrameBytes \in Nat
        BY <2>2, Sizes
      <4> QED BY <2>1, <3>4, <4>2, <4>3 DEF Aligned, Consumed
    <3> QED BY <3>3, <3>4
  <2> QED BY <2>1, <2>4, <2>5, <2>6
<1> QED BY <1>1, <1>2

(* The response moves no byte of the request stream.                        *)
LEMMA ResponseStep ==
  ASSUME IndInv, Infer \/ WriteStatus \/ WriteLatency \/ WriteOutElems \/ WriteOutput
  PROVE  IndInv'
<1>1. /\ UNCHANGED <<delivered, peer, g_running, reactor, pos, elems, bytes_read, short, served>>
      /\ phase \in Writes \cup {"infer"}
      /\ \/ phase' \in Writes \cup {"ended"} /\ want' = want
         \/ phase' = "len" /\ want' = 1
  BY DEF Infer, WriteStatus, WriteLatency, WriteOutElems, WriteOutput, WriteNext, NextRequest,
         AwaitRead, input, Writes
<1>2. SessionTypeOK'
  BY <1>1 DEF IndInv, SessionTypeOK, Reads, Writes
<1> QED BY <1>1, <1>2 DEF IndInv, PayloadInv, Aligned, Consumed, Writes

(* Every step of the session and of the network keeps the invariant. *)
LEMMA StepInv == IndInv /\ [SessionNext]_sessionVars => IndInv'
<1> SUFFICES ASSUME IndInv, [SessionNext]_sessionVars PROVE IndInv'
  OBVIOUS
<1>1. CASE UNCHANGED sessionVars
  BY <1>1 DEF sessionVars, IndInv, SessionTypeOK, PayloadInv, Aligned, Consumed, bytes_to_read
<1> QED BY <1>1, EnvironmentStep, LenStep, IdStep, CountStep, PayloadStep, ResponseStep
        DEF SessionNext, Step, Read, Write

(* Every reachable state of a session satisfies IndInv: as long as no       *)
(* header field was cut, the bytes consumed are those of the requests       *)
(* served and of the fields read of the current one (main.cpp:125-196).     *)
THEOREM Inductive == SessionSpec => []IndInv
  BY InitInv, StepInv, PTL DEF SessionSpec

(* However the stream is cut up, as long as no header field is: when the     *)
(* session turns to the next request it has consumed exactly the frames of   *)
(* the requests before it (main.cpp:125-168).                                *)
THEOREM FramingKept == SessionSpec => []FramedUnlessHeaderSplit
<1>1. IndInv => FramedUnlessHeaderSplit
  <2>1. SessionTypeOK => pos \in Int /\ served * FrameBytes \in Int
    BY Sizes DEF SessionTypeOK
  <2> QED BY <2>1 DEF IndInv, FramedUnlessHeaderSplit, Framed, Aligned, Consumed
<1> QED BY <1>1, Inductive, PTL
=============================================================================
