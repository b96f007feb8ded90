-------------------------------- MODULE Frames --------------------------------
(***************************************************************************)
(* The WebSocket frames of the PTY bridge (src/src/agentenv/pty_ws.py): the *)
(* length in a frame's header, and the message that recv puts together from *)
(* the frames of a client.  A payload is a sequence of bytes or of anything *)
(* else.  Left out: masks, and the pongs that answer pings.                *)
(***************************************************************************)
EXTENDS Naturals, SequencesExt

DataOpcodes == {"text", "binary"}

\* struct.pack for the lengths there are, all below 2^31.
BigEndian(n, width) ==
    [i \in 1..width |-> IF width - i > 3 THEN 0 ELSE (n \div 256^(width - i)) % 256]
Unpacked(bytes) == FoldLeft(LAMBDA n, byte : 256 * n + byte, 0, bytes)

\* Mutant: the two-byte form is also used for a length it has no room for.
HeaderWide(n) ==
    CASE n < 126 -> <<n>>
      [] n \in 126..65536 -> <<126>> \o BigEndian(n, 2)
      [] OTHER -> <<127>> \o BigEndian(n, 8)

\* What _send writes after the opcode.
Header(n) ==
    CASE n < 126 -> <<n>>
      [] n \in 126..65535 -> <<126>> \o BigEndian(n, 2)
      [] OTHER -> <<127>> \o BigEndian(n, 8)

\* The length that recv reads, and the bytes that are left.
Length(bytes) ==
    LET width == CASE Head(bytes) = 126 -> 2
                   [] Head(bytes) = 127 -> 8
                   [] OTHER -> 0
    IN  <<IF width = 0 THEN Head(bytes) ELSE Unpacked(SubSeq(bytes, 2, width + 1)),
          SubSeq(bytes, width + 2, Len(bytes))>>

\* recv has returned no message yet; returns none; returns one.
Waiting == [returned |-> "no"]
Ended == [returned |-> "none"]
Message(opcode, payload) ==
    [returned |-> "message", opcode |-> opcode, payload |-> payload]

Nothing == [result |-> Waiting, opcode |-> "none", message |-> <<>>]

\* A turn of recv's loop.
Turn(s, f) ==
    LET opcode == IF f.opcode = "cont" THEN s.opcode ELSE f.opcode
        message == (IF f.opcode = "cont" THEN s.message ELSE <<>>) \o f.payload
    IN  CASE s.result # Waiting -> s
          [] s.result = Waiting /\ f.opcode \in {"ping", "pong"} -> s
          [] s.result = Waiting /\ (f.opcode = "close" \/ opcode = "none") ->
                 [s EXCEPT !.result = Ended]
          [] OTHER -> [result |-> IF f.fin THEN Message(opcode, message) ELSE Waiting,
                       opcode |-> opcode, message |-> message]

Recv(frames) == FoldLeft(Turn, Nothing, frames).result

-----------------------------------------------------------------------------
(* The reference. *)

\* Control frames apart, up to a close: the first final frame ends the message
\* that was begun last, unless the first frame of all begins none.
Expected(frames) ==
    LET closes == {i \in 1..Len(frames) : frames[i].opcode = "close"}
        before == IF closes = {} THEN frames ELSE SubSeq(frames, 1, Min(closes) - 1)
        data == SelectSeq(before, LAMBDA f : f.opcode \notin {"ping", "pong"})
        finals == {i \in 1..Len(data) : data[i].fin}
        begins == {i \in 1..Min(finals) : data[i].opcode # "cont"}
    IN  IF data # <<>> /\ data[1].opcode = "cont" THEN Ended
        ELSE IF finals = {} THEN IF closes = {} THEN Waiting ELSE Ended
        ELSE Message(data[Max(begins)].opcode,
                     FlattenSeq([i \in 1..(Min(finals) + 1 - Max(begins)) |->
                                    data[Max(begins) + i - 1].payload]))

\* Every length that is sent is read back, with the payload left to read; and a
\* message arrives whole however the client cuts it up.
FramesAreRead(lengths, streams) ==
    /\ \A n \in lengths : Length(Header(n) \o <<"payload">>) = <<n, <<"payload">>>>
    /\ \A s \in streams : Recv(s) = Expected(s)

=============================================================================
