------------------------------- MODULE MCPty ---------------------------------
(* Pty with the bounds TLC uses, and the frames its connections are given.  *)
EXTENDS Pty, Frames, TLC

Symmetry == Permutations(Conns)

Lengths == {0, 1, 125, 126, 127, 128, 255, 256, 257, 65535, 65536, 65537, 16777216}

\* The i-th frame of a stream: its payload, if any, tells where it was.
FrameAt(i) ==
    [fin : BOOLEAN, opcode : DataOpcodes \cup {"cont"}, payload : {<<>>, <<i>>}] \cup
    [fin : {TRUE}, opcode : {"ping", "pong", "close"}, payload : {<<i>>}]

\* All streams of at most four frames.
Streams ==
    {<<>>} \cup {<<f>> : f \in FrameAt(1)} \cup (FrameAt(1) \X FrameAt(2))
        \cup (FrameAt(1) \X FrameAt(2) \X FrameAt(3))
        \cup (FrameAt(1) \X FrameAt(2) \X FrameAt(3) \X FrameAt(4))

AreRead == FramesAreRead(Lengths, Streams)

\* What an open connection is sent arrives: whole messages, wherever the client
\* has cut them up or has put control frames in between, and the length of each
\* frame that the service sends.
MessagesArriveWhole == \A k \in Conns : link[k] = "open" => AreRead

=============================================================================
