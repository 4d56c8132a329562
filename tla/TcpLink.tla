------------------------------ MODULE TcpLink ------------------------------
(***************************************************************************)
(* The one loopback TCP connection of the Godot client (HostBridge), to the *)
(* 32-bit TesseraHost process or to whatever else has taken the port in the *)
(* meantime.  Requests are whole messages: the                              *)
(* host reads them with a blocking recv and never loses its framing.  The   *)
(* response direction is a stream of BYTES, because the client reads it     *)
(* with timeouts and can stop in the middle of a frame.  A frame is a       *)
(* Header-byte little-endian length followed by that many payload bytes.    *)
(***************************************************************************)
EXTENDS Integers, Sequences

CONSTANTS
    Lengths,   \* payload lengths of the host's responses (0: a body that could not be built)
    Bogus,     \* in-range values of a length word that is not a frame's header
    MaxFrame,  \* the client's sanity limit on a length word (64 MB)
    RcvBuf,    \* what the client's socket can hold unread
    MaxReqs    \* bound on the requests of one connection, for model checking

Header == 4

ASSUME LinkAssumption ==
    /\ Lengths \subseteq Nat
    /\ Bogus \subseteq 1 .. MaxFrame
    /\ MaxFrame \in Nat
    /\ RcvBuf \in Nat /\ RcvBuf >= Header
    /\ MaxReqs \in Nat

VARIABLES
    reqs,      \* kinds of the requests the client has written, in order
    frames,    \* responses the host has begun to write, in order
    arrived,   \* response bytes that have reached the client's socket so far
    consumed,  \* response bytes the client has read so far
    conn,      \* the client's end: "none", "open" (STATUS_CONNECTED), "closed"
    peer,      \* what the other end has told the client: "open", "fin", "rst"
    server     \* whose the other end is: "none" yet, the "host"'s, some "other" process's

\* What may change while a connection lives; server is fixed when it is made.
linkVars == <<reqs, frames, arrived, consumed, conn, peer>>

Kinds == {"query", "ping", "shutdown"}
Frame == [answers : Nat, start : Nat, len : Nat]

End(f) == f.start + Header + f.len

\* The stream position after the last byte of the last response.
Written == IF frames = <<>> THEN 0 ELSE End(frames[Len(frames)])

Available == arrived - consumed

\* The responses whose header is at stream position p (at most one).
FramesAt(p) == {k \in DOMAIN frames : frames[k].start = p}

\* Position p is where a header is, or where the next one will be.
AtBoundary(p) == p = Written \/ FramesAt(p) # {}

InHeader(b) == \E k \in DOMAIN frames : b \in frames[k].start .. frames[k].start + Header - 1

(***************************************************************************)
(* What get_32 can return at position p.  At a header it is that frame's    *)
(* length.  Anywhere else the most significant byte, p + 3, decides: a      *)
(* payload byte is text (>= 0x20, or negative from 0x80 on) and puts the    *)
(* word outside the accepted range, which 0 stands for; a header byte can   *)
(* leave it inside.                                                         *)
(***************************************************************************)
Words(p) ==
    IF FramesAt(p) # {} THEN {frames[k].len : k \in FramesAt(p)}
    ELSE {0} \cup (IF InHeader(p + Header - 1) THEN Bogus ELSE {})

\* What StreamPeerTCP::poll notices: a reset at once, an orderly close only
\* when no byte is left to read.
PollDrops == conn = "open" /\ (peer = "rst" \/ (peer = "fin" /\ Available = 0))

LinkInit ==
    /\ reqs = <<>> /\ frames = <<>>
    /\ arrived = 0 /\ consumed = 0
    /\ conn = "none" /\ peer = "open" /\ server = "none"

LinkTypeOK ==
    /\ reqs \in Seq(Kinds)
    /\ frames \in Seq(Frame)
    /\ arrived \in Nat /\ consumed \in Nat
    /\ conn \in {"none", "open", "closed"}
    /\ peer \in {"open", "fin", "rst"}
    /\ server \in {"none", "host", "other"}
=============================================================================
