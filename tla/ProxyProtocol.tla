---------------------------- MODULE ProxyProtocol ----------------------------
(***************************************************************************)
(* parse_proxy_protocol, network/proxy_protocol.rs, and PrefixedRead,      *)
(* network/prefixed_stream.rs: a connection starts with a PROXY header, and *)
(* TCP delivers it and what follows in arbitrary pieces.  A byte is its    *)
(* position in the stream, so that a lost, repeated or reordered byte      *)
(* shows.                                                                  *)
(***************************************************************************)
EXTENDS Naturals, Sequences

CONSTANTS
    HeaderLens, \* bytes of the header, its CRLF or its address block included
    StreamLen,  \* bytes the client's side sends
    Magic,      \* bytes that identify the version: 6 or 12
    Fixed,      \* 16: the part of a v2 header with its length
    FirstRead,  \* 512: the size of the first read
    MaxLine     \* 107: the longest v1 line

ASSUME HeaderAssumption ==
    /\ Magic \in Nat /\ FirstRead \in Nat \ {0} /\ MaxLine \in Nat /\ StreamLen \in Nat
    /\ Fixed \in Nat /\ Fixed >= Magic
    /\ HeaderLens \subseteq Magic .. StreamLen + 1

VARIABLES
    version, headerLen,  \* of the header this connection starts with
    pc,       \* where the parser is
    arrived,  \* bytes TCP has delivered so far
    taken,    \* bytes read from the socket
    header,   \* the buffer of the parser
    prefix,   \* leftover_bytes, as PrefixedRead has them
    stream    \* what the packet decoder has read

sent == <<version, headerLen>>
headerVars == <<sent, pc, arrived, taken, header, prefix, stream>>

HeaderInit ==
    /\ version \in {1, 2}
    /\ headerLen \in HeaderLens /\ (version = 2 => headerLen >= Fixed)
    /\ pc = "first"
    /\ arrived = 0 /\ taken = 0
    /\ header = <<>> /\ prefix = <<>> /\ stream = <<>>

\* Bytes lo to hi of the stream.
Bytes(lo, hi) == [i \in 1 .. hi - lo + 1 |-> lo + i - 1]
Lesser(a, b) == IF a < b THEN a ELSE b

\* More bytes arrive.
Arrive ==
    /\ arrived < StreamLen
    /\ \E n \in arrived + 1 .. StreamLen : arrived' = n
    /\ UNCHANGED <<sent, pc, taken, header, prefix, stream>>

\* read() of at most n bytes takes what has arrived.
Take(n) == Bytes(taken + 1, Lesser(taken + n, arrived))
MayRead == arrived > taken

\* The parser needs another read().
Wanting ==
    \/ pc = "first"
    \/ pc = "v1" /\ Len(header) < headerLen /\ Len(header) <= MaxLine
    \/ pc = "v2Fixed" /\ Len(header) < Fixed
    \/ pc = "v2Body" /\ Len(header) < headerLen

\* The client's side has closed the connection: read() returns 0 and the parser gives up.
EndOfStream ==
    /\ Wanting /\ taken = StreamLen
    /\ pc' = "refused"
    /\ UNCHANGED <<sent, arrived, taken, header, prefix, stream>>

-----------------------------------------------------------------------------
(* parse_proxy_protocol.                                                    *)

\* The first read has to hold the bytes that identify the version.
First ==
    /\ pc = "first" /\ MayRead
    /\ header' = Take(FirstRead)
    /\ taken' = Len(header')
    /\ pc' = IF taken' < Magic THEN "refused" ELSE IF version = 1 THEN "v1" ELSE "v2Fixed"
    /\ UNCHANGED <<sent, arrived, prefix, stream>>

\* v1 without its CRLF: one more byte, unless the line is too long.
V1Byte ==
    /\ pc = "v1" /\ Wanting /\ MayRead
    /\ header' = header \o Take(1)
    /\ taken' = taken + 1
    /\ UNCHANGED <<sent, pc, arrived, prefix, stream>>

V1TooLong ==
    /\ pc = "v1" /\ Len(header) < headerLen /\ Len(header) > MaxLine
    /\ pc' = "refused"
    /\ UNCHANGED <<sent, arrived, taken, header, prefix, stream>>

\* v2: the rest of the fixed part, then the rest of the address block.
\* Any version but 2 is refused in between.
V2Fixed ==
    /\ pc = "v2Fixed"
    /\ \/ /\ Wanting /\ MayRead
          /\ header' = header \o Take(Fixed - Len(header))
          /\ taken' = taken + Len(Take(Fixed - Len(header)))
          /\ UNCHANGED pc
       \/ /\ ~Wanting
          /\ pc' \in {"v2Body", "refused"}
          /\ UNCHANGED <<header, taken>>
    /\ UNCHANGED <<sent, arrived, prefix, stream>>

V2Body ==
    /\ pc = "v2Body" /\ Wanting /\ MayRead
    /\ LET needed == Lesser(headerLen - Len(header), FirstRead) IN
        /\ header' = header \o Take(needed)
        /\ taken' = taken + Len(Take(needed))
    /\ UNCHANGED <<sent, pc, arrived, prefix, stream>>

\* Mutant: the header is taken to be complete only when a byte follows it.
ParsedLate(at) ==
    /\ pc = at /\ Len(header) > headerLen
    /\ prefix' = SubSeq(header, headerLen + 1, Len(header))
    /\ pc' = "tunnel"
    /\ UNCHANGED <<sent, arrived, taken, header, stream>>

\* The header is complete: its address is the client's, or its contents are refused;
\* what was read past it becomes the prefix of the stream.
Parsed(at) ==
    /\ pc = at /\ Len(header) >= headerLen
    /\ \/ pc' = "tunnel" /\ prefix' = SubSeq(header, headerLen + 1, Len(header))
       \/ pc' = "refused" /\ UNCHANGED prefix
    /\ UNCHANGED <<sent, arrived, taken, header, stream>>

V1Parsed == Parsed("v1")
V2Parsed == Parsed("v2Body")

-----------------------------------------------------------------------------
(* PrefixedRead::poll_read, with a buffer of one to three bytes.            *)

ReadPrefix ==
    /\ pc = "tunnel" /\ prefix # <<>>
    /\ \E n \in 1 .. 3 :
        LET k == Lesser(n, Len(prefix)) IN
          /\ stream' = stream \o SubSeq(prefix, 1, k)
          /\ prefix' = SubSeq(prefix, k + 1, Len(prefix))
    /\ UNCHANGED <<sent, pc, arrived, taken, header>>

\* Mutant: the socket is read although the prefix is not used up.
ReadInnerFirst ==
    /\ pc = "tunnel" /\ MayRead
    /\ \E n \in 1 .. 3 : stream' = stream \o Take(n) /\ taken' = taken + Len(Take(n))
    /\ UNCHANGED <<sent, pc, arrived, header, prefix>>

ReadInner ==
    /\ pc = "tunnel" /\ prefix = <<>> /\ MayRead
    /\ \E n \in 1 .. 3 : stream' = stream \o Take(n) /\ taken' = taken + Len(Take(n))
    /\ UNCHANGED <<sent, pc, arrived, header, prefix>>

-----------------------------------------------------------------------------
Parser == First \/ V1Byte \/ V1TooLong \/ V2Fixed \/ V2Body \/ V1Parsed \/ V2Parsed \/ EndOfStream
HeaderNext == Arrive \/ Parser \/ ReadPrefix \/ ReadInner
HeaderSpec == HeaderInit /\ [][HeaderNext]_headerVars
FairHeaderSpec ==
    /\ HeaderSpec
    /\ WF_headerVars(Arrive) /\ WF_headerVars(Parser)
    /\ WF_headerVars(ReadPrefix) /\ WF_headerVars(ReadInner)

-----------------------------------------------------------------------------
(* Properties.                                                              *)

\* However the header and what follows it were cut into pieces, no byte is lost, repeated
\* or out of order: what the packet decoder has read and the prefix it will read next are
\* the bytes read from the socket behind the header.
StreamIntact == pc = "tunnel" => stream \o prefix = Bytes(headerLen + 1, taken)

\* A connection is refused, or all the bytes after its header come through.
EverythingArrives == <>(pc = "refused" \/ Len(stream) = StreamLen - headerLen)
=============================================================================
