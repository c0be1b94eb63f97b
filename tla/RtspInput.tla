------------------------------ MODULE RtspInput ------------------------------
(***************************************************************************)
(* How a session finds messages in the bytes it receives:                  *)
(* CRtspSession::OnRead (src/src/RtspSession.cpp:313-395) with             *)
(* CHttpRequest::Parse (src/src/Http.cpp:25-74) and CRtcp::Parse           *)
(* (src/src/Rtcp.cpp:14-40), over the clients that use the session one     *)
(* after the other: what one leaves half parsed the next one inherits.     *)
(*                                                                         *)
(* A byte is what it means to the parsers.  A request is some "r" and an   *)
(* "e" that completes it, or a "b" when its lines cannot be parsed.  An    *)
(* RTCP packet is "$" and a channel "c", the two bytes of its length, "h"  *)
(* and a digit, and as many bytes "d", of which the last is "z".           *)
(***************************************************************************)
EXTENDS Integers, SequencesExt

CONSTANTS Sizes,       \* the lengths of the requests clients send
          Lengths,     \* the lengths of their RTCP packets, among 0..2
          MaxRequest,  \* 2048 in Http.cpp:30
          MaxChunk,    \* LEN in RtspSession.cpp:317
          MaxMessages, \* bound: messages of one client
          MaxClients,  \* bound: clients one after the other
          Modulus,     \* of size_t
          Conduct      \* what the network and the clients may do: see below

(* "pair": a pair of bytes read at once is cut by the end of a chunk;      *)
(* "follow": something follows an RTCP packet in its chunk;                *)
(* "abandon": a client leaves in the middle of a message;                  *)
(* "bad": a request that cannot be parsed.                                 *)
ASSUME RtspInputAssumption == /\ Sizes \subseteq Nat \ {0}
                              /\ Lengths \subseteq 0..2
                              /\ MaxRequest \in Nat /\ MaxChunk \in Nat \ {0}
                              /\ MaxMessages \in Nat /\ MaxClients \in Nat
                              /\ Modulus \in Nat
                              /\ Modulus > MaxRequest + MaxChunk
                              /\ Conduct \subseteq {"pair", "follow",
                                                    "abandon", "bad"}

VARIABLES sent,   \* the messages of the client
          wire,   \* what of their bytes is not received yet
          got,    \* the requests processed for it
          nth,    \* which client it is
          open,   \* is it connected
          tidy,   \* history: no client before it ended inside a message
          chunk,  \* buf: what of the received bytes is not parsed yet
          l,      \* how many bytes OnRead thinks these are
          type,   \* m_Type: 0 unknown, 1 RTSP, 2 RTCP
          held,   \* m_Request.m_Request
          need    \* m_Rtcp.m_Len

client == <<sent, wire, nth, open, tidy>>
parser == <<type, held, need>>
vars == <<client, got, chunk, l, parser>>

Digits == <<"0", "1", "2">>
Byte == {"r", "e", "b", "$", "c", "h", "d", "z"} \cup ToSet(Digits)
Value(digit) == (CHOOSE i \in DOMAIN Digits : Digits[i] = digit) - 1

Request(n, end) == [i \in 1..n |-> IF i = n THEN end ELSE "r"]
Body(n) == [i \in 1..n |-> IF i = n THEN "z" ELSE "d"]
Rtcp(n) == <<"$", "c", "h", Digits[n + 1]>> \o Body(n)

Ends == IF "bad" \in Conduct THEN {"e", "b"} ELSE {"e"}
Messages == {Request(n, end) : n \in Sizes, end \in Ends}
            \cup {Rtcp(n) : n \in Lengths}

IsRequest(m) == m[1] # "$"

Init == /\ sent = << >> /\ wire = << >> /\ got = << >>
        /\ nth = 0 /\ open = FALSE /\ tidy = TRUE
        /\ chunk = << >> /\ l = 0
        /\ type = 0 /\ held = << >> /\ need = 0

-----------------------------------------------------------------------------
(* The client: the session's Handle, the bytes, the end.                   *)
Handle == /\ ~open /\ nth < MaxClients
          /\ sent' \in UNION {[1..n -> Messages] : n \in 1..MaxMessages}
          /\ wire' = FlattenSeq(sent')
          /\ got' = << >>
          /\ nth' = nth + 1 /\ open' = TRUE
          /\ chunk' = << >> /\ l' = 0
          /\ UNCHANGED <<parser, tidy>>

Cut(bytes) == /\ Last(bytes) \notin {"$", "h"} \/ "pair" \in Conduct
              /\ \/ \A i \in 1..Len(bytes) - 1 : bytes[i] # "z"
                 \/ "follow" \in Conduct

Recv == /\ open /\ l = 0 /\ wire # << >>
        /\ \E k \in 1..MaxChunk :
              /\ k <= Len(wire) /\ Cut(SubSeq(wire, 1, k))
              /\ chunk' = SubSeq(wire, 1, k) /\ l' = k
              /\ wire' = SubSeq(wire, k + 1, Len(wire))
        /\ UNCHANGED <<sent, nth, open, tidy, got, parser>>

(* recv returns 0: Close, which resets none of the parsers.                *)
Hangup == /\ open /\ l = 0
          /\ wire = << >> \/ "abandon" \in Conduct
          /\ open' = FALSE
          /\ tidy' = (tidy /\ wire = << >>)
          /\ UNCHANGED <<sent, wire, nth, got, chunk, l, parser>>

-----------------------------------------------------------------------------
(* OnRead's loop over a chunk.  Beyond what was received (l wrapped round) *)
(* the bytes are undefined and the model ends.                             *)
InStep == l = Len(chunk)
Parsing(t) == open /\ l > 0 /\ InStep /\ type = t

Minus(a, b) == (a - b) % Modulus
Rest(n) == SubSeq(chunk, n + 1, Len(chunk))

(* Variant: the channel byte is taken for the length's first.              *)
ClassifyShort == /\ Parsing(0)
                 /\ type' = 2
                 /\ Head(chunk) = "$"
                 /\ chunk' = Rest(2) /\ l' = Minus(l, 1)
                 /\ UNCHANGED <<client, got, held, need>>

(* The first byte says what comes; "$" and the channel are skipped.        *)
Classify == /\ Parsing(0)
            /\ IF Head(chunk) # "$"
               THEN type' = 1 /\ UNCHANGED <<chunk, l>>
               ELSE /\ type' = 2
                    /\ chunk' = Rest(2) /\ l' = Minus(l, 2)
            /\ UNCHANGED <<client, got, held, need>>

(* CHttpRequest::Parse appends all of the chunk and looks for the end of a *)
(* request from the beginning of what it holds.                            *)
Ended(bytes) == \E i \in DOMAIN bytes : bytes[i] \in {"e", "b"}
End(bytes) == CHOOSE i \in DOMAIN bytes :
                 /\ bytes[i] \in {"e", "b"}
                 /\ \A j \in 1..i - 1 : bytes[j] \notin {"e", "b"}
All == held \o chunk
Fits == Len(All) <= MaxRequest

(* The length Parse returns when it has found the end.                     *)
Used == Minus(End(All), Len(held))

Taken == /\ chunk' = Rest(Used) /\ l' = Minus(l, Used)

(* Variant: what the request holds is kept for the next one.               *)
RequestKept == /\ Parsing(1) /\ Fits /\ Ended(All) /\ All[End(All)] = "e"
               /\ got' = Append(got, SubSeq(All, 1, End(All)))
               /\ held' = All
               /\ type' = 0 /\ Taken
               /\ UNCHANGED <<client, need>>

(* E_OK: the request is processed (which empties m_Request) ...            *)
RequestOk == /\ Parsing(1) /\ Fits /\ Ended(All) /\ All[End(All)] = "e"
             /\ got' = Append(got, SubSeq(All, 1, End(All)))
             /\ held' = << >> /\ type' = 0
             /\ Taken
             /\ UNCHANGED <<client, need>>

(* ... E_CONTINUE: it is held until more arrives ...                       *)
RequestContinues == /\ Parsing(1) /\ Fits /\ ~Ended(All)
                    /\ held' = All
                    /\ chunk' = << >> /\ l' = 0
                    /\ UNCHANGED <<client, got, type, need>>

(* ... E_BADREQUEST and E_ENTITYTOOLARGE: the connection is closed.        *)
RequestRefused == /\ Parsing(1)
                  /\ ~Fits \/ (Ended(All) /\ All[End(All)] = "b")
                  /\ held' = All
                  /\ IF Fits THEN Taken ELSE UNCHANGED <<chunk, l>>
                  /\ open' = FALSE /\ tidy' = FALSE
                  /\ UNCHANGED <<sent, wire, nth, got, type, need>>

(* CRtcp::Parse(buf, l) leaves in l what it used; OnRead then takes off    *)
(* the whole of what l was, n, and moves on by n.  A length of 0 is read   *)
(* again and again, for ever.                                              *)
Fresh == need = 0
Header == IF Fresh THEN 2 ELSE 0
Wanted == IF Fresh THEN Value(chunk[2]) ELSE need
Whole == ~Fresh \/ (l >= 2 /\ chunk[1] = "h")
Eaten == IF Wanted <= l - Header THEN Wanted ELSE l - Header

(* Variant: what is still wanted of a packet is forgotten.                 *)
RtcpForgets == /\ Parsing(2) /\ Whole /\ Wanted > 0
               /\ need' = 0
               /\ type' = 0
               /\ chunk' = << >>
               /\ l' = Minus(Header + Eaten, l)
               /\ UNCHANGED <<client, got, held>>

RtcpParse == /\ Parsing(2) /\ Whole /\ Wanted > 0
             /\ need' = Wanted - Eaten
             /\ type' = IF need' = 0 THEN 0 ELSE 2
             /\ chunk' = << >>
             /\ l' = Minus(Header + Eaten, l)
             /\ UNCHANGED <<client, got, held>>

-----------------------------------------------------------------------------
Next == \/ Handle \/ Recv \/ Hangup \/ Classify
        \/ RequestOk \/ RequestContinues \/ RequestRefused \/ RtcpParse

Spec == Init /\ [][Next]_vars

-----------------------------------------------------------------------------
TypeOK == /\ sent \in Seq(Messages) /\ got \in Seq(Seq(Byte)) /\ held \in Seq(Byte)
          /\ open \in BOOLEAN /\ nth \in 0..MaxClients
          /\ l \in 0..Modulus - 1 /\ type \in 0..2 /\ need \in 0..2
          /\ Len(held) <= MaxRequest + nth * MaxChunk

Requests(ms) == FlattenSeq([i \in DOMAIN ms |-> IF IsRequest(ms[i])
                                                THEN <<ms[i]>> ELSE << >>])
Asked == Requests(sent)

(* The requests processed are those the client sent, whole, in order, with *)
(* nothing of an RTCP packet or of another request in them, and nothing is *)
(* dropped: when all is received and parsed, every request has been        *)
(* processed -- unless an earlier client of the session left something     *)
(* (Close resets nothing).                                                 *)
Delivered == open /\ tidy =>
                /\ IsPrefix(got, Asked)
                /\ wire = << >> /\ l = 0 => got = Asked

(* OnRead always knows how much of the chunk is left: l is what Recv       *)
(* returned, less what was parsed.                                         *)
NeverAstray == TypeOK /\ (open /\ tidy => InStep)

(* A session taken from the pool begins with a new message.                *)
CleanStart == open /\ tidy /\ got = << >> /\ wire = FlattenSeq(sent) =>
                 type = 0 /\ held = << >> /\ need = 0

(* Rtcp.h:14 "@param len Return used size.": what is left of a chunk after *)
(* an RTCP packet is what was there less what Parse used.                  *)
RtcpUsed == [][RtcpParse => l' = l - (Header + Eaten)]_vars
=============================================================================
