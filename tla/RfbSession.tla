------------------------------ MODULE RfbSession ------------------------------
(***************************************************************************)
(* How an RFB session begins and how its messages are framed:              *)
(* session.handshake and session.loop of internal/rfb/server.go on one     *)
(* side, Client.handshake, doSecurity and the senders of                   *)
(* internal/rfbclient on the other.  Nothing on the stream says where a    *)
(* message ends: both sides must agree on every length.  A message is its  *)
(* name, the bytes of it still unread, and what the other side needs of it.*)
(* A password stands for its first eight bytes.  The screen is one         *)
(* rectangle of Area pixels, all of one colour: see DirtyRects and         *)
(* FrameSync for more of them.                                             *)
(***************************************************************************)
EXTENDS Naturals, Sequences, PixelFormat

CONSTANTS
    Password,        \* passwords, "" is none
    Format,          \* names of the pixel formats viewers ask for
    Area,            \* pixels of the screen
    NameLen,         \* length of the desktop name
    TextLen,         \* length of a text the viewer's user has cut
    MaxSent          \* bound: messages of the client on their way

ASSUME RfbAssumption ==
    /\ "" \in Password /\ Format \subseteq {"builtin", "rgb565big", "bgr233"}
    /\ Area \in Nat \ {0} /\ NameLen \in Nat /\ TextLen \in Nat
    /\ MaxSent \in Nat \ {0}

\* Colours of the screen, with the values where scaling rounds or saturates.
Colour == {RGB(0, 128, 255), RGB(255, 131, 8)}

VARIABLES
    conn,            \* the stream: "up" or "down"
    toClient, toServer,
    spw, cpw,        \* Options.Password, the password given to Connect
    spc, cpc,        \* what a side is about to do
    body,            \* the message whose type session.loop has read
    pf,              \* session.pf, the format the server encodes in
    cformat,         \* the name of the format the viewer asks for
    rpc              \* what Client.Run is about to read

vars == <<conn, toClient, toServer, spw, cpw, spc, cpc, body, pf, cformat, rpc>>

Inputs == {"pixelFormat", "encodings", "request", "pointer", "key", "cutText"}
Message(name, left, value) == [name |-> name, left |-> left, value |-> value]

Init ==
    /\ conn = "up"
    /\ toClient = <<>> /\ toServer = <<>>
    /\ spw \in Password /\ cpw \in Password
    /\ spc = "sendVersion" /\ cpc = "version"
    /\ body = "none"
    /\ pf = FormatOf("builtin") /\ cformat \in Format
    /\ rpc = "update"

\* ReadFull of the next n bytes, which are taken to be of this message.
Read(q, name, n) ==
    /\ q # <<>> /\ Head(q).name = name /\ Head(q).left >= n

Rest(q, n) ==
    IF Head(q).left = n THEN Tail(q)
    ELSE <<[Head(q) EXCEPT !.left = @ - n]>> \o Tail(q)

-----------------------------------------------------------------------------
(* The server *)

ServerWrites(from, to, messages) ==
    /\ spc = from
    /\ toClient' = toClient \o messages
    /\ spc' = to
    /\ UNCHANGED <<conn, toServer, spw, cpw, cpc, body, pf, cformat, rpc>>

ServerReads(from, name, n, to) ==
    /\ spc = from
    /\ Read(toServer, name, n)
    /\ toServer' = Rest(toServer, n)
    /\ spc' = to
    /\ UNCHANGED <<conn, toClient, spw, cpw, cpc, body, pf, cformat, rpc>>

\* It offers the one security type that fits its password.
Offer == IF spw = "" THEN "none" ELSE "vnc"

ServerSendVersion == ServerWrites("sendVersion", "version", <<Message("version", 12, "")>>)
ServerReadVersion == ServerReads("version", "version", 12, "offer")
ServerOffer == ServerWrites("offer", "select", <<Message("types", 2, Offer)>>)

\* Mutant of AfterSelect: the viewer's choice decides.
FollowsViewer(type) == IF type = "none" THEN "accept" ELSE "challenge"

\* securityNone ignores what the client selects, securityVNCAuth does not.
AfterSelect(type) ==
    CASE Offer = "none" -> "accept"
      [] Offer = "vnc" /\ type = "vnc" -> "challenge"
      [] OTHER -> "failed"

ServerReadSelect ==
    ServerReads("select", "select", 1, AfterSelect(Head(toServer).value))

ServerChallenge == ServerWrites("challenge", "response", <<Message("challenge", 16, "")>>)

\* Mutant of Matches: the check is made, and what it says is not used.
AnyResponse(response) == TRUE

\* checkVNCAuth
Matches(response) == response = spw

ServerReadResponse ==
    ServerReads("response", "response", 16,
        IF Matches(Head(toServer).value) THEN "accept" ELSE "refuse")

ServerAccept == ServerWrites("accept", "shared", <<Message("result", 4, "ok")>>)
ServerRefuse == ServerWrites("refuse", "failed",
    <<Message("result", 4, "failed"), Message("reason", 4 + 21, "")>>)

\* ClientInit is read, ServerInit is sent.
ServerReadShared == ServerReads("shared", "shared", 1, "init")
ServerInit == ServerWrites("init", "loop",
    <<Message("size", 4, ""), Message("format", 16, ""), Message("name", 4 + NameLen, "")>>)

\* session.loop reads the type of a message, and the rest of it by its type.
ServerReadType ==
    /\ spc = "loop"
    /\ \E name \in Inputs :
          /\ Read(toServer, name, 1)
          /\ body' = name
    /\ toServer' = Rest(toServer, 1)
    /\ spc' = "body"
    /\ UNCHANGED <<conn, toClient, spw, cpw, cpc, pf, cformat, rpc>>

\* readSetPixelFormat, readSetEncodings (two of them), readFBUR,
\* readPointerEvent, readKeyEvent, readClientCutText
Body == [pixelFormat |-> 3 + 16, encodings |-> 3 + 2 * 4, request |-> 9,
         pointer |-> 5, key |-> 7, cutText |-> 7 + TextLen]

\* Mutant of BodySize: an update request is taken to be as long as a key event.
ShortRequest(name) == IF name = "request" THEN Body["key"] ELSE Body[name]

BodySize(name) == Body[name]

\* Mutant of FormatAfter: a format is read and not put to use.
KeepsFormat(name, value) == pf

\* pixelFormat.read takes over what the client asked for.
FormatAfter(name, value) == IF name = "pixelFormat" THEN FormatOf(value) ELSE pf

ServerReadBody ==
    /\ spc = "body"
    /\ Read(toServer, body, BodySize(body))
    /\ toServer' = Rest(toServer, BodySize(body))
    /\ spc' = IF body = "request" THEN "update" ELSE "loop"
    /\ body' = "none"
    /\ pf' = FormatAfter(body, Head(toServer).value)
    /\ UNCHANGED <<conn, toClient, spw, cpw, cpc, cformat, rpc>>

\* sendFramebufferUpdate, in the format of the moment. It waits for room.
ServerUpdate ==
    /\ Len(toClient) < MaxSent
    /\ \E colour \in Colour :
          ServerWrites("update", "loop",
             <<Message("update", 4, ""), Message("rect", 12, ""),
               Message("pixels", Area * bytesPerPixel(pf),
                       [pixel |-> encode(pf, colour), colour |-> colour])>>)

Server ==
    \/ ServerSendVersion \/ ServerReadVersion \/ ServerOffer \/ ServerReadSelect
    \/ ServerChallenge \/ ServerReadResponse \/ ServerAccept \/ ServerRefuse
    \/ ServerReadShared \/ ServerInit \/ ServerReadType \/ ServerReadBody
    \/ ServerUpdate

-----------------------------------------------------------------------------
(* The client *)

ClientWrites(from, to, messages) ==
    /\ cpc = from
    /\ toServer' = toServer \o messages
    /\ cpc' = to
    /\ UNCHANGED <<conn, toClient, spw, cpw, spc, body, pf, cformat, rpc>>

ClientReads(from, name, n, to) ==
    /\ cpc = from
    /\ Read(toClient, name, n)
    /\ toClient' = Rest(toClient, n)
    /\ cpc' = to
    /\ UNCHANGED <<conn, toServer, spw, cpw, spc, body, pf, cformat, rpc>>

ClientReadVersion == ClientReads("version", "version", 12, "sendVersion")
ClientSendVersion == ClientWrites("sendVersion", "count", <<Message("version", 12, "")>>)
ClientReadCount == ClientReads("count", "types", 1, "types")

\* doSecurity prefers None to VNC authentication, and takes nothing that is not
\* offered. Another viewer may ask to be let in without a password all the same.
Selects(offer) ==
    {IF offer = "none" THEN "selectNone" ELSE "selectVnc"}
        \cup (IF cformat = "builtin" THEN {} ELSE {"selectNone"})

ClientReadTypes ==
    \E to \in {"selectNone", "selectVnc"} :
       /\ ClientReads("types", "types", 1, to)
       /\ to \in Selects(Head(toClient).value)
ClientSelectNone == ClientWrites("selectNone", "result", <<Message("select", 1, "none")>>)
ClientSelectVnc == ClientWrites("selectVnc", "challenge", <<Message("select", 1, "vnc")>>)
ClientReadChallenge == ClientReads("challenge", "challenge", 16, "response")
ClientRespond == ClientWrites("response", "result", <<Message("response", 16, cpw)>>)

ClientReadResult ==
    ClientReads("result", "result", 4,
        IF Head(toClient).value = "ok" THEN "shared" ELSE "reason")
ClientReadReason == ClientReads("reason", "reason", 4 + 21, "failed")

ClientShared == ClientWrites("shared", "size", <<Message("shared", 1, "")>>)
ClientReadSize == ClientReads("size", "size", 4, "format")

\* Mutant of FormatSize: PIXEL_FORMAT without its padding.
Unpadded == 13

FormatSize == 16

ClientReadFormat == ClientReads("format", "format", FormatSize, "name")
ClientReadName == ClientReads("name", "name", 4 + NameLen, "configure")
ClientConfigure == ClientWrites("configure", "ready",
    <<Message("pixelFormat", 1 + 3 + 16, cformat), Message("encodings", 4 + 2 * 4, "")>>)

\* RequestUpdate, SendPointer, SendKey: in any order and at any time. VNC
\* programs behind -forward send what their users cut, too.
SentSize == [request |-> 2 + 4 * 2, pointer |-> 2 + 2 * 2, key |-> 4 + 4,
             cutText |-> 4 + 4 + TextLen]

ClientSend(name) ==
    /\ Len(toServer) < MaxSent
    /\ name = "cutText" => cformat # "builtin"
    /\ ClientWrites("ready", "ready", <<Message(name, SentSize[name], "")>>)

ClientHandshake ==
    \/ ClientReadVersion \/ ClientSendVersion \/ ClientReadCount \/ ClientReadTypes
    \/ ClientSelectNone \/ ClientSelectVnc \/ ClientReadChallenge \/ ClientRespond
    \/ ClientReadResult \/ ClientReadReason \/ ClientShared
    \/ ClientReadSize \/ ClientReadFormat \/ ClientReadName \/ ClientConfigure

\* Run: readFramebufferUpdate, readRectangle, decodeRaw.
RunReads(from, size, to) ==
    /\ cpc = "ready" /\ rpc = from
    /\ Read(toClient, from, size)
    /\ toClient' = Rest(toClient, size)
    /\ rpc' = to
    /\ UNCHANGED <<conn, toServer, spw, cpw, spc, cpc, body, pf, cformat>>

PixelsSize == Area * bytesPerPixel(FormatOf(cformat))

ClientRun ==
    \/ RunReads("update", 4, "rect") \/ RunReads("rect", 12, "pixels")
    \/ RunReads("pixels", PixelsSize, "update")

Client == ClientHandshake \/ ClientRun \/ \E name \in DOMAIN SentSize : ClientSend(name)

-----------------------------------------------------------------------------
\* The stream ends: the network does, or Serve or the viewer's process has.
Break ==
    /\ conn = "up"
    /\ conn' = "down"
    /\ UNCHANGED <<toClient, toServer, spw, cpw, spc, cpc, body, pf, cformat, rpc>>

\* A read or a write fails. What was on its way may be read before.
ServerFails ==
    /\ conn = "down" /\ spc # "failed"
    /\ spc' = "failed"
    /\ UNCHANGED <<conn, toClient, toServer, spw, cpw, cpc, body, pf, cformat, rpc>>

ClientFails ==
    /\ conn = "down" /\ cpc # "failed"
    /\ cpc' = "failed"
    /\ UNCHANGED <<conn, toClient, toServer, spw, cpw, spc, body, pf, cformat, rpc>>

\* Serve closes the stream when it returns; the viewer's process ends.
Hangup == spc = "failed" \/ cpc = "failed"

Next ==
    \/ Server \/ Client
    \/ Break \/ ServerFails \/ ClientFails

\* Both sides run, and a stream that one of them closed ends for the other.
FairSpec ==
    /\ Init /\ [][Next]_vars
    /\ WF_vars(Server) /\ WF_vars(ClientHandshake \/ ClientRun)
    /\ WF_vars(Hangup /\ Break) /\ WF_vars(ServerFails) /\ WF_vars(ClientFails)

-----------------------------------------------------------------------------
\* What the client is about to read, whole or what it left of it.
ClientExpects ==
    CASE cpc = "version" -> <<"version", 12>> [] cpc = "count" -> <<"types", 2>>
      [] cpc = "types" -> <<"types", 1>> [] cpc = "challenge" -> <<"challenge", 16>>
      [] cpc = "result" -> <<"result", 4>> [] cpc = "reason" -> <<"reason", 25>>
      [] cpc = "size" -> <<"size", 4>> [] cpc = "format" -> <<"format", 16>>
      [] cpc = "name" -> <<"name", 4 + NameLen>>
      [] cpc = "ready" -> <<rpc, CASE rpc = "update" -> 4 [] rpc = "rect" -> 12
                                   [] rpc = "pixels" -> PixelsSize>>
      [] OTHER -> <<"nothing", 0>>

\* Both sides agree where each message begins: whatever a side finds on the
\* stream when it reads is the whole message it expects, to the byte.
Framed ==
    /\ ClientExpects[2] > 0 /\ toClient # <<>> =>
          /\ Head(toClient).name = ClientExpects[1]
          /\ Head(toClient).left = ClientExpects[2]
    /\ spc = "loop" /\ toServer # <<>> =>
          LET m == Head(toServer) IN
          /\ m.name \in Inputs
          /\ m.name \in DOMAIN SentSize => m.left = SentSize[m.name]
    /\ spc = "body" => /\ toServer # <<>>
                       /\ Head(toServer).name = body
                       /\ Head(toServer).left = BodySize(body)

\* A viewer that asked for a format, once and before its first request, gets every
\* pixel of every update in it, each channel scaled down to what the format holds;
\* the built-in one, whose format loses nothing, gets the colour exactly.
PixelsArrive ==
    cpc = "ready" /\ rpc = "pixels" /\ toClient # <<>> =>
       LET sent == Head(toClient).value IN
       /\ SameColour(FormatOf(cformat), sent.pixel, sent.colour)
       /\ cformat = "builtin" => decodeRaw(sent.pixel) = sent.colour

\* Whichever of the two types a viewer selects and whichever password it answers
\* with, it does not get past the handshake, to a screen or to the input of a host,
\* without the password that the server asks for.
Authenticated == spc \in {"shared", "init", "loop", "body", "update"} => spw = "" \/ cpw = spw

\* The handshake ends for both sides, in a session or in a failure.
HandshakeEnds ==
    /\ <>(spc \in {"loop", "body", "update", "failed"})
    /\ <>(cpc \in {"ready", "failed"})
===============================================================================
