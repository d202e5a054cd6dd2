--------------------------- MODULE RfbSessionProofs ---------------------------
(***************************************************************************)
(* Proofs about module RfbSession, for any passwords, formats, sizes and   *)
(* number of messages on their way: who gets to the screen, that both      *)
(* sides agree where every message begins, that pixels come in the format  *)
(* asked for; and about module PixelFormat, that a pixel in any valid      *)
(* format is the colour it was made of.                                    *)
(***************************************************************************)
EXTENDS RfbSession, SequenceTheorems, TLAPS

\* What a client may have on its way: any message, but the response to the
\* challenge is made with the password that it was given.
Plain == {"version", "select", "shared"} \cup Inputs
Honest ==
    [name : Plain, left : Int, value : {"", "none", "vnc"} \cup Format]
       \cup [name : {"response"}, left : Int, value : {cpw}]

\* The server has made up its mind in "accept"; from there on nothing checks.
Admitted == {"accept", "shared", "init", "loop", "body", "update"}

AuthInv ==
    /\ cformat \in Format
    /\ body \in Inputs \cup {"none"}
    /\ toServer \in Seq(Honest)
    /\ spc \in Admitted => spw = "" \/ cpw = spw

\* A message of which something was read stays the message it was.
LEMMA StillHonest ==
    ASSUME NEW m \in Honest, NEW n \in Int
    PROVE  [m EXCEPT !.left = @ - n] \in Honest
  <1>1. ASSUME NEW N, NEW V, m \in [name : N, left : Int, value : V]
        PROVE  [m EXCEPT !.left = @ - n] \in [name : N, left : Int, value : V]
    BY <1>1
  <1> QED
    BY <1>1 DEF Honest

LEMMA RestHonest ==
    ASSUME NEW q \in Seq(Honest), q # <<>>, NEW n \in Int
    PROVE  Rest(q, n) \in Seq(Honest)
  <1>1. Head(q) \in Honest /\ Tail(q) \in Seq(Honest)
    OBVIOUS
  <1>2. [Head(q) EXCEPT !.left = @ - n] \in Honest
    BY <1>1, StillHonest
  <1>3. <<[Head(q) EXCEPT !.left = @ - n]>> \o Tail(q) \in Seq(Honest)
    BY <1>1, <1>2, ConcatProperties
  <1> QED
    BY <1>1, <1>3 DEF Rest

\* The same for the variable: whatever is read of the next message.
LEMMA ReadHonest ==
    ASSUME AuthInv, toServer # <<>>, NEW n \in Int, toServer' = Rest(toServer, n)
    PROVE  toServer' \in Seq(Honest)
  <1>1. toServer \in Seq(Honest)
    BY DEF AuthInv
  <1> QED
    BY <1>1, RestHonest

LEMMA TextInt == TextLen \in Nat
  BY RfbAssumption, Zenon

LEMMA BodyInt == \A name \in Inputs : BodySize(name) \in Int
  BY TextInt DEF BodySize, Inputs, Body

LEMMA PlainHonest ==
    ASSUME NEW name \in Plain, NEW size \in Int,
           NEW value \in {"", "none", "vnc"} \cup Format
    PROVE  Message(name, size, value) \in Honest
  BY DEF Message, Honest

\* What stays the same when neither the passwords nor the format change.
LEMMA SameHonest == UNCHANGED cpw => Honest' = Honest
  BY DEF Honest, Plain, Inputs

\* A client that writes honest messages keeps the invariant.
LEMMA WriteStep ==
    ASSUME AuthInv, NEW messages \in Seq(Honest), toServer' = toServer \o messages,
           UNCHANGED <<spw, cpw, spc, body, cformat>>
    PROVE  AuthInv'
  <1>1. toServer' \in Seq(Honest)
    BY ConcatProperties DEF AuthInv
  <1> QED
    BY <1>1, SameHonest DEF AuthInv

\* A server that read or wrote may be anywhere a right password allows.
LEMMA MoveStep ==
    ASSUME AuthInv, toServer' \in Seq(Honest), UNCHANGED <<spw, cpw, cformat>>,
           body' \in Inputs \cup {"none"},
           spc' \in Admitted => spw = "" \/ cpw = spw
    PROVE  AuthInv'
  BY SameHonest DEF AuthInv

-----------------------------------------------------------------------------
\* The server's part of the handshake: None is offered only without a
\* password, and a response is accepted only if it was made with the right one.
LEMMA HandshakeStep ==
    ASSUME AuthInv,
           \/ ServerSendVersion \/ ServerReadVersion \/ ServerOffer
           \/ ServerReadSelect \/ ServerChallenge \/ ServerReadResponse
           \/ ServerAccept \/ ServerRefuse \/ ServerReadShared \/ ServerInit
    PROVE  AuthInv'
  <1>1. CASE ServerSendVersion \/ ServerOffer \/ ServerChallenge \/ ServerRefuse
    BY <1>1, SameHonest
       DEF ServerSendVersion, ServerOffer, ServerChallenge, ServerRefuse,
           ServerWrites, AuthInv, Admitted
  <1>2. CASE ServerReadVersion
    <2>1. toServer # <<>> /\ toServer' = Rest(toServer, 12)
      BY <1>2 DEF ServerReadVersion, ServerReads, Read
    <2> QED
      BY <1>2, <2>1, ReadHonest, SameHonest
         DEF ServerReadVersion, ServerReads, AuthInv, Admitted
  <1>3. CASE ServerReadSelect
    <2>1. toServer # <<>> /\ toServer' = Rest(toServer, 1)
      BY <1>3 DEF ServerReadSelect, ServerReads, Read
    <2>2. spc' \in Admitted => spw = ""
      BY <1>3 DEF ServerReadSelect, ServerReads, AfterSelect, Offer, Admitted
    <2>3. toServer' \in Seq(Honest)
      BY <2>1, ReadHonest
    <2>4. UNCHANGED <<spw, cpw, cformat>> /\ body' \in Inputs \cup {"none"}
      BY <1>3 DEF ServerReadSelect, ServerReads, AuthInv
    <2> QED
      BY <2>2, <2>3, <2>4, MoveStep
  <1>4. CASE ServerReadResponse
    <2>1. toServer # <<>> /\ toServer' = Rest(toServer, 16)
      BY <1>4 DEF ServerReadResponse, ServerReads, Read
    <2>2. Head(toServer).name = "response"
      BY <1>4 DEF ServerReadResponse, ServerReads, Read
    <2>3. toServer \in Seq(Honest)
      BY DEF AuthInv
    <2>4. Head(toServer) \in Honest
      BY <2>1, <2>3
    <2>5. Head(toServer).value = cpw
      BY <2>2, <2>4 DEF Honest, Plain, Inputs
    <2>6. spc' \in Admitted => cpw = spw
      BY <1>4, <2>5 DEF ServerReadResponse, ServerReads, Matches, Admitted
    <2>7. toServer' \in Seq(Honest)
      BY <2>1, ReadHonest
    <2>8. UNCHANGED <<spw, cpw, cformat>> /\ body' \in Inputs \cup {"none"}
      BY <1>4 DEF ServerReadResponse, ServerReads, AuthInv
    <2> QED
      BY <2>6, <2>7, <2>8, MoveStep
  <1>5. CASE ServerAccept \/ ServerInit
    BY <1>5, SameHonest DEF ServerAccept, ServerInit, ServerWrites, AuthInv, Admitted
  <1>6. CASE ServerReadShared
    <2>1. toServer # <<>> /\ toServer' = Rest(toServer, 1)
      BY <1>6 DEF ServerReadShared, ServerReads, Read
    <2>2. spw = "" \/ cpw = spw
      BY <1>6 DEF ServerReadShared, ServerReads, AuthInv, Admitted
    <2>3. toServer' \in Seq(Honest)
      BY <2>1, ReadHonest
    <2>4. UNCHANGED <<spw, cpw, cformat>> /\ body' \in Inputs \cup {"none"}
      BY <1>6 DEF ServerReadShared, ServerReads, AuthInv
    <2> QED
      BY <2>2, <2>3, <2>4, MoveStep
  <1> QED
    BY <1>1, <1>2, <1>3, <1>4, <1>5, <1>6

\* The loop neither asks for a password again nor lets anybody in.
LEMMA LoopStep ==
    ASSUME AuthInv, ServerReadType \/ ServerReadBody \/ ServerUpdate
    PROVE  AuthInv'
  <1>1. spw = "" \/ cpw = spw
    BY DEF AuthInv, Admitted, ServerReadType, ServerReadBody, ServerUpdate, ServerWrites
  <1>2. CASE ServerReadType
    <2>1. toServer # <<>> /\ toServer' = Rest(toServer, 1)
      BY <1>2 DEF ServerReadType, Read
    <2>2. body' \in Inputs
      BY <1>2 DEF ServerReadType
    <2>3. toServer' \in Seq(Honest)
      BY <2>1, ReadHonest
    <2>4. UNCHANGED <<spw, cpw, cformat>>
      BY <1>2 DEF ServerReadType
    <2> QED
      BY <1>1, <2>2, <2>3, <2>4, MoveStep
  <1>3. CASE ServerReadBody
    <2>1. toServer # <<>> /\ Head(toServer).name = body
      BY <1>3 DEF ServerReadBody, Read
    <2>2. toServer \in Seq(Honest)
      BY DEF AuthInv
    <2>3. Head(toServer) \in Honest
      BY <2>1, <2>2
    <2>4. body \in Inputs
      BY <2>1, <2>3 DEF AuthInv, Honest, Plain, Inputs
    <2>5. toServer' \in Seq(Honest)
      BY <1>3, <2>1, <2>4, BodyInt, ReadHonest DEF ServerReadBody
    <2> QED
      BY <1>1, <1>3, <2>5, MoveStep DEF ServerReadBody, AuthInv
  <1>4. CASE ServerUpdate
    BY <1>1, <1>4, SameHonest DEF ServerUpdate, ServerWrites, AuthInv
  <1> QED
    BY <1>2, <1>3, <1>4

\* The client: what it writes says nothing of a password, but its response.
LEMMA ClientStep ==
    ASSUME AuthInv, Client
    PROVE  AuthInv'
  <1>1. CASE \/ ClientReadVersion \/ ClientReadCount \/ ClientReadTypes
             \/ ClientReadChallenge \/ ClientReadResult \/ ClientReadReason
             \/ ClientReadSize \/ ClientReadFormat \/ ClientReadName
    BY <1>1, SameHonest
       DEF ClientReadVersion, ClientReadCount, ClientReadTypes, ClientReadChallenge,
           ClientReadResult, ClientReadReason, ClientReadSize, ClientReadFormat,
           ClientReadName, ClientReads, AuthInv
  <1>2. CASE ClientSendVersion
    <2>1. <<Message("version", 12, "")>> \in Seq(Honest)
      BY DEF Message, Honest, Plain
    <2> QED
      BY <1>2, <2>1, WriteStep DEF ClientSendVersion, ClientWrites
  <1>3. CASE ClientSelectNone
    <2>1. <<Message("select", 1, "none")>> \in Seq(Honest)
      BY DEF Message, Honest, Plain
    <2> QED
      BY <1>3, <2>1, WriteStep DEF ClientSelectNone, ClientWrites
  <1>4. CASE ClientSelectVnc
    <2>1. <<Message("select", 1, "vnc")>> \in Seq(Honest)
      BY DEF Message, Honest, Plain
    <2> QED
      BY <1>4, <2>1, WriteStep DEF ClientSelectVnc, ClientWrites
  <1>5. CASE ClientShared
    <2>1. <<Message("shared", 1, "")>> \in Seq(Honest)
      BY DEF Message, Honest, Plain
    <2> QED
      BY <1>5, <2>1, WriteStep DEF ClientShared, ClientWrites
  <1>6. CASE ClientRespond
    <2>1. <<Message("response", 16, cpw)>> \in Seq(Honest)
      BY DEF Message, Honest
    <2> QED
      BY <1>6, <2>1, WriteStep DEF ClientRespond, ClientWrites
  <1>7. CASE ClientConfigure
    <2>1. Message("pixelFormat", 1 + 3 + 16, cformat) \in Honest
      <3>1. cformat \in {"", "none", "vnc"} \cup Format
        BY DEF AuthInv
      <3>2. "pixelFormat" \in Plain /\ 1 + 3 + 16 \in Int
        BY DEF Plain, Inputs
      <3> QED
        BY <3>1, <3>2, PlainHonest, Zenon
    <2>2. Message("encodings", 4 + 2 * 4, "") \in Honest
      BY DEF Message, Honest, Plain, Inputs
    <2> DEFINE messages == <<Message("pixelFormat", 1 + 3 + 16, cformat),
                             Message("encodings", 4 + 2 * 4, "")>>
    <2>3. messages \in Seq(Honest)
      <3> DEFINE format == Message("pixelFormat", 1 + 3 + 16, cformat)
                 encodings == Message("encodings", 4 + 2 * 4, "")
      <3>1. format \in Honest /\ encodings \in Honest
        BY <2>1, <2>2
      <3> HIDE DEF format, encodings
      <3>2. <<format, encodings>> \in Seq(Honest)
        BY <3>1
      <3> QED
        BY <3>2 DEF format, encodings
    <2>4. /\ toServer' = toServer \o messages
          /\ UNCHANGED <<spw, cpw, spc, body, cformat>>
      BY <1>7 DEF ClientConfigure, ClientWrites
    <2> HIDE DEF messages
    <2> QED
      BY <2>3, <2>4, WriteStep
  <1>8. CASE ClientRun
    BY <1>8, SameHonest DEF ClientRun, RunReads, AuthInv
  <1>9. ASSUME NEW name \in DOMAIN SentSize, ClientSend(name)
        PROVE  AuthInv'
    <2>1. name \in Inputs
      BY DEF SentSize, Inputs
    <2>2. SentSize[name] \in Int
      BY TextInt DEF SentSize
    <2>3. <<Message(name, SentSize[name], "")>> \in Seq(Honest)
      <3> DEFINE size == SentSize[name]
                 message == Message(name, SentSize[name], "")
      <3>1. name \in Plain /\ size \in Int /\ "" \in {"", "none", "vnc"} \cup Format
        BY <2>1, <2>2 DEF Plain
      <3>2. message \in Honest
        BY <3>1, PlainHonest, Zenon
      <3> HIDE DEF message
      <3>3. <<message>> \in Seq(Honest)
        BY <3>2
      <3> QED
        BY <3>3 DEF message
    <2> QED
      BY <1>9, <2>3, WriteStep DEF ClientSend, ClientWrites
  <1> QED
    BY <1>1, <1>2, <1>3, <1>4, <1>5, <1>6, <1>7, <1>8, <1>9 DEF Client, ClientHandshake

LEMMA AuthStep == AuthInv /\ [Next]_vars => AuthInv'
  <1> SUFFICES ASSUME AuthInv, [Next]_vars
               PROVE  AuthInv'
    OBVIOUS
  <1>1. CASE Server
    BY <1>1, HandshakeStep, LoopStep DEF Server
  <1>2. CASE Client
    BY <1>2, ClientStep
  <1>3. CASE Break \/ ServerFails \/ ClientFails
    BY <1>3, SameHonest DEF Break, ServerFails, ClientFails, AuthInv, Admitted
  <1>4. CASE UNCHANGED vars
    BY <1>4, SameHonest DEF vars, AuthInv
  <1> QED
    BY <1>1, <1>2, <1>3, <1>4 DEF Next

\* Whichever of the two types a viewer selects, whichever password it answers with
\* and wherever the stream breaks: it does not get past the handshake without the
\* password that the server asks for.
THEOREM AuthenticatedTheorem == FairSpec => []Authenticated
  <1>1. Init => AuthInv
    BY DEF Init, AuthInv, Admitted
  <1>2. AuthInv => Authenticated
    BY DEF AuthInv, Authenticated, Admitted
  <1> QED
    BY <1>1, <1>2, AuthStep, PTL DEF FairSpec
-----------------------------------------------------------------------------
(* Both sides agree where each message begins *)

\* The bytes of a message; those of the pixels depend on the viewer's format.
Whole(name, format) ==
    CASE name = "version" -> 12 [] name = "types" -> 2 [] name = "challenge" -> 16
      [] name = "result" -> 4 [] name = "reason" -> 25 [] name = "size" -> 4
      [] name = "format" -> 16 [] name = "name" -> 4 + NameLen
      [] name = "update" -> 4 [] name = "rect" -> 12
      [] name = "pixels" -> Area * bytesPerPixel(FormatOf(format))
      [] name = "select" -> 1 [] name = "response" -> 16 [] name = "shared" -> 1
      [] name = "pixelFormat" -> 20 [] name = "encodings" -> 12
      [] name = "request" -> 10 [] name = "pointer" -> 6 [] name = "key" -> 8
      [] name = "cutText" -> 8 + TextLen

\* The messages that may come in any order count as one kind.
Kind(m) == IF m.name \in {"request", "pointer", "key", "cutText"} THEN "input" ELSE m.name

\* What follows a message, of the server or of the client.
After(from, m) ==
    CASE m.name = "version" -> IF from = "server" THEN "types" ELSE "select"
      [] m.name = "types" -> IF m.value = "none" THEN "result" ELSE "challenge"
      [] m.name = "challenge" -> "result"
      [] m.name = "result" -> IF m.value = "ok" THEN "size" ELSE "reason"
      [] m.name = "size" -> "format"
      [] m.name = "format" -> "name"
      [] m.name \in {"name", "pixels"} -> "update"
      [] m.name = "update" -> "rect"
      [] m.name = "rect" -> "pixels"
      [] m.name = "select" -> IF m.value = "none" THEN "shared" ELSE "response"
      [] m.name = "response" -> "shared"
      [] m.name = "shared" -> "pixelFormat"
      [] m.name = "pixelFormat" -> "encodings"
      [] OTHER -> "input"

IsSeq(q) == \E S : q \in Seq(S)

\* Messages of one side on their way: the first is of kind first, each is what
\* follows the one before it, and the next to be sent is of kind due.
Order(from, q, first, due) ==
    /\ IsSeq(q)
    /\ \A i \in 1..Len(q) : Kind(q[i]) = IF i = 1 THEN first ELSE After(from, q[i - 1])
    /\ due = IF Len(q) = 0 THEN first ELSE After(from, q[Len(q)])

\* What a message says that the other side relies on later.
Means(m, offer, format) ==
    /\ m = Message(m.name, m.left, m.value) /\ m.name # "input"
    /\ m.name = "types" => m.value = offer
    /\ m.name = "select" /\ offer = "none" => m.value = "none"
    /\ m.name = "pixelFormat" => m.value = format
    /\ m.name = "pixels" => \E colour \in Colour :
          m.value = [pixel |-> encode(FormatOf(format), colour), colour |-> colour]

\* Messages are there to the byte, but for what was read of the first.
Sound(q, read, offer, format) ==
    /\ read > 0 => Len(q) > 0
    /\ \A i \in 1..Len(q) :
          /\ Means(q[i], offer, format)
          /\ q[i].left = IF i = 1 /\ read > 0 THEN Whole(q[i].name, format) - read
                         ELSE Whole(q[i].name, format)

\* The three things that happen to a queue.
LEMMA TailOf ==
    ASSUME NEW q, IsSeq(q), q # <<>>
    PROVE  /\ IsSeq(Tail(q)) /\ Head(q) = q[1]
           /\ Len(q) \in Nat \ {0} /\ Len(Tail(q)) = Len(q) - 1
           /\ \A i \in 1..Len(Tail(q)) : Tail(q)[i] = q[i + 1]
  <1>1. PICK S : q \in Seq(S)
    BY DEF IsSeq
  <1>2. Tail(q) \in Seq(S)
    BY <1>1
  <1> QED
    BY <1>1, <1>2 DEF IsSeq

LEMMA AppendOf ==
    ASSUME NEW q, IsSeq(q), NEW m
    PROVE  /\ IsSeq(Append(q, m))
           /\ Len(q) \in Nat /\ Len(Append(q, m)) = Len(q) + 1
           /\ \A i \in 1..Len(q) : Append(q, m)[i] = q[i]
           /\ Append(q, m)[Len(q) + 1] = m
  <1>1. PICK S : q \in Seq(S)
    BY DEF IsSeq
  <1> DEFINE T == S \cup {m}
  <1>2. q \in Seq(T) /\ m \in T
    <2>1. \A i \in 1..Len(q) : q[i] \in T
      BY <1>1
    <2>2. q = [i \in 1..Len(q) |-> q[i]] /\ Len(q) \in Nat
      BY <1>1
    <2> QED
      BY <2>1, <2>2
  <1> HIDE DEF T
  <1>3. Append(q, m) \in Seq(T)
    BY <1>2
  <1> QED
    BY <1>2, <1>3 DEF IsSeq

LEMMA PartOf ==
    ASSUME NEW q, IsSeq(q), q # <<>>, NEW m
    PROVE  LET r == <<m>> \o Tail(q) IN
           /\ IsSeq(r) /\ Len(r) = Len(q) /\ r[1] = m
           /\ Len(q) \in Nat \ {0}
           /\ \A i \in 2..Len(q) : r[i] = q[i]
  <1>1. PICK S : q \in Seq(S)
    BY DEF IsSeq
  <1> DEFINE T == S \cup {m}
  <1>2. Tail(q) \in Seq(T) /\ <<m>> \in Seq(T)
    <2>1. q \in Seq(T)
      <3>1. \A i \in 1..Len(q) : q[i] \in T
        BY <1>1
      <3>2. q = [i \in 1..Len(q) |-> q[i]] /\ Len(q) \in Nat
        BY <1>1
      <3> QED
        BY <3>1, <3>2
    <2> HIDE DEF T
    <2>2. m \in T
      BY DEF T
    <2> QED
      BY <2>1, <2>2
  <1> HIDE DEF T
  <1>3. <<m>> \o Tail(q) \in Seq(T)
    BY <1>2
  <1>4. Len(Tail(q)) = Len(q) - 1 /\ Len(q) \in Nat \ {0}
    BY <1>1
  <1>5. \A i \in 1..Len(Tail(q)) : Tail(q)[i] = q[i + 1]
    BY <1>1
  <1>6. /\ Len(<<m>> \o Tail(q)) = Len(q) /\ (<<m>> \o Tail(q))[1] = m
        /\ \A i \in 2..Len(q) : (<<m>> \o Tail(q))[i] = Tail(q)[i - 1]
    BY <1>2, <1>4
  <1> QED
    BY <1>3, <1>4, <1>5, <1>6 DEF IsSeq

\* The first is taken off,
LEMMA OrderTail ==
    ASSUME NEW from, NEW q, NEW first, NEW due, Order(from, q, first, due), q # <<>>
    PROVE  Kind(Head(q)) = first /\ Order(from, Tail(q), After(from, Head(q)), due)
  <1>1. /\ IsSeq(Tail(q)) /\ Head(q) = q[1]
        /\ Len(q) \in Nat \ {0} /\ Len(Tail(q)) = Len(q) - 1
        /\ \A i \in 1..Len(Tail(q)) : Tail(q)[i] = q[i + 1]
    BY TailOf DEF Order
  <1> QED
    BY <1>1 DEF Order

LEMMA SoundTail ==
    ASSUME NEW q, NEW read, NEW offer, NEW format, Sound(q, read, offer, format),
           IsSeq(q), q # <<>>
    PROVE  /\ Means(Head(q), offer, format)
           /\ Head(q).left = IF read > 0 THEN Whole(Head(q).name, format) - read
                             ELSE Whole(Head(q).name, format)
           /\ Sound(Tail(q), 0, offer, format)
  <1>1. /\ Head(q) = q[1]
        /\ Len(q) \in Nat \ {0} /\ Len(Tail(q)) = Len(q) - 1
        /\ \A i \in 1..Len(Tail(q)) : Tail(q)[i] = q[i + 1]
    BY TailOf
  <1>2. \A i \in 1..Len(Tail(q)) : /\ Means(Tail(q)[i], offer, format)
                                   /\ Tail(q)[i].left = Whole(Tail(q)[i].name, format)
    BY <1>1 DEF Sound
  <1>3. /\ Means(q[1], offer, format)
        /\ q[1].left = IF read > 0 THEN Whole(q[1].name, format) - read
                       ELSE Whole(q[1].name, format)
    BY <1>1 DEF Sound
  <1> QED
    BY <1>1, <1>2, <1>3 DEF Sound

\* one more is sent,
LEMMA OrderAppend ==
    ASSUME NEW from, NEW q, NEW first, NEW due, Order(from, q, first, due),
           NEW m, Kind(m) = due
    PROVE  Order(from, Append(q, m), first, After(from, m))
  <1>1. /\ IsSeq(Append(q, m))
        /\ Len(q) \in Nat /\ Len(Append(q, m)) = Len(q) + 1
        /\ \A i \in 1..Len(q) : Append(q, m)[i] = q[i]
        /\ Append(q, m)[Len(q) + 1] = m
    BY AppendOf DEF Order
  <1> DEFINE r == Append(q, m)
  <1> HIDE DEF r
  <1>2. ASSUME NEW i \in 1..Len(r)
        PROVE  Kind(r[i]) = IF i = 1 THEN first ELSE After(from, r[i - 1])
    <2>1. CASE i \in 1..Len(q)
      <3>1. r[i] = q[i] /\ (i # 1 => r[i - 1] = q[i - 1])
        BY <1>1, <2>1 DEF r
      <3> QED
        BY <2>1, <3>1 DEF Order
    <2>2. CASE i = Len(q) + 1
      <3>1. r[i] = m /\ (i # 1 => r[i - 1] = q[Len(q)])
        BY <1>1, <2>2 DEF r
      <3> QED
        BY <1>1, <2>2, <3>1 DEF Order
    <2> QED
      BY <1>1, <2>1, <2>2 DEF r
  <1>3. Len(r) # 0 /\ r[Len(r)] = m
    BY <1>1 DEF r
  <1> QED
    BY <1>1, <1>2, <1>3 DEF Order, r

LEMMA SoundAppend ==
    ASSUME NEW q, NEW read, NEW offer, NEW format, Sound(q, read, offer, format),
           IsSeq(q), NEW m, Means(m, offer, format), m.left = Whole(m.name, format)
    PROVE  Sound(Append(q, m), read, offer, format)
  <1>1. /\ Len(q) \in Nat /\ Len(Append(q, m)) = Len(q) + 1
        /\ \A i \in 1..Len(q) : Append(q, m)[i] = q[i]
        /\ Append(q, m)[Len(q) + 1] = m
    BY AppendOf
  <1> DEFINE r == Append(q, m)
  <1> HIDE DEF r
  <1>2. ASSUME NEW i \in 1..Len(r)
        PROVE  /\ Means(r[i], offer, format)
               /\ r[i].left = IF i = 1 /\ read > 0 THEN Whole(r[i].name, format) - read
                              ELSE Whole(r[i].name, format)
    <2>1. CASE i \in 1..Len(q)
      BY <1>1, <2>1 DEF r, Sound
    <2>2. CASE i = Len(q) + 1
      <3>1. r[i] = m /\ ~(i = 1 /\ read > 0)
        BY <1>1, <2>2 DEF r, Sound
      <3> QED
        BY <3>1
    <2> QED
      BY <1>1, <2>1, <2>2 DEF r
  <1>3. read > 0 => Len(r) > 0
    BY <1>1 DEF r
  <1> QED
    BY <1>2, <1>3 DEF Sound, r

\* or a byte of the first is read, which stays the message it was.
LEMMA BytePart ==
    ASSUME NEW from, NEW q, NEW first, NEW due, NEW offer, NEW format,
           Order(from, q, first, due), Sound(q, 0, offer, format), q # <<>>,
           Head(q).left # 1
    PROVE  /\ Order(from, Rest(q, 1), first, due)
           /\ Sound(Rest(q, 1), 1, offer, format)
           /\ Rest(q, 1) # <<>> /\ Head(Rest(q, 1)).name = Head(q).name
  <1> DEFINE m == [Head(q) EXCEPT !.left = @ - 1]
             r == <<m>> \o Tail(q)
  <1>1. Rest(q, 1) = r
    BY DEF Rest
  <1>2. /\ Means(Head(q), offer, format)
        /\ Head(q).left = Whole(Head(q).name, format)
    BY SoundTail DEF Order
  <1>3. Head(q) = Message(Head(q).name, Head(q).left, Head(q).value)
    BY <1>2 DEF Means
  <1>4. /\ m.name = Head(q).name /\ m.value = Head(q).value
        /\ m.left = Head(q).left - 1 /\ m = Message(m.name, m.left, m.value)
    BY <1>3 DEF Message
  <1> HIDE DEF m
  <1>5. /\ IsSeq(r) /\ Len(r) = Len(q) /\ r[1] = m
        /\ Len(q) \in Nat \ {0}
        /\ \A i \in 2..Len(q) : r[i] = q[i]
    BY PartOf DEF Order
  <1>6. Head(q) = q[1]
    BY TailOf DEF Order
  <1> HIDE DEF r
  <1>7. Kind(m) = Kind(q[1]) /\ After(from, m) = After(from, q[1])
    BY <1>4, <1>6 DEF Kind, After
  <1>8. \A i \in 1..Len(r) : Kind(r[i]) = Kind(q[i]) /\ After(from, r[i]) = After(from, q[i])
    BY <1>5, <1>7
  <1>9. Order(from, r, first, due)
    BY <1>5, <1>8 DEF Order
  <1>10. Means(m, offer, format) /\ m.left = Whole(m.name, format) - 1
    BY <1>2, <1>4 DEF Means
  <1>11. Sound(r, 1, offer, format)
    BY <1>5, <1>10 DEF Sound
  <1>12. r # <<>> /\ Head(r) = r[1]
    <2>1. r # <<>>
      BY <1>5
    <2> QED
      BY <1>5, <2>1, TailOf
  <1> QED
    BY <1>1, <1>4, <1>5, <1>9, <1>11, <1>12

\* Several messages are sent like one after the other.
LEMMA AppendTwo ==
    ASSUME NEW q, IsSeq(q), NEW a, NEW b
    PROVE  q \o <<a, b>> = Append(Append(q, a), b)
  BY DEF IsSeq

LEMMA AppendThree ==
    ASSUME NEW q, IsSeq(q), NEW a, NEW b, NEW c
    PROVE  q \o <<a, b, c>> = Append(Append(Append(q, a), b), c)
  BY DEF IsSeq

LEMMA AppendSingle ==
    ASSUME NEW q, IsSeq(q), NEW a
    PROVE  q \o <<a>> = Append(q, a)
  BY DEF IsSeq

-----------------------------------------------------------------------------
\* By the place a side is at: what the server sends next,
ServerDue ==
    CASE spc = "sendVersion" -> "version"
      [] spc \in {"version", "offer"} -> "types"
      [] spc = "select" -> IF Offer = "none" THEN "result" ELSE "challenge"
      [] spc = "challenge" -> "challenge"
      [] spc \in {"response", "accept", "refuse"} -> "result"
      [] spc \in {"shared", "init"} -> "size"
      [] OTHER -> "update"

\* what it reads next: in the loop it may be any of three;
ServerWants ==
    CASE spc \in {"sendVersion", "version"} -> {"version"}
      [] spc \in {"offer", "select"} -> {"select"}
      [] spc \in {"challenge", "response"} -> {"response"}
      [] spc \in {"accept", "refuse", "shared"} -> {"shared"}
      [] spc = "init" -> {"pixelFormat"}
      [] OTHER -> {"pixelFormat", "encodings", "input"}

\* what the client sends next,
ClientDue ==
    CASE cpc \in {"version", "sendVersion"} -> "version"
      [] cpc \in {"count", "types", "selectNone", "selectVnc"} -> "select"
      [] cpc \in {"challenge", "response"} -> "response"
      [] cpc \in {"result", "reason", "shared"} -> "shared"
      [] cpc \in {"size", "format", "name", "configure"} -> "pixelFormat"
      [] OTHER -> "input"

\* and what it reads next.
ClientWants ==
    CASE cpc = "version" -> "version"
      [] cpc \in {"sendVersion", "count", "types"} -> "types"
      [] cpc = "selectNone" -> IF Offer = "none" THEN "result" ELSE "challenge"
      [] cpc \in {"selectVnc", "challenge"} -> "challenge"
      [] cpc \in {"response", "result"} -> "result"
      [] cpc = "reason" -> "reason"
      [] cpc \in {"shared", "size"} -> "size"
      [] cpc = "format" -> "format"
      [] cpc = "name" -> "name"
      [] cpc = "configure" -> "update"
      [] OTHER -> rpc

\* A viewer that selected None where VNC authentication is offered waits for a
\* result that never comes: what the server does next is to fail.
Refused ==
    /\ Offer = "vnc" /\ spc = "select" /\ cpc = "result" /\ toClient = <<>>
    /\ toServer # <<>> /\ Head(toServer).value = "none"

\* A side that has failed neither reads nor sends any more.
ToClient ==
    cpc # "failed" =>
       /\ Sound(toClient, IF cpc = "types" THEN 1 ELSE 0, Offer, cformat)
       /\ \E due : /\ Order("server", toClient, ClientWants, due)
                   /\ spc # "failed" => due = ServerDue \/ Refused

Looping == spc \in {"loop", "body", "update"}

\* No update is sent before the viewer's format is known.
ToServer ==
    spc # "failed" =>
       /\ Sound(toServer, IF spc = "body" THEN 1 ELSE 0, Offer, cformat)
       /\ spc = "body" => Head(toServer).name = body
       /\ \E first, due :
             /\ first \in ServerWants
             /\ Order("client", toServer, first, due)
             /\ cpc # "failed" => due = ClientDue
             /\ Looping /\ pf # FormatOf(cformat) => first = "pixelFormat" /\ spc # "update"

Places ==
    /\ Offer \in {"none", "vnc"}
    /\ cpc = "selectVnc" => Offer = "vnc"
    /\ cpc \notin {"ready", "failed"} => rpc = "update"
    /\ rpc \in {"update", "rect", "pixels"}

FramedInv == ToClient /\ ToServer /\ Places

\* Until a type is selected nothing but versions and the offer was sent, so a
\* viewer that selects None finds nothing it could take for an answer to it.
Choosing == {"version", "sendVersion", "count", "types", "selectNone", "selectVnc"}

Opening ==
    /\ cpc \in {"version", "sendVersion"} => toServer = <<>>
    /\ cpc \in Choosing => \A i \in 1..Len(toServer) : toServer[i].name = "version"
    /\ cpc \in {"version", "sendVersion", "count", "types"} =>
          \A i \in 1..Len(toClient) : toClient[i].name \in {"version", "types"}
    /\ cpc = "selectNone" /\ Offer = "vnc" => toClient = <<>>

\* The steps that leave a queue alone, and where a side was on it,
LEMMA KeepToClient ==
    ASSUME ToClient, UNCHANGED <<toClient, spw, cformat>>,
           \/ cpc' = "failed"
           \/ /\ cpc # "failed" /\ ClientWants' = ClientWants
              /\ (cpc' = "types") = (cpc = "types"),
           \/ spc' = "failed"
           \/ spc # "failed" /\ ServerDue' = ServerDue /\ ~Refused
    PROVE  ToClient'
  BY DEF ToClient, Offer

LEMMA KeepToServer ==
    ASSUME ToServer, UNCHANGED <<toServer, spw, cformat, body, pf>>,
           \/ spc' = "failed"
           \/ /\ spc # "failed" /\ ServerWants \subseteq ServerWants'
              /\ (spc' = "body") = (spc = "body")
              /\ (Looping' => Looping) \/ ServerWants = {"pixelFormat"}
              /\ spc' # "update" \/ spc = "update",
           \/ cpc' = "failed"
           \/ cpc # "failed" /\ ClientDue' = ClientDue
    PROVE  ToServer'
  <1> SUFFICES ASSUME spc' # "failed" PROVE ToServer'
    BY DEF ToServer
  <1>1. PICK first, due :
           /\ first \in ServerWants
           /\ Order("client", toServer, first, due)
           /\ cpc # "failed" => due = ClientDue
           /\ Looping /\ pf # FormatOf(cformat) => first = "pixelFormat" /\ spc # "update"
    BY DEF ToServer
  <1>2. first \in ServerWants' /\ Offer' = Offer
    BY <1>1 DEF Offer
  <1>3. cpc' # "failed" => due = ClientDue'
    BY <1>1
  <1>4. (spc' = "body") = (spc = "body") /\ (spc' # "update" \/ spc = "update")
    OBVIOUS
  <1>5. Looping' /\ pf' # FormatOf(cformat') => first = "pixelFormat" /\ spc' # "update"
    <2>1. CASE Looping
      BY <1>1, <1>4, <2>1
    <2>2. CASE ~Looping
      BY <1>1, <1>4, <2>2 DEF Looping
    <2> QED
      BY <2>1, <2>2
  <1>6. /\ Sound(toServer, IF spc' = "body" THEN 1 ELSE 0, Offer, cformat)
        /\ spc' = "body" => Head(toServer).name = body
    BY <1>4 DEF ToServer
  <1> QED
    BY <1>1, <1>2, <1>3, <1>5, <1>6 DEF ToServer

\* those that take the first message,
LEMMA TakeToClient ==
    ASSUME ToClient, cpc # "failed", toClient # <<>>, toClient' = Tail(toClient),
           UNCHANGED <<spc, spw, cformat>>,
           \/ cpc' = "failed"
           \/ ClientWants' = After("server", Head(toClient)) /\ cpc' # "types"
    PROVE  ToClient'
  <1> SUFFICES ASSUME cpc' # "failed" PROVE ToClient'
    BY DEF ToClient
  <1>1. PICK due : /\ Order("server", toClient, ClientWants, due)
                   /\ spc # "failed" => due = ServerDue
    BY DEF ToClient, Refused
  <1>2. Order("server", Tail(toClient), After("server", Head(toClient)), due)
    BY <1>1, OrderTail
  <1>3. Sound(Tail(toClient), 0, Offer, cformat)
    BY <1>1, SoundTail DEF ToClient, Order
  <1>4. Offer' = Offer /\ ServerDue' = ServerDue
    BY DEF Offer, ServerDue
  <1> QED
    BY <1>1, <1>2, <1>3, <1>4 DEF ToClient

LEMMA TakeToServer ==
    ASSUME ToServer, spc # "failed", toServer # <<>>, toServer' = Tail(toServer),
           UNCHANGED <<cpc, spw, cformat>>,
           \/ spc' = "failed"
           \/ /\ After("client", Head(toServer)) \in ServerWants'
              /\ spc' # "body"
              /\ Looping' => pf' = FormatOf(cformat)
    PROVE  ToServer'
  <1> SUFFICES ASSUME spc' # "failed" PROVE ToServer'
    BY DEF ToServer
  <1>1. PICK first, due :
           /\ first \in ServerWants
           /\ Order("client", toServer, first, due)
           /\ cpc # "failed" => due = ClientDue
    BY DEF ToServer
  <1>2. Order("client", Tail(toServer), After("client", Head(toServer)), due)
    BY <1>1, OrderTail
  <1>3. Sound(Tail(toServer), 0, Offer, cformat)
    BY <1>1, SoundTail DEF ToServer, Order
  <1>4. Offer' = Offer /\ ClientDue' = ClientDue
    BY DEF Offer, ClientDue
  <1> QED
    BY <1>1, <1>2, <1>3, <1>4 DEF ToServer

\* and those that send one.
LEMMA PutToClient ==
    ASSUME ToClient, spc \notin {"failed", "select"}, NEW m,
           Kind(m) = ServerDue, Means(m, Offer, cformat), m.left = Whole(m.name, cformat),
           toClient' = toClient \o <<m>>, UNCHANGED <<cpc, rpc, spw, cformat>>,
           spc' = "failed" \/ ServerDue' = After("server", m)
    PROVE  ToClient'
  <1> SUFFICES ASSUME cpc # "failed" PROVE ToClient'
    BY DEF ToClient
  <1>1. Order("server", toClient, ClientWants, ServerDue)
    BY DEF ToClient, Refused
  <1>2. toClient' = Append(toClient, m)
    BY <1>1, AppendSingle DEF Order
  <1>3. Order("server", toClient', ClientWants, After("server", m))
    BY <1>1, <1>2, OrderAppend
  <1>4. Sound(toClient', IF cpc = "types" THEN 1 ELSE 0, Offer, cformat)
    BY <1>1, <1>2, SoundAppend DEF ToClient, Order
  <1>5. Offer' = Offer /\ ClientWants' = ClientWants
    BY DEF Offer, ClientWants
  <1> QED
    BY <1>3, <1>4, <1>5 DEF ToClient

LEMMA PutToServer ==
    ASSUME ToServer, cpc # "failed", NEW m,
           Kind(m) = ClientDue, Means(m, Offer, cformat), m.left = Whole(m.name, cformat),
           toServer' = toServer \o <<m>>, UNCHANGED <<spc, body, pf, spw, cformat>>,
           cpc' = "failed" \/ ClientDue' = After("client", m)
    PROVE  ToServer'
  <1> SUFFICES ASSUME spc # "failed" PROVE ToServer'
    BY DEF ToServer
  <1>1. PICK first \in ServerWants :
           /\ Order("client", toServer, first, ClientDue)
           /\ Looping /\ pf # FormatOf(cformat) => first = "pixelFormat" /\ spc # "update"
    BY DEF ToServer
  <1>2. toServer' = Append(toServer, m)
    BY <1>1, AppendSingle DEF Order
  <1>3. Order("client", toServer', first, After("client", m))
    BY <1>1, <1>2, OrderAppend
  <1>4. Sound(toServer', IF spc = "body" THEN 1 ELSE 0, Offer, cformat)
    BY <1>1, <1>2, SoundAppend DEF ToServer, Order
  <1>5. Offer' = Offer /\ ServerWants' = ServerWants /\ Looping' = Looping
    BY DEF Offer, ServerWants, Looping
  <1>6. spc = "body" => Head(toServer').name = body
    <2> SUFFICES ASSUME spc = "body" PROVE Head(toServer').name = body
      OBVIOUS
    <2>1. Len(toServer) > 0 /\ IsSeq(toServer)
      BY <1>1 DEF ToServer, Sound, Order
    <2>2. Head(Append(toServer, m)) = Head(toServer)
      BY <2>1 DEF IsSeq
    <2> QED
      BY <1>2, <2>2 DEF ToServer
  <1> QED
    BY <1>1, <1>3, <1>4, <1>5, <1>6 DEF ToServer

\* What a side finds when it begins to read, and when it goes on.
LEMMA ServerFinds ==
    ASSUME ToServer, spc # "failed", toServer # <<>>
    PROVE  /\ Kind(Head(toServer)) \in ServerWants
           /\ Means(Head(toServer), Offer, cformat)
           /\ Head(toServer).left = IF spc = "body"
                                    THEN Whole(Head(toServer).name, cformat) - 1
                                    ELSE Whole(Head(toServer).name, cformat)
  <1>1. PICK first, due : first \in ServerWants /\ Order("client", toServer, first, due)
    BY DEF ToServer
  <1>2. Kind(Head(toServer)) = first
    BY <1>1, OrderTail
  <1>3. Sound(toServer, IF spc = "body" THEN 1 ELSE 0, Offer, cformat)
    BY DEF ToServer
  <1>4. IsSeq(toServer)
    BY <1>1 DEF Order
  <1>5. CASE spc = "body"
    BY <1>1, <1>2, <1>3, <1>4, <1>5, SoundTail
  <1>6. CASE spc # "body"
    BY <1>1, <1>2, <1>3, <1>4, <1>6, SoundTail
  <1> QED
    BY <1>5, <1>6

LEMMA ClientFinds ==
    ASSUME ToClient, cpc # "failed", toClient # <<>>
    PROVE  /\ Kind(Head(toClient)) = ClientWants
           /\ Means(Head(toClient), Offer, cformat)
           /\ Head(toClient).left = IF cpc = "types"
                                    THEN Whole(Head(toClient).name, cformat) - 1
                                    ELSE Whole(Head(toClient).name, cformat)
  <1>1. PICK due : Order("server", toClient, ClientWants, due)
    BY DEF ToClient
  <1>2. Kind(Head(toClient)) = ClientWants
    BY <1>1, OrderTail
  <1>3. Sound(toClient, IF cpc = "types" THEN 1 ELSE 0, Offer, cformat)
    BY DEF ToClient
  <1>4. IsSeq(toClient)
    BY <1>1 DEF Order
  <1>5. CASE cpc = "types"
    BY <1>2, <1>3, <1>4, <1>5, SoundTail
  <1>6. CASE cpc # "types"
    BY <1>2, <1>3, <1>4, <1>6, SoundTail
  <1> QED
    BY <1>5, <1>6

-----------------------------------------------------------------------------
\* The server's reads of the handshake.
LEMMA ServerReadsStep ==
    ASSUME FramedInv,
           ServerReadVersion \/ ServerReadSelect \/ ServerReadResponse \/ ServerReadShared
    PROVE  FramedInv'
  <1>1. Places'
    BY DEF ServerReadVersion, ServerReadSelect, ServerReadResponse, ServerReadShared,
           ServerReads, FramedInv, Places, Offer
  <1>2. toServer # <<>> /\ spc \notin {"failed", "body"} /\ ~Looping
    BY DEF ServerReadVersion, ServerReadSelect, ServerReadResponse, ServerReadShared,
           ServerReads, Read, Looping
  <1>3. /\ Means(Head(toServer), Offer, cformat)
        /\ Head(toServer).left = Whole(Head(toServer).name, cformat)
    BY <1>2, ServerFinds DEF FramedInv
  <1>4. UNCHANGED <<conn, toClient, spw, cpw, cpc, body, pf, cformat, rpc>>
    BY DEF ServerReadVersion, ServerReadSelect, ServerReadResponse, ServerReadShared,
           ServerReads
  <1>5. CASE ServerReadVersion
    <2>1. Head(toServer).name = "version" /\ spc = "version" /\ spc' = "offer"
      BY <1>5 DEF ServerReadVersion, ServerReads, Read
    <2>2. toServer' = Tail(toServer)
      BY <1>3, <1>5, <2>1 DEF ServerReadVersion, ServerReads, Rest, Whole
    <2>3. ToServer'
      BY <1>2, <1>4, <2>1, <2>2, TakeToServer DEF FramedInv, After, ServerWants, Looping
    <2>4. ToClient'
      BY <1>4, <2>1, KeepToClient DEF FramedInv, ClientWants, ServerDue, Offer, Refused
    <2> QED
      BY <1>1, <2>3, <2>4 DEF FramedInv
  <1>6. CASE ServerReadSelect
    <2>1. /\ Head(toServer).name = "select" /\ spc = "select"
          /\ \/ spc' = "accept" /\ Offer = "none"
             \/ spc' = "challenge" /\ Offer = "vnc" /\ Head(toServer).value = "vnc"
             \/ spc' = "failed"
      BY <1>6 DEF ServerReadSelect, ServerReads, AfterSelect, Read, FramedInv, Places
    <2>2. toServer' = Tail(toServer)
      BY <1>3, <1>6, <2>1 DEF ServerReadSelect, ServerReads, Rest, Whole
    <2>3. Offer = "none" => Head(toServer).value = "none"
      BY <1>3, <2>1 DEF Means
    <2>4. ToServer'
      BY <1>2, <1>4, <2>1, <2>2, <2>3, TakeToServer
         DEF FramedInv, After, ServerWants, Looping
    <2>5. Offer' = Offer
      BY <1>4 DEF Offer
    <2>6. spc' = "failed" \/ (ServerDue' = ServerDue /\ ~Refused)
      BY <2>1, <2>5 DEF ServerDue, Refused
    <2>7. ToClient'
      BY <1>4, <2>1, <2>5, <2>6, KeepToClient DEF FramedInv, ClientWants
    <2> QED
      BY <1>1, <2>4, <2>7 DEF FramedInv
  <1>7. CASE ServerReadResponse
    <2>1. /\ Head(toServer).name = "response" /\ spc = "response"
          /\ spc' \in {"accept", "refuse"}
      BY <1>7 DEF ServerReadResponse, ServerReads, Read
    <2>2. toServer' = Tail(toServer)
      BY <1>3, <1>7, <2>1 DEF ServerReadResponse, ServerReads, Rest, Whole
    <2>3. ToServer'
      BY <1>2, <1>4, <2>1, <2>2, TakeToServer DEF FramedInv, After, ServerWants, Looping
    <2>4. ToClient'
      BY <1>4, <2>1, KeepToClient DEF FramedInv, ClientWants, ServerDue, Offer, Refused
    <2> QED
      BY <1>1, <2>3, <2>4 DEF FramedInv
  <1>8. CASE ServerReadShared
    <2>1. Head(toServer).name = "shared" /\ spc = "shared" /\ spc' = "init"
      BY <1>8 DEF ServerReadShared, ServerReads, Read
    <2>2. toServer' = Tail(toServer)
      BY <1>3, <1>8, <2>1 DEF ServerReadShared, ServerReads, Rest, Whole
    <2>3. ToServer'
      BY <1>2, <1>4, <2>1, <2>2, TakeToServer DEF FramedInv, After, ServerWants, Looping
    <2>4. ToClient'
      BY <1>4, <2>1, KeepToClient DEF FramedInv, ClientWants, ServerDue, Offer, Refused
    <2> QED
      BY <1>1, <2>3, <2>4 DEF FramedInv
  <1> QED
    BY <1>5, <1>6, <1>7, <1>8

\* Its writes of one message.
LEMMA ServerWritesStep ==
    ASSUME FramedInv, ServerSendVersion \/ ServerOffer \/ ServerChallenge \/ ServerAccept
    PROVE  FramedInv'
  <1>1. Places'
    BY DEF ServerSendVersion, ServerOffer, ServerChallenge, ServerAccept, ServerWrites,
           FramedInv, Places, Offer
  <1>2. UNCHANGED <<conn, toServer, spw, cpw, cpc, body, pf, cformat, rpc>>
    BY DEF ServerSendVersion, ServerOffer, ServerChallenge, ServerAccept, ServerWrites
  <1>3. ClientDue' = ClientDue
    BY <1>2 DEF ClientDue
  <1>4. ToServer'
    BY <1>2, <1>3, KeepToServer
       DEF ServerSendVersion, ServerOffer, ServerChallenge, ServerAccept, ServerWrites,
           FramedInv, ServerWants, Looping
  <1>5. CASE ServerSendVersion
    <2> DEFINE m == Message("version", 12, "")
    <2>1. toClient' = toClient \o <<m>> /\ spc = "sendVersion" /\ spc' = "version"
      BY <1>5 DEF ServerSendVersion, ServerWrites
    <2>2. /\ Kind(m) = ServerDue /\ m.left = Whole(m.name, cformat)
          /\ Means(m, Offer, cformat) /\ ServerDue' = After("server", m)
      BY <2>1 DEF Kind, ServerDue, Whole, Means, Message, After
    <2> HIDE DEF m
    <2>3. ToClient'
      BY <1>2, <2>1, <2>2, PutToClient DEF FramedInv
    <2> QED
      BY <1>1, <1>4, <2>3 DEF FramedInv
  <1>6. CASE ServerOffer
    <2> DEFINE m == Message("types", 2, Offer)
    <2>1. toClient' = toClient \o <<m>> /\ spc = "offer" /\ spc' = "select"
      BY <1>6 DEF ServerOffer, ServerWrites
    <2>2. Offer' = Offer
      BY <1>2 DEF Offer
    <2>3. /\ Kind(m) = ServerDue /\ m.left = Whole(m.name, cformat)
          /\ Means(m, Offer, cformat) /\ ServerDue' = After("server", m)
      BY <2>1, <2>2 DEF Kind, ServerDue, Whole, Means, Message, After
    <2> HIDE DEF m
    <2>4. ToClient'
      BY <1>2, <2>1, <2>3, PutToClient DEF FramedInv
    <2> QED
      BY <1>1, <1>4, <2>4 DEF FramedInv
  <1>7. CASE ServerChallenge
    <2> DEFINE m == Message("challenge", 16, "")
    <2>1. toClient' = toClient \o <<m>> /\ spc = "challenge" /\ spc' = "response"
      BY <1>7 DEF ServerChallenge, ServerWrites
    <2>2. /\ Kind(m) = ServerDue /\ m.left = Whole(m.name, cformat)
          /\ Means(m, Offer, cformat) /\ ServerDue' = After("server", m)
      BY <2>1 DEF Kind, ServerDue, Whole, Means, Message, After
    <2> HIDE DEF m
    <2>3. ToClient'
      BY <1>2, <2>1, <2>2, PutToClient DEF FramedInv
    <2> QED
      BY <1>1, <1>4, <2>3 DEF FramedInv
  <1>8. CASE ServerAccept
    <2> DEFINE m == Message("result", 4, "ok")
    <2>1. toClient' = toClient \o <<m>> /\ spc = "accept" /\ spc' = "shared"
      BY <1>8 DEF ServerAccept, ServerWrites
    <2>2. /\ Kind(m) = ServerDue /\ m.left = Whole(m.name, cformat)
          /\ Means(m, Offer, cformat) /\ ServerDue' = After("server", m)
      BY <2>1 DEF Kind, ServerDue, Whole, Means, Message, After
    <2> HIDE DEF m
    <2>3. ToClient'
      BY <1>2, <2>1, <2>2, PutToClient DEF FramedInv
    <2> QED
      BY <1>1, <1>4, <2>3 DEF FramedInv
  <1> QED
    BY <1>5, <1>6, <1>7, <1>8

\* Its writes of several.
LEMMA PutThree ==
    ASSUME ToClient, spc \notin {"failed", "select"}, NEW a, NEW b, NEW c,
           Kind(a) = ServerDue, Means(a, Offer, cformat), a.left = Whole(a.name, cformat),
           Kind(b) = After("server", a), Means(b, Offer, cformat),
           b.left = Whole(b.name, cformat),
           Kind(c) = After("server", b), Means(c, Offer, cformat),
           c.left = Whole(c.name, cformat),
           toClient' = toClient \o <<a, b, c>>, UNCHANGED <<cpc, rpc, spw, cformat>>,
           ServerDue' = After("server", c)
    PROVE  ToClient'
  <1> SUFFICES ASSUME cpc # "failed" PROVE ToClient'
    BY DEF ToClient
  <1> DEFINE read == IF cpc = "types" THEN 1 ELSE 0
             q == Append(toClient, a)
             r == Append(q, b)
  <1>1. Order("server", toClient, ClientWants, ServerDue)
    BY DEF ToClient, Refused
  <1>2. Sound(toClient, read, Offer, cformat)
    BY DEF ToClient
  <1> HIDE DEF read
  <1>3. Order("server", q, ClientWants, After("server", a))
    BY <1>1, OrderAppend
  <1>4. Sound(q, read, Offer, cformat)
    BY <1>1, <1>2, SoundAppend DEF Order
  <1>5. toClient' = Append(r, c)
    BY <1>1, AppendThree DEF Order
  <1> HIDE DEF q
  <1>6. Order("server", r, ClientWants, After("server", b))
    BY <1>3, OrderAppend
  <1>7. Sound(r, read, Offer, cformat)
    BY <1>3, <1>4, SoundAppend DEF Order
  <1> HIDE DEF r
  <1>8. Order("server", toClient', ClientWants, After("server", c))
    BY <1>5, <1>6, OrderAppend
  <1>9. Sound(toClient', read, Offer, cformat)
    BY <1>5, <1>6, <1>7, SoundAppend DEF Order
  <1>10. Offer' = Offer /\ ClientWants' = ClientWants
    BY DEF Offer, ClientWants
  <1> QED
    BY <1>8, <1>9, <1>10 DEF ToClient, read

LEMMA ServerRefuseStep == FramedInv /\ ServerRefuse => FramedInv'
  <1> SUFFICES ASSUME FramedInv, ServerRefuse PROVE FramedInv'
    OBVIOUS
  <1> DEFINE a == Message("result", 4, "failed")
             b == Message("reason", 4 + 21, "")
             read == IF cpc = "types" THEN 1 ELSE 0
  <1>1. /\ spc = "refuse" /\ spc' = "failed" /\ toClient' = toClient \o <<a, b>>
        /\ UNCHANGED <<conn, toServer, spw, cpw, cpc, body, pf, cformat, rpc>>
    BY DEF ServerRefuse, ServerWrites
  <1>2. Places' /\ Offer' = Offer
    BY <1>1 DEF FramedInv, Places, Offer
  <1>3. ToServer'
    BY <1>1 DEF ToServer
  <1>4. Kind(a) = ServerDue /\ Kind(b) = After("server", a)
    BY <1>1 DEF Kind, ServerDue, Message, After
  <1>5. /\ Means(a, Offer, cformat) /\ a.left = Whole(a.name, cformat)
        /\ Means(b, Offer, cformat) /\ b.left = Whole(b.name, cformat)
    BY DEF Means, Message, Whole
  <1> HIDE DEF a, b
  <1>6. CASE cpc # "failed"
    <2>1. Order("server", toClient, ClientWants, ServerDue) /\ IsSeq(toClient)
      BY <1>1, <1>6 DEF FramedInv, ToClient, Order, Refused
    <2>2. Sound(toClient, read, Offer, cformat)
      BY <1>6 DEF FramedInv, ToClient
    <2> HIDE DEF read
    <2>3. /\ Order("server", Append(toClient, a), ClientWants, After("server", a))
          /\ Sound(Append(toClient, a), read, Offer, cformat)
      BY <1>4, <1>5, <2>1, <2>2, OrderAppend, SoundAppend
    <2>4. toClient' = Append(Append(toClient, a), b)
      BY <1>1, <2>1, AppendTwo
    <2>5. IsSeq(Append(toClient, a))
      BY <2>3 DEF Order
    <2>6. /\ Order("server", toClient', ClientWants, After("server", b))
          /\ Sound(toClient', read, Offer, cformat)
      BY <1>4, <1>5, <2>3, <2>4, <2>5, OrderAppend, SoundAppend
    <2>7. ClientWants' = ClientWants
      BY <1>1 DEF ClientWants
    <2> QED
      BY <1>1, <1>2, <1>3, <2>6, <2>7 DEF FramedInv, ToClient, read
  <1>7. CASE cpc = "failed"
    BY <1>1, <1>2, <1>3, <1>7 DEF FramedInv, ToClient
  <1> QED
    BY <1>6, <1>7

LEMMA ServerInitStep == FramedInv /\ ServerInit => FramedInv'
  <1> SUFFICES ASSUME FramedInv, ServerInit PROVE FramedInv'
    OBVIOUS
  <1> DEFINE a == Message("size", 4, "")
             b == Message("format", 16, "")
             c == Message("name", 4 + NameLen, "")
  <1>1. /\ spc = "init" /\ spc' = "loop" /\ toClient' = toClient \o <<a, b, c>>
        /\ UNCHANGED <<conn, toServer, spw, cpw, cpc, body, pf, cformat, rpc>>
    BY DEF ServerInit, ServerWrites
  <1>2. Places' /\ ClientDue' = ClientDue
    BY <1>1 DEF FramedInv, Places, Offer, ClientDue
  <1>3. ToServer'
    BY <1>1, <1>2, KeepToServer DEF FramedInv, ServerWants
  <1>4. /\ Kind(a) = ServerDue /\ Kind(b) = After("server", a)
        /\ Kind(c) = After("server", b) /\ ServerDue' = After("server", c)
    BY <1>1 DEF Kind, ServerDue, Message, After
  <1>5. /\ Means(a, Offer, cformat) /\ a.left = Whole(a.name, cformat)
        /\ Means(b, Offer, cformat) /\ b.left = Whole(b.name, cformat)
        /\ Means(c, Offer, cformat) /\ c.left = Whole(c.name, cformat)
    BY DEF Means, Message, Whole
  <1> HIDE DEF a, b, c
  <1>6. ToClient'
    BY <1>1, <1>4, <1>5, PutThree DEF FramedInv
  <1> QED
    BY <1>2, <1>3, <1>6 DEF FramedInv

\* An update is encoded in the format that the viewer has asked for.
LEMMA ServerUpdateStep == FramedInv /\ ServerUpdate => FramedInv'
  <1> SUFFICES ASSUME FramedInv, ServerUpdate PROVE FramedInv'
    OBVIOUS
  <1>1. PICK colour \in Colour :
           ServerWrites("update", "loop",
             <<Message("update", 4, ""), Message("rect", 12, ""),
               Message("pixels", Area * bytesPerPixel(pf),
                       [pixel |-> encode(pf, colour), colour |-> colour])>>)
    BY DEF ServerUpdate
  <1>2. spc = "update" /\ pf = FormatOf(cformat)
    BY <1>1 DEF ServerWrites, FramedInv, ToServer, Looping
  <1> DEFINE a == Message("update", 4, "")
             b == Message("rect", 12, "")
             c == Message("pixels", Area * bytesPerPixel(FormatOf(cformat)),
                     [pixel |-> encode(FormatOf(cformat), colour), colour |-> colour])
  <1>3. /\ spc' = "loop" /\ toClient' = toClient \o <<a, b, c>>
        /\ UNCHANGED <<conn, toServer, spw, cpw, cpc, body, pf, cformat, rpc>>
    BY <1>1, <1>2 DEF ServerWrites
  <1>4. Places' /\ ClientDue' = ClientDue
    BY <1>3 DEF FramedInv, Places, Offer, ClientDue
  <1>5. ToServer'
    BY <1>2, <1>3, <1>4, KeepToServer DEF FramedInv, ServerWants, Looping
  <1>6. /\ Kind(a) = ServerDue /\ Kind(b) = After("server", a)
        /\ Kind(c) = After("server", b) /\ ServerDue' = After("server", c)
    BY <1>2, <1>3 DEF Kind, ServerDue, Message, After
  <1>7. /\ Means(a, Offer, cformat) /\ a.left = Whole(a.name, cformat)
        /\ Means(b, Offer, cformat) /\ b.left = Whole(b.name, cformat)
        /\ Means(c, Offer, cformat) /\ c.left = Whole(c.name, cformat)
    BY DEF Means, Message, Whole
  <1> HIDE DEF a, b, c
  <1>8. ToClient'
    BY <1>2, <1>3, <1>6, <1>7, PutThree DEF FramedInv
  <1> QED
    BY <1>4, <1>5, <1>8 DEF FramedInv

\* session.loop reads the type and knows how much is left.
LEMMA ServerReadTypeStep == FramedInv /\ ServerReadType => FramedInv'
  <1> SUFFICES ASSUME FramedInv, ServerReadType PROVE FramedInv'
    OBVIOUS
  <1>1. PICK name \in Inputs : Read(toServer, name, 1) /\ body' = name
    BY DEF ServerReadType
  <1>2. /\ spc = "loop" /\ spc' = "body" /\ toServer' = Rest(toServer, 1)
        /\ toServer # <<>> /\ Head(toServer).name = name
        /\ UNCHANGED <<conn, toClient, spw, cpw, cpc, pf, cformat, rpc>>
    BY <1>1 DEF ServerReadType, Read
  <1>3. Head(toServer).left = Whole(name, cformat)
    BY <1>2, ServerFinds DEF FramedInv
  <1>4. Head(toServer).left # 1
    BY <1>3, TextInt DEF Inputs, Whole
  <1>5. PICK first, due :
           /\ first \in ServerWants
           /\ Order("client", toServer, first, due)
           /\ cpc # "failed" => due = ClientDue
           /\ Looping /\ pf # FormatOf(cformat) => first = "pixelFormat" /\ spc # "update"
    BY <1>2 DEF FramedInv, ToServer
  <1>6. Sound(toServer, 0, Offer, cformat)
    BY <1>2 DEF FramedInv, ToServer
  <1>7. /\ Order("client", toServer', first, due) /\ Sound(toServer', 1, Offer, cformat)
        /\ Head(toServer').name = name
    BY <1>2, <1>4, <1>5, <1>6, BytePart
  <1>8. Offer' = Offer /\ ClientDue' = ClientDue /\ first \in ServerWants'
    BY <1>2, <1>5 DEF Offer, ClientDue, ServerWants
  <1>9. ToServer'
    BY <1>1, <1>2, <1>5, <1>7, <1>8 DEF ToServer, Looping
  <1>10. Places'
    BY <1>2 DEF FramedInv, Places, Offer
  <1>11. ToClient'
    BY <1>2, KeepToClient DEF FramedInv, ClientWants, ServerDue, Offer, Refused
  <1> QED
    BY <1>9, <1>10, <1>11 DEF FramedInv

LEMMA ServerReadBodyStep == FramedInv /\ ServerReadBody => FramedInv'
  <1> SUFFICES ASSUME FramedInv, ServerReadBody PROVE FramedInv'
    OBVIOUS
  <1>1. /\ spc = "body" /\ spc' \in {"loop", "update"}
        /\ spc' = "update" => body = "request"
        /\ toServer' = Rest(toServer, BodySize(body))
        /\ toServer # <<>> /\ Head(toServer).name = body
        /\ pf' = FormatAfter(body, Head(toServer).value)
        /\ UNCHANGED <<conn, toClient, spw, cpw, cpc, cformat, rpc>>
    BY DEF ServerReadBody, Read
  <1>2. /\ Kind(Head(toServer)) \in {"pixelFormat", "encodings", "input"}
        /\ Means(Head(toServer), Offer, cformat)
        /\ Head(toServer).left = Whole(body, cformat) - 1
    BY <1>1, ServerFinds DEF FramedInv, ServerWants
  <1>3. body \in Inputs
    BY <1>1, <1>2 DEF Kind, Means, Inputs
  <1>4. Whole(body, cformat) - 1 = BodySize(body)
    BY <1>3, TextInt DEF Inputs, Whole, BodySize, Body
  <1>5. toServer' = Tail(toServer)
    BY <1>1, <1>2, <1>4 DEF Rest
  <1>6. pf' = FormatOf(cformat)
    <2>1. PICK first, due :
             /\ first \in ServerWants
             /\ Order("client", toServer, first, due)
             /\ Looping /\ pf # FormatOf(cformat) => first = "pixelFormat"
      BY <1>1 DEF FramedInv, ToServer
    <2>2. Kind(Head(toServer)) = first
      BY <1>1, <2>1, OrderTail
    <2>3. CASE body = "pixelFormat"
      BY <1>1, <1>2, <2>3 DEF Means, FormatAfter
    <2>4. CASE body # "pixelFormat"
      <3>1. first # "pixelFormat"
        BY <1>1, <2>2, <2>4 DEF Kind
      <3> QED
        BY <1>1, <2>1, <2>4, <3>1 DEF FormatAfter, Looping
    <2> QED
      BY <2>3, <2>4
  <1>7. After("client", Head(toServer)) \in ServerWants'
    BY <1>1, <1>3 DEF After, ServerWants, Inputs
  <1>8. ToServer'
    BY <1>1, <1>5, <1>6, <1>7, TakeToServer DEF FramedInv
  <1>9. Places'
    BY <1>1 DEF FramedInv, Places, Offer
  <1>10. ToClient'
    BY <1>1, KeepToClient DEF FramedInv, ClientWants, ServerDue, Offer, Refused
  <1> QED
    BY <1>8, <1>9, <1>10 DEF FramedInv

-----------------------------------------------------------------------------
\* The client's reads of the handshake.
LEMMA ClientReadsStep ==
    ASSUME FramedInv,
           \/ ClientReadVersion \/ ClientReadTypes \/ ClientReadChallenge
           \/ ClientReadResult \/ ClientReadReason
           \/ ClientReadSize \/ ClientReadFormat \/ ClientReadName
    PROVE  FramedInv'
  <1> USE DEF ClientReads, Read
  <1>1. /\ toClient # <<>> /\ cpc \notin {"failed", "ready"}
        /\ UNCHANGED <<conn, toServer, spw, cpw, spc, body, pf, cformat, rpc>>
    BY DEF ClientReadVersion, ClientReadTypes, ClientReadChallenge, ClientReadResult,
           ClientReadReason, ClientReadSize, ClientReadFormat, ClientReadName
  <1>2. /\ Means(Head(toClient), Offer, cformat)
        /\ Head(toClient).left = IF cpc = "types"
                                 THEN Whole(Head(toClient).name, cformat) - 1
                                 ELSE Whole(Head(toClient).name, cformat)
    BY <1>1, ClientFinds DEF FramedInv
  <1>3. Offer' = Offer /\ ServerDue' = ServerDue
    BY <1>1 DEF Offer, ServerDue
  <1>4. /\ toClient' = Tail(toClient)
        /\ \/ cpc' = "failed"
           \/ ClientWants' = After("server", Head(toClient)) /\ cpc' # "types"
        /\ cpc' = "failed" \/ ClientDue' = ClientDue
        /\ cpc' # "ready"
        /\ cpc' = "selectVnc" => Head(toClient).value # "none" /\ cpc = "types"
        /\ cpc = "types" => Head(toClient).name = "types"
    <2>1. CASE ClientReadVersion
      BY <1>1, <1>2, <2>1 DEF ClientReadVersion, Rest, Whole, After, ClientWants, ClientDue
    <2>2. CASE ClientReadTypes
      <3>1. /\ cpc = "types" /\ toClient' = Rest(toClient, 1)
            /\ Head(toClient).name = "types"
            /\ cpc' \in {"selectNone", "selectVnc"}
            /\ cpc' = "selectVnc" => Head(toClient).value # "none"
        BY <2>2 DEF ClientReadTypes, Selects
      <3>2. Head(toClient).value = Offer
        BY <1>2, <3>1 DEF Means
      <3>3. toClient' = Tail(toClient)
        BY <1>2, <3>1 DEF Rest, Whole
      <3> QED
        BY <1>3, <3>1, <3>2, <3>3 DEF After, ClientWants, ClientDue
    <2>3. CASE ClientReadChallenge
      BY <1>1, <1>2, <2>3 DEF ClientReadChallenge, Rest, Whole, After, ClientWants, ClientDue
    <2>4. CASE ClientReadResult
      BY <1>1, <1>2, <2>4 DEF ClientReadResult, Rest, Whole, After, ClientWants, ClientDue
    <2>5. CASE ClientReadReason
      BY <1>1, <1>2, <2>5 DEF ClientReadReason, Rest, Whole, After, ClientWants, ClientDue
    <2>6. CASE ClientReadSize
      BY <1>1, <1>2, <2>6 DEF ClientReadSize, Rest, Whole, After, ClientWants, ClientDue
    <2>7. CASE ClientReadFormat
      BY <1>1, <1>2, <2>7 DEF ClientReadFormat, Rest, Whole, After, ClientWants, ClientDue, FormatSize
    <2>8. CASE ClientReadName
      BY <1>1, <1>2, <2>8 DEF ClientReadName, Rest, Whole, After, ClientWants, ClientDue
    <2> QED
      BY <2>1, <2>2, <2>3, <2>4, <2>5, <2>6, <2>7, <2>8
  <1>5. ToClient'
    BY <1>1, <1>4, TakeToClient DEF FramedInv
  <1>6. ToServer'
    BY <1>1, <1>4, KeepToServer DEF FramedInv, ServerWants, Looping
  <1>7. Places'
    BY <1>1, <1>2, <1>3, <1>4 DEF FramedInv, Places, Means
  <1> QED
    BY <1>5, <1>6, <1>7 DEF FramedInv

\* The count of the security types is read first, and is all of the message
\* that may be read alone.
LEMMA ClientReadCountStep == FramedInv /\ ClientReadCount => FramedInv'
  <1> SUFFICES ASSUME FramedInv, ClientReadCount PROVE FramedInv'
    OBVIOUS
  <1>1. /\ cpc = "count" /\ cpc' = "types" /\ toClient' = Rest(toClient, 1)
        /\ toClient # <<>> /\ Head(toClient).name = "types"
        /\ UNCHANGED <<conn, toServer, spw, cpw, spc, body, pf, cformat, rpc>>
    BY DEF ClientReadCount, ClientReads, Read
  <1>2. Head(toClient).left # 1
    BY <1>1, ClientFinds DEF FramedInv, Whole
  <1>3. PICK due : /\ Order("server", toClient, ClientWants, due)
                   /\ spc # "failed" => due = ServerDue
    BY <1>1 DEF FramedInv, ToClient, Refused
  <1>4. Sound(toClient, 0, Offer, cformat)
    BY <1>1 DEF FramedInv, ToClient
  <1>5. Order("server", toClient', ClientWants, due) /\ Sound(toClient', 1, Offer, cformat)
    BY <1>1, <1>2, <1>3, <1>4, BytePart
  <1>6. Offer' = Offer /\ ServerDue' = ServerDue /\ ClientWants' = ClientWants
    BY <1>1 DEF Offer, ServerDue, ClientWants
  <1>7. ToClient'
    BY <1>1, <1>3, <1>5, <1>6 DEF ToClient
  <1>8. ToServer'
    BY <1>1, KeepToServer DEF FramedInv, ServerWants, Looping, ClientDue
  <1>9. Places'
    BY <1>1 DEF FramedInv, Places, Offer
  <1> QED
    BY <1>7, <1>8, <1>9 DEF FramedInv

\* The client's writes of one message.
LEMMA ClientWritesStep ==
    ASSUME FramedInv,
           \/ ClientSendVersion \/ (ClientSelectNone /\ Offer = "none") \/ ClientSelectVnc
           \/ ClientRespond \/ ClientShared
    PROVE  FramedInv'
  <1>1. /\ UNCHANGED <<conn, toClient, spw, cpw, spc, body, pf, cformat, rpc>>
        /\ cpc \notin {"failed", "types"} /\ cpc' \notin {"failed", "types"}
    BY DEF ClientSendVersion, ClientSelectNone, ClientSelectVnc, ClientRespond,
           ClientShared, ClientWrites
  <1>2. ServerDue' = ServerDue
    BY <1>1 DEF ServerDue, Offer
  <1>3. ClientWants' = ClientWants
    BY <1>1 DEF ClientSendVersion, ClientSelectNone, ClientSelectVnc, ClientRespond,
                ClientShared, ClientWrites, ClientWants
  <1>4. ToClient'
    <2>1. ~Refused
      BY DEF ClientSendVersion, ClientSelectNone, ClientSelectVnc, ClientRespond,
             ClientShared, ClientWrites, Refused
    <2> QED
      BY <1>1, <1>2, <1>3, <2>1, KeepToClient DEF FramedInv, ToClient, Offer
  <1>5. Places'
    BY <1>1 DEF FramedInv, Places, Offer, ClientSendVersion, ClientSelectNone,
                ClientSelectVnc, ClientRespond, ClientShared, ClientWrites
  <1>6. CASE ClientSendVersion
    <2> DEFINE m == Message("version", 12, "")
    <2>1. toServer' = toServer \o <<m>> /\ cpc = "sendVersion" /\ cpc' = "count"
      BY <1>6 DEF ClientSendVersion, ClientWrites
    <2>2. /\ Kind(m) = ClientDue /\ m.left = Whole(m.name, cformat)
          /\ Means(m, Offer, cformat) /\ ClientDue' = After("client", m)
      BY <2>1 DEF Kind, ClientDue, Whole, Means, Message, After, FramedInv, Places
    <2> HIDE DEF m
    <2>3. ToServer'
      BY <1>1, <2>1, <2>2, PutToServer DEF FramedInv
    <2> QED
      BY <1>4, <1>5, <2>3 DEF FramedInv
  <1>7. CASE ClientSelectNone /\ Offer = "none"
    <2> DEFINE m == Message("select", 1, "none")
    <2>1. toServer' = toServer \o <<m>> /\ cpc = "selectNone" /\ cpc' = "result"
      BY <1>7 DEF ClientSelectNone, ClientWrites
    <2>2. /\ Kind(m) = ClientDue /\ m.left = Whole(m.name, cformat)
          /\ Means(m, Offer, cformat) /\ ClientDue' = After("client", m)
      BY <2>1 DEF Kind, ClientDue, Whole, Means, Message, After, FramedInv, Places
    <2> HIDE DEF m
    <2>3. ToServer'
      BY <1>1, <2>1, <2>2, PutToServer DEF FramedInv
    <2> QED
      BY <1>4, <1>5, <2>3 DEF FramedInv
  <1>8. CASE ClientSelectVnc
    <2> DEFINE m == Message("select", 1, "vnc")
    <2>1. toServer' = toServer \o <<m>> /\ cpc = "selectVnc" /\ cpc' = "challenge"
      BY <1>8 DEF ClientSelectVnc, ClientWrites
    <2>2. /\ Kind(m) = ClientDue /\ m.left = Whole(m.name, cformat)
          /\ Means(m, Offer, cformat) /\ ClientDue' = After("client", m)
      BY <2>1 DEF Kind, ClientDue, Whole, Means, Message, After, FramedInv, Places
    <2> HIDE DEF m
    <2>3. ToServer'
      BY <1>1, <2>1, <2>2, PutToServer DEF FramedInv
    <2> QED
      BY <1>4, <1>5, <2>3 DEF FramedInv
  <1>9. CASE ClientRespond
    <2> DEFINE m == Message("response", 16, cpw)
    <2>1. toServer' = toServer \o <<m>> /\ cpc = "response" /\ cpc' = "result"
      BY <1>9 DEF ClientRespond, ClientWrites
    <2>2. /\ Kind(m) = ClientDue /\ m.left = Whole(m.name, cformat)
          /\ Means(m, Offer, cformat) /\ ClientDue' = After("client", m)
      BY <2>1 DEF Kind, ClientDue, Whole, Means, Message, After, FramedInv, Places
    <2> HIDE DEF m
    <2>3. ToServer'
      BY <1>1, <2>1, <2>2, PutToServer DEF FramedInv
    <2> QED
      BY <1>4, <1>5, <2>3 DEF FramedInv
  <1>10. CASE ClientShared
    <2> DEFINE m == Message("shared", 1, "")
    <2>1. toServer' = toServer \o <<m>> /\ cpc = "shared" /\ cpc' = "size"
      BY <1>10 DEF ClientShared, ClientWrites
    <2>2. /\ Kind(m) = ClientDue /\ m.left = Whole(m.name, cformat)
          /\ Means(m, Offer, cformat) /\ ClientDue' = After("client", m)
      BY <2>1 DEF Kind, ClientDue, Whole, Means, Message, After, FramedInv, Places
    <2> HIDE DEF m
    <2>3. ToServer'
      BY <1>1, <2>1, <2>2, PutToServer DEF FramedInv
    <2> QED
      BY <1>4, <1>5, <2>3 DEF FramedInv
  <1> QED
    BY <1>6, <1>7, <1>8, <1>9, <1>10

\* The server is not past its offer while the viewer has not selected.
LEMMA NotPast ==
    ASSUME FramedInv, Opening, cpc \in Choosing, spc # "failed"
    PROVE  spc \in {"sendVersion", "version", "offer", "select"}
  <1>1. PICK first \in ServerWants : Order("client", toServer, first, ClientDue)
    BY DEF FramedInv, ToServer, Choosing
  <1>2. ClientDue \in {"version", "select"}
    BY DEF ClientDue, Choosing
  <1>3. CASE toServer = <<>>
    <2>1. first = ClientDue
      BY <1>1, <1>3 DEF Order
    <2> QED
      BY <1>2, <2>1 DEF ServerWants
  <1>4. CASE toServer # <<>>
    <2>1. Kind(Head(toServer)) = first
      BY <1>1, <1>4, OrderTail
    <2>2. Head(toServer) = toServer[1] /\ Len(toServer) \in Nat \ {0}
      BY <1>1, <1>4, TailOf DEF Order
    <2>3. Head(toServer).name = "version"
      BY <2>2 DEF Opening
    <2> QED
      BY <2>1, <2>3 DEF Kind, ServerWants
  <1> QED
    BY <1>3, <1>4

\* A viewer asks to be let in without a password: the server reads that next.
LEMMA ClientInsistsStep ==
    ASSUME FramedInv, Opening, ClientSelectNone, Offer # "none"
    PROVE  FramedInv'
  <1> DEFINE m == Message("select", 1, "none")
  <1>1. /\ toServer' = toServer \o <<m>> /\ cpc = "selectNone" /\ cpc' = "result"
        /\ UNCHANGED <<conn, toClient, spw, cpw, spc, body, pf, cformat, rpc>>
    BY DEF ClientSelectNone, ClientWrites
  <1>2. Offer = "vnc" /\ Offer' = "vnc" /\ toClient = <<>> /\ toClient' = <<>>
    BY <1>1 DEF FramedInv, Places, Opening, Offer
  <1>3. Places'
    BY <1>1 DEF FramedInv, Places, Offer
  <1>4. /\ Kind(m) = ClientDue /\ m.left = Whole(m.name, cformat)
        /\ Means(m, Offer, cformat) /\ ClientDue' = After("client", m)
    BY <1>1, <1>2 DEF Kind, ClientDue, Whole, Means, Message, After
  <1>5. m.value = "none"
    BY DEF Message
  <1> HIDE DEF m
  <1>6. ToServer'
    BY <1>1, <1>4, PutToServer DEF FramedInv
  <1>7. ASSUME spc # "failed" PROVE spc = "select" /\ toServer = <<>>
    <2>1. spc \in {"sendVersion", "version", "offer", "select"}
      BY <1>1, <1>7, NotPast DEF Choosing
    <2>2. PICK due : /\ Order("server", toClient, ClientWants, due)
                     /\ due = ServerDue \/ Refused
      BY <1>1, <1>7 DEF FramedInv, ToClient
    <2>3. ServerDue = "challenge"
      BY <1>1, <1>2, <2>2 DEF Order, ClientWants, Refused
    <2>4. spc = "select"
      BY <2>1, <2>3 DEF ServerDue
    <2>5. PICK first \in ServerWants : Order("client", toServer, first, ClientDue)
      BY <1>1, <1>7 DEF FramedInv, ToServer
    <2>6. ASSUME toServer # <<>> PROVE FALSE
      <3>1. Kind(Head(toServer)) = "select"
        BY <2>4, <2>5, <2>6, OrderTail DEF ServerWants
      <3>2. Head(toServer) = toServer[1] /\ Len(toServer) \in Nat \ {0}
        BY <2>5, <2>6, TailOf DEF Order
      <3>3. Head(toServer).name = "version"
        BY <1>1, <3>2 DEF Opening, Choosing
      <3> QED
        BY <3>1, <3>3 DEF Kind
    <2> QED
      BY <2>4, <2>6
  <1>8. Sound(toClient', 0, Offer', cformat') /\ Order("server", toClient', "result", "result")
    <2>1. IsSeq(<<>>) /\ Len(<<>>) = 0
      <3>1. <<>> \in Seq({})
        OBVIOUS
      <3> QED
        BY <3>1 DEF IsSeq
    <2> QED
      BY <1>2, <2>1 DEF Sound, Order
  <1>9. spc' # "failed" => Refused'
    BY <1>1, <1>2, <1>5, <1>7 DEF Refused
  <1>10. ClientWants' = "result"
    BY <1>1 DEF ClientWants
  <1>11. ToClient'
    BY <1>1, <1>8, <1>9, <1>10 DEF ToClient
  <1> QED
    BY <1>3, <1>6, <1>11 DEF FramedInv

\* Two messages at the end of the handshake: the format is the first.
LEMMA ClientConfigureStep == FramedInv /\ ClientConfigure => FramedInv'
  <1> SUFFICES ASSUME FramedInv, ClientConfigure PROVE FramedInv'
    OBVIOUS
  <1> DEFINE a == Message("pixelFormat", 1 + 3 + 16, cformat)
             b == Message("encodings", 4 + 2 * 4, "")
             read == IF spc = "body" THEN 1 ELSE 0
  <1>1. /\ cpc = "configure" /\ cpc' = "ready" /\ toServer' = toServer \o <<a, b>>
        /\ UNCHANGED <<conn, toClient, spw, cpw, spc, body, pf, cformat, rpc>>
    BY DEF ClientConfigure, ClientWrites
  <1>2. Places' /\ ServerDue' = ServerDue /\ Offer' = Offer
    BY <1>1 DEF FramedInv, Places, Offer, ServerDue
  <1>3. ClientWants' = ClientWants
    BY <1>1 DEF ClientWants, FramedInv, Places
  <1>4. ToClient'
    BY <1>1, <1>2, <1>3, KeepToClient DEF FramedInv, ToClient, Refused
  <1>5. /\ Kind(a) = ClientDue /\ Kind(b) = After("client", a)
        /\ ClientDue' = After("client", b)
    BY <1>1 DEF Kind, ClientDue, Message, After
  <1>6. /\ Means(a, Offer, cformat) /\ a.left = Whole(a.name, cformat)
        /\ Means(b, Offer, cformat) /\ b.left = Whole(b.name, cformat)
    BY DEF Means, Message, Whole
  <1> HIDE DEF a, b
  <1>7. CASE spc # "failed"
    <2>1. PICK first \in ServerWants :
             /\ Order("client", toServer, first, ClientDue)
             /\ Looping /\ pf # FormatOf(cformat) => first = "pixelFormat" /\ spc # "update"
      BY <1>1, <1>7 DEF FramedInv, ToServer
    <2>2. Sound(toServer, read, Offer, cformat) /\ IsSeq(toServer)
      BY <1>7, <2>1 DEF FramedInv, ToServer, Order
    <2>3. spc = "body" => Head(toServer').name = body
      <3> SUFFICES ASSUME spc = "body" PROVE Head(toServer').name = body
        OBVIOUS
      <3>1. Len(toServer) > 0
        BY <2>2 DEF Sound
      <3>2. Head(toServer \o <<a, b>>) = Head(toServer)
        BY <2>2, <3>1 DEF IsSeq
      <3> QED
        BY <1>1, <3>2 DEF FramedInv, ToServer
    <2> HIDE DEF read
    <2>4. /\ Order("client", Append(toServer, a), first, After("client", a))
          /\ Sound(Append(toServer, a), read, Offer, cformat)
      BY <1>5, <1>6, <2>1, <2>2, OrderAppend, SoundAppend
    <2>5. toServer' = Append(Append(toServer, a), b)
      BY <1>1, <2>2, AppendTwo
    <2>6. IsSeq(Append(toServer, a))
      BY <2>4 DEF Order
    <2>7. /\ Order("client", toServer', first, After("client", b))
          /\ Sound(toServer', read, Offer, cformat)
      BY <1>5, <1>6, <2>4, <2>5, <2>6, OrderAppend, SoundAppend
    <2>8. ServerWants' = ServerWants /\ Looping' = Looping
      BY <1>1 DEF ServerWants, Looping
    <2>9. ToServer'
      BY <1>1, <1>2, <1>5, <2>1, <2>3, <2>7, <2>8 DEF ToServer, read
    <2> QED
      BY <1>2, <1>4, <2>9 DEF FramedInv
  <1>8. CASE spc = "failed"
    BY <1>1, <1>2, <1>4, <1>8 DEF FramedInv, ToServer
  <1> QED
    BY <1>7, <1>8

\* Whatever the window sends, at any time of the session.
LEMMA ClientSendStep ==
    ASSUME FramedInv, NEW name \in DOMAIN SentSize, ClientSend(name)
    PROVE  FramedInv'
  <1> DEFINE m == Message(name, SentSize[name], "")
  <1>1. /\ cpc = "ready" /\ cpc' = "ready" /\ toServer' = toServer \o <<m>>
        /\ UNCHANGED <<conn, toClient, spw, cpw, spc, body, pf, cformat, rpc>>
    BY DEF ClientSend, ClientWrites
  <1>2. name \in {"request", "pointer", "key", "cutText"}
    BY DEF SentSize
  <1>3. SentSize[name] = Whole(name, cformat)
    BY <1>2, TextInt DEF SentSize, Whole
  <1>4. /\ Kind(m) = ClientDue /\ m.left = Whole(m.name, cformat)
        /\ Means(m, Offer, cformat) /\ ClientDue' = After("client", m)
    BY <1>1, <1>2, <1>3 DEF Kind, ClientDue, Means, Message, After
  <1> HIDE DEF m
  <1>5. ToServer'
    BY <1>1, <1>4, PutToServer DEF FramedInv
  <1>6. ToClient'
    BY <1>1, KeepToClient DEF FramedInv, ClientWants, ServerDue, Offer, Refused
  <1>7. Places'
    BY <1>1 DEF FramedInv, Places, Offer
  <1> QED
    BY <1>5, <1>6, <1>7 DEF FramedInv

\* Run reads an update part by part, the pixels in the format it asked for.
LEMMA ClientRunStep == FramedInv /\ ClientRun => FramedInv'
  <1> SUFFICES ASSUME FramedInv, ClientRun PROVE FramedInv'
    OBVIOUS
  <1>1. /\ cpc = "ready" /\ toClient # <<>>
        /\ UNCHANGED <<conn, toServer, spw, cpw, spc, cpc, body, pf, cformat>>
    BY DEF ClientRun, RunReads, Read
  <1>2. Head(toClient).left = Whole(Head(toClient).name, cformat)
    BY <1>1, ClientFinds DEF FramedInv
  <1>3. /\ toClient' = Tail(toClient)
        /\ rpc' = After("server", Head(toClient))
        /\ rpc' \in {"update", "rect", "pixels"}
    <2>1. CASE RunReads("update", 4, "rect")
      BY <1>2, <2>1 DEF RunReads, Read, Rest, Whole, After
    <2>2. CASE RunReads("rect", 12, "pixels")
      BY <1>2, <2>2 DEF RunReads, Read, Rest, Whole, After
    <2>3. CASE RunReads("pixels", PixelsSize, "update")
      BY <1>2, <2>3 DEF RunReads, Read, Rest, Whole, After, PixelsSize
    <2> QED
      BY <2>1, <2>2, <2>3 DEF ClientRun
  <1>4. ClientWants' = After("server", Head(toClient))
    BY <1>1, <1>3 DEF ClientWants
  <1>5. ToClient'
    BY <1>1, <1>3, <1>4, TakeToClient DEF FramedInv
  <1>6. ToServer'
    BY <1>1, KeepToServer DEF FramedInv, ServerWants, Looping, ClientDue
  <1>7. Places'
    BY <1>1, <1>3 DEF FramedInv, Places, Offer
  <1> QED
    BY <1>5, <1>6, <1>7 DEF FramedInv

LEMMA FramedStep == FramedInv /\ Opening /\ [Next]_vars => FramedInv'
  <1> SUFFICES ASSUME FramedInv, Opening, [Next]_vars PROVE FramedInv'
    OBVIOUS
  <1>1. CASE Server
    BY <1>1, ServerReadsStep, ServerWritesStep, ServerRefuseStep, ServerInitStep,
       ServerUpdateStep, ServerReadTypeStep, ServerReadBodyStep DEF Server
  <1>2. CASE Client
    BY <1>2, ClientReadsStep, ClientReadCountStep, ClientWritesStep, ClientInsistsStep,
       ClientConfigureStep, ClientSendStep, ClientRunStep DEF Client, ClientHandshake
  <1>3. CASE Break \/ ServerFails \/ ClientFails
    <2>1. UNCHANGED <<toClient, toServer, spw, cpw, body, pf, cformat, rpc>>
      BY <1>3 DEF Break, ServerFails, ClientFails
    <2>2. /\ spc' = "failed" \/ spc' = spc
          /\ cpc' = "failed" \/ cpc' = cpc
      BY <1>3 DEF Break, ServerFails, ClientFails
    <2>3. Offer' = Offer /\ Places'
      BY <2>1, <2>2 DEF FramedInv, Places, Offer
    <2>4. cpc' = cpc => ClientDue' = ClientDue /\ ClientWants' = ClientWants
      BY <2>1, <2>3 DEF ClientDue, ClientWants
    <2>5. spc' = spc => /\ ServerDue' = ServerDue /\ ServerWants' = ServerWants
                        /\ Looping' = Looping
      BY <2>3 DEF ServerDue, ServerWants, Looping
    <2>6. ToClient'
      BY <2>1, <2>2, <2>3, <2>4, <2>5 DEF FramedInv, ToClient, Refused
    <2>7. ToServer'
      BY <2>1, <2>2, <2>3, <2>4, <2>5 DEF FramedInv, ToServer
    <2> QED
      BY <2>3, <2>6, <2>7 DEF FramedInv
  <1>4. CASE UNCHANGED vars
    <2>1. /\ ClientDue' = ClientDue /\ ClientWants' = ClientWants /\ ServerDue' = ServerDue
          /\ ServerWants' = ServerWants /\ Looping' = Looping /\ Offer' = Offer
      BY <1>4 DEF vars, ClientDue, ClientWants, ServerDue, ServerWants, Looping, Offer
    <2> QED
      BY <1>4, <2>1 DEF vars, FramedInv, ToClient, ToServer, Places, Refused
  <1> QED
    BY <1>1, <1>2, <1>3, <1>4 DEF Next

\* What was said before a type is selected, step by step.
LEMMA OpeningStep == FramedInv /\ Opening /\ [Next]_vars => Opening'
  <1> SUFFICES ASSUME FramedInv, Opening, [Next]_vars, cpc' \in Choosing PROVE Opening'
    BY DEF Opening, Choosing
  <1>1. CASE Server
    <2>1. UNCHANGED <<cpc, spw>> /\ Offer' = Offer /\ cpc \in Choosing
      BY <1>1 DEF Server, ServerSendVersion, ServerReadVersion, ServerOffer,
           ServerReadSelect, ServerChallenge, ServerReadResponse, ServerAccept,
           ServerRefuse, ServerReadShared, ServerInit, ServerReadType, ServerReadBody,
           ServerUpdate, ServerWrites, ServerReads, Offer
    <2>2. spc \in {"failed", "sendVersion", "version", "offer", "select"}
      BY <2>1, NotPast
    <2>3. ServerSendVersion \/ ServerOffer \/ ServerReadVersion \/ ServerReadSelect
      BY <1>1, <2>2 DEF Server, ServerChallenge, ServerReadResponse, ServerAccept,
           ServerRefuse, ServerReadShared, ServerInit, ServerReadType, ServerReadBody,
           ServerUpdate, ServerWrites, ServerReads
    <2>4. IsSeq(toServer) /\ IsSeq(toClient)
      BY <2>1, <2>3 DEF FramedInv, ToServer, ToClient, Order, Choosing, ServerSendVersion,
           ServerReadVersion, ServerOffer, ServerReadSelect, ServerWrites, ServerReads
    <2>5. CASE ServerSendVersion \/ ServerOffer
      <3> DEFINE m == IF spc = "sendVersion" THEN Message("version", 12, "")
                      ELSE Message("types", 2, Offer)
      <3>1. m.name \in {"version", "types"} /\ toClient' = toClient \o <<m>>
        BY <2>5 DEF ServerSendVersion, ServerOffer, ServerWrites, Message
      <3> HIDE DEF m
      <3>2. UNCHANGED toServer /\ spc \in {"sendVersion", "offer"}
        BY <2>5 DEF ServerSendVersion, ServerOffer, ServerWrites
      <3>3. /\ Len(toClient) \in Nat /\ Len(toClient') = Len(toClient) + 1
            /\ \A i \in 1..Len(toClient) : toClient'[i] = toClient[i]
            /\ toClient'[Len(toClient) + 1] = m
        BY <2>4, <3>1, AppendSingle, AppendOf
      <3>4. ~(cpc = "selectNone" /\ Offer = "vnc")
        <4> SUFFICES ASSUME cpc = "selectNone", Offer = "vnc" PROVE FALSE
          OBVIOUS
        <4>1. Order("server", toClient, ClientWants, ServerDue) /\ toClient = <<>>
          BY <3>2 DEF FramedInv, ToClient, Refused, Opening
        <4> QED
          BY <3>2, <4>1 DEF Order, ClientWants, ServerDue
      <3> QED
        BY <2>1, <3>1, <3>2, <3>3, <3>4 DEF Opening
    <2>6. CASE ServerReadVersion \/ ServerReadSelect
      <3>1. toServer # <<>> /\ UNCHANGED toClient /\ spc \in {"version", "select"}
        BY <2>6 DEF ServerReadVersion, ServerReadSelect, ServerReads, Read
      <3>2. /\ Head(toServer) = toServer[1] /\ Len(toServer) \in Nat \ {0}
            /\ Len(Tail(toServer)) = Len(toServer) - 1
            /\ \A i \in 1..Len(Tail(toServer)) : Tail(toServer)[i] = toServer[i + 1]
        BY <2>4, <3>1, TailOf
      <3>3. Head(toServer).name = "version" /\ cpc \notin {"version", "sendVersion"}
        BY <2>1, <3>1, <3>2 DEF Opening
      <3>4. toServer' = Rest(toServer, 12)
        BY <2>6, <3>3 DEF ServerReadVersion, ServerReadSelect, ServerReads, Read
      <3>5. Head(toServer).left = 12
        BY <3>1, <3>3, ServerFinds DEF FramedInv, Whole
      <3>6. toServer' = Tail(toServer)
        BY <3>4, <3>5 DEF Rest
      <3>7. \A i \in 1..Len(toServer') : toServer'[i].name = "version"
        BY <2>1, <3>2, <3>6 DEF Opening
      <3> QED
        BY <2>1, <3>1, <3>3, <3>7 DEF Opening
    <2> QED
      BY <2>3, <2>5, <2>6
  <1>2. CASE Client
    <2>1. ClientReadVersion \/ ClientSendVersion \/ ClientReadCount \/ ClientReadTypes
      BY <1>2 DEF Client, ClientHandshake, ClientSelectNone, ClientSelectVnc,
           ClientReadChallenge, ClientRespond, ClientReadResult, ClientReadReason,
           ClientShared, ClientReadSize, ClientReadFormat, ClientReadName,
           ClientConfigure, ClientSend, ClientRun, RunReads, ClientReads, ClientWrites,
           Choosing
    <2>2. CASE ClientSendVersion
      <3> DEFINE m == Message("version", 12, "")
      <3>1. /\ toServer' = toServer \o <<m>> /\ cpc = "sendVersion"
            /\ cpc' = "count" /\ UNCHANGED toClient
        BY <2>2 DEF ClientSendVersion, ClientWrites
      <3>2. m.name = "version"
        BY DEF Message
      <3> HIDE DEF m
      <3>3. toServer = <<>>
        BY <3>1 DEF Opening
      <3>4. toServer' = <<m>>
        BY <3>1, <3>3
      <3>5. \A i \in 1..Len(toServer') : toServer'[i].name = "version"
        BY <3>2, <3>4
      <3> QED
        BY <3>1, <3>5 DEF Opening, Choosing
    <2>3. CASE ClientReadVersion \/ ClientReadCount \/ ClientReadTypes
      <3>1. /\ toClient # <<>> /\ UNCHANGED <<toServer, spw>>
            /\ cpc \in {"version", "count", "types"}
        BY <2>3 DEF ClientReadVersion, ClientReadCount, ClientReadTypes, ClientReads, Read
      <3>2. PICK due : Order("server", toClient, ClientWants, due)
        BY <3>1 DEF FramedInv, ToClient
      <3>3. /\ Head(toClient) = toClient[1] /\ Len(toClient) \in Nat \ {0}
            /\ Len(Tail(toClient)) = Len(toClient) - 1
            /\ \A i \in 1..Len(Tail(toClient)) : Tail(toClient)[i] = toClient[i + 1]
        BY <3>1, <3>2, TailOf DEF Order
      <3>4. /\ Means(Head(toClient), Offer, cformat)
            /\ Head(toClient).left = IF cpc = "types"
                                     THEN Whole(Head(toClient).name, cformat) - 1
                                     ELSE Whole(Head(toClient).name, cformat)
        BY <3>1, ClientFinds DEF FramedInv
      <3>5. CASE ClientReadVersion
        <4>1. /\ cpc = "version" /\ cpc' = "sendVersion"
              /\ Head(toClient).name = "version" /\ toClient' = Rest(toClient, 12)
          BY <3>5 DEF ClientReadVersion, ClientReads, Read
        <4>2. toClient' = Tail(toClient)
          BY <3>4, <4>1 DEF Whole, Rest
        <4>3. \A i \in 1..Len(toClient') : toClient'[i].name \in {"version", "types"}
          BY <3>3, <4>1, <4>2 DEF Opening
        <4> QED
          BY <3>1, <4>1, <4>3 DEF Opening, Choosing
      <3>6. CASE ClientReadCount
        <4>1. /\ cpc = "count" /\ cpc' = "types"
              /\ Head(toClient).name = "types" /\ toClient' = Rest(toClient, 1)
          BY <3>6 DEF ClientReadCount, ClientReads, Read
        <4> DEFINE m == [Head(toClient) EXCEPT !.left = @ - 1]
        <4>2. toClient' = <<m>> \o Tail(toClient)
          BY <3>4, <4>1 DEF Whole, Rest
        <4>3. m.name = "types"
          BY <3>4, <4>1 DEF Means, Message
        <4> HIDE DEF m
        <4>4. /\ Len(toClient') = Len(toClient) /\ toClient'[1] = m
              /\ \A i \in 2..Len(toClient) : toClient'[i] = toClient[i]
          BY <3>1, <3>2, <4>2, PartOf DEF Order
        <4>5. \A i \in 1..Len(toClient') : toClient'[i].name \in {"version", "types"}
          BY <3>3, <4>1, <4>3, <4>4 DEF Opening
        <4> QED
          BY <3>1, <4>1, <4>5 DEF Opening, Choosing
      <3>7. CASE ClientReadTypes
        <4>1. /\ cpc = "types" /\ cpc' \in {"selectNone", "selectVnc"}
              /\ Head(toClient).name = "types" /\ toClient' = Rest(toClient, 1)
          BY <3>7 DEF ClientReadTypes, ClientReads, Read
        <4>2. toClient' = Tail(toClient)
          BY <3>4, <4>1 DEF Whole, Rest
        <4>3. ASSUME Len(toClient) > 1 PROVE FALSE
          <5>1. Kind(toClient[2]) = After("server", toClient[1])
            BY <3>2, <3>3, <4>3 DEF Order
          <5>2. Kind(toClient[2]) \in {"result", "challenge"}
            BY <3>3, <4>1, <5>1 DEF After
          <5>3. toClient[2].name \in {"version", "types"}
            BY <3>3, <4>1, <4>3 DEF Opening
          <5> QED
            BY <5>2, <5>3 DEF Kind
        <4>4. toClient' = <<>>
          BY <3>2, <3>3, <4>2, <4>3 DEF Order, IsSeq
        <4> QED
          BY <3>1, <4>1, <4>4 DEF Opening, Choosing
      <3> QED
        BY <2>3, <3>5, <3>6, <3>7
    <2> QED
      BY <2>1, <2>2, <2>3
  <1>3. CASE Break \/ ServerFails \/ ClientFails \/ UNCHANGED vars
    BY <1>3 DEF Break, ServerFails, ClientFails, vars, Opening, Offer, Choosing
  <1> QED
    BY <1>1, <1>2, <1>3 DEF Next

LEMMA FramedInit == Init => FramedInv /\ Opening
  <1> SUFFICES ASSUME Init PROVE FramedInv /\ Opening
    OBVIOUS
  <1>1. /\ toClient = <<>> /\ toServer = <<>> /\ spc = "sendVersion" /\ cpc = "version"
        /\ rpc = "update"
    BY DEF Init
  <1>2. IsSeq(<<>>) /\ Len(<<>>) = 0
    <2>1. <<>> \in Seq({})
      OBVIOUS
    <2> QED
      BY <2>1 DEF IsSeq
  <1>3. /\ Order("server", toClient, ClientWants, ServerDue)
        /\ Order("client", toServer, "version", ClientDue)
    BY <1>1, <1>2 DEF Order, ClientWants, ServerDue, ClientDue
  <1>4. Sound(toClient, 0, Offer, cformat) /\ Sound(toServer, 0, Offer, cformat)
    BY <1>1, <1>2 DEF Sound
  <1>5. "version" \in ServerWants /\ ~Looping
    BY <1>1 DEF ServerWants, Looping
  <1>6. ToClient /\ ToServer
    BY <1>1, <1>3, <1>4, <1>5 DEF ToClient, ToServer
  <1>7. Places
    BY <1>1 DEF Places, Offer
  <1>8. Opening
    BY <1>1, <1>2 DEF Opening
  <1> QED
    BY <1>6, <1>7, <1>8 DEF FramedInv

\* What the inductive invariant says, in the words of the property.
LEMMA FramedMeans == FramedInv => Framed
  <1> SUFFICES ASSUME FramedInv PROVE Framed
    OBVIOUS
  <1>1. ASSUME ClientExpects[2] > 0, toClient # <<>>
        PROVE  /\ Head(toClient).name = ClientExpects[1]
               /\ Head(toClient).left = ClientExpects[2]
    <2>1. cpc \in {"version", "count", "types", "challenge", "result", "reason", "size",
                   "format", "name", "ready"}
      BY <1>1 DEF ClientExpects
    <2>2. /\ Kind(Head(toClient)) = ClientWants
          /\ Head(toClient).left = IF cpc = "types"
                                   THEN Whole(Head(toClient).name, cformat) - 1
                                   ELSE Whole(Head(toClient).name, cformat)
      BY <1>1, <2>1, ClientFinds DEF FramedInv
    <2>3. ClientWants = ClientExpects[1] /\ ClientWants # "input"
      BY <2>1 DEF ClientWants, ClientExpects, FramedInv, Places
    <2>4. Head(toClient).name = ClientWants
      BY <2>2, <2>3 DEF Kind
    <2>5. ClientExpects[2] = IF cpc = "types" THEN Whole(ClientWants, cformat) - 1
                             ELSE Whole(ClientWants, cformat)
      <3>1. CASE cpc = "ready"
        <4>1. /\ ClientWants = rpc /\ rpc \in {"update", "rect", "pixels"}
              /\ ClientExpects[2] = CASE rpc = "update" -> 4 [] rpc = "rect" -> 12
                                       [] rpc = "pixels" -> PixelsSize
          BY <3>1 DEF ClientWants, ClientExpects, FramedInv, Places
        <4> QED
          BY <3>1, <4>1 DEF Whole, PixelsSize
      <3>2. CASE cpc # "ready"
        <4>1. CASE cpc = "version"
          BY <4>1 DEF ClientWants, ClientExpects, Whole
        <4>2. CASE cpc = "count"
          BY <4>2 DEF ClientWants, ClientExpects, Whole
        <4>3. CASE cpc = "types"
          BY <4>3 DEF ClientWants, ClientExpects, Whole
        <4>4. CASE cpc = "challenge"
          BY <4>4 DEF ClientWants, ClientExpects, Whole
        <4>5. CASE cpc = "result"
          BY <4>5 DEF ClientWants, ClientExpects, Whole
        <4>6. CASE cpc = "reason"
          BY <4>6 DEF ClientWants, ClientExpects, Whole
        <4>7. CASE cpc = "size"
          BY <4>7 DEF ClientWants, ClientExpects, Whole
        <4>8. CASE cpc = "format"
          BY <4>8 DEF ClientWants, ClientExpects, Whole
        <4>9. CASE cpc = "name"
          BY <4>9 DEF ClientWants, ClientExpects, Whole
        <4> QED
          BY <2>1, <3>2, <4>1, <4>2, <4>3, <4>4, <4>5, <4>6, <4>7, <4>8, <4>9
      <3> QED
        BY <3>1, <3>2
    <2> QED
      BY <2>2, <2>3, <2>4, <2>5
  <1>2. ASSUME spc = "loop", toServer # <<>>
        PROVE  LET m == Head(toServer) IN
               /\ m.name \in Inputs
               /\ m.name \in DOMAIN SentSize => m.left = SentSize[m.name]
    <2>1. /\ Kind(Head(toServer)) \in {"pixelFormat", "encodings", "input"}
          /\ Means(Head(toServer), Offer, cformat)
          /\ Head(toServer).left = Whole(Head(toServer).name, cformat)
      BY <1>2, ServerFinds DEF FramedInv, ServerWants
    <2>2. Head(toServer).name \in Inputs
      BY <2>1 DEF Kind, Means, Inputs
    <2>3. \A name \in DOMAIN SentSize : SentSize[name] = Whole(name, cformat)
      BY TextInt DEF SentSize, Whole
    <2> QED
      BY <2>1, <2>2, <2>3
  <1>3. ASSUME spc = "body"
        PROVE  /\ toServer # <<>> /\ Head(toServer).name = body
               /\ Head(toServer).left = BodySize(body)
    <2>1. IsSeq(toServer) /\ Len(toServer) > 0 /\ Head(toServer).name = body
      BY <1>3 DEF FramedInv, ToServer, Order, Sound
    <2>2. toServer # <<>>
      BY <2>1
    <2>3. /\ Kind(Head(toServer)) \in {"pixelFormat", "encodings", "input"}
          /\ Means(Head(toServer), Offer, cformat)
          /\ Head(toServer).left = Whole(body, cformat) - 1
      BY <1>3, <2>1, <2>2, ServerFinds DEF FramedInv, ServerWants
    <2>4. body \in Inputs
      BY <2>1, <2>3 DEF Kind, Means, Inputs
    <2>5. Whole(body, cformat) - 1 = BodySize(body)
      BY <2>4, TextInt DEF Inputs, Whole, BodySize, Body
    <2> QED
      BY <2>1, <2>2, <2>3, <2>5
  <1> QED
    BY <1>1, <1>2, <1>3 DEF Framed

\* Both sides agree on where every message begins and how long it is: through
\* the handshake, whichever way it goes, and in the session, for screens, names
\* and texts of any size and wherever the stream breaks.
THEOREM FramedTheorem == FairSpec => []Framed
  <1> QED
    BY FramedInit, FramedStep, OpeningStep, FramedMeans, PTL DEF FairSpec

\* The pixels that Run is about to read were encoded in the format that its
\* viewer has asked for at the end of the handshake.
PixelsInFormat ==
    cpc = "ready" /\ rpc = "pixels" /\ toClient # <<>> =>
       \E colour \in Colour :
          Head(toClient).value =
             [pixel |-> encode(FormatOf(cformat), colour), colour |-> colour]

LEMMA PixelsEncoded == FairSpec => []PixelsInFormat
  <1>1. FramedInv => PixelsInFormat
    <2> SUFFICES ASSUME FramedInv, cpc = "ready", rpc = "pixels", toClient # <<>>
                 PROVE  \E colour \in Colour :
                           Head(toClient).value =
                              [pixel |-> encode(FormatOf(cformat), colour),
                               colour |-> colour]
      BY DEF PixelsInFormat
    <2>1. Kind(Head(toClient)) = "pixels" /\ Means(Head(toClient), Offer, cformat)
      BY ClientFinds DEF FramedInv, ClientWants
    <2> QED
      BY <2>1 DEF Means, Kind
  <1> QED
    BY <1>1, FramedInit, FramedStep, OpeningStep, PTL DEF FairSpec

-----------------------------------------------------------------------------
(* Pixels *)

\* Induction up to the width of a channel's maximum.
LEMMA CountUp ==
  ASSUME NEW S, 0 \in S, \A i \in 0..15 : i \in S => i + 1 \in S
  PROVE  0..16 \subseteq S
  <1>1. 1 \in S /\ 2 \in S /\ 3 \in S /\ 4 \in S
    BY SMT
  <1>2. 5 \in S /\ 6 \in S /\ 7 \in S /\ 8 \in S
    BY <1>1, SMT
  <1>3. 9 \in S /\ 10 \in S /\ 11 \in S /\ 12 \in S
    BY <1>2, SMT
  <1>4. 13 \in S /\ 14 \in S /\ 15 \in S /\ 16 \in S
    BY <1>3, SMT
  <1> QED
    BY <1>1, <1>2, <1>3, <1>4, SMT

LEMMA Doubles ==
  ASSUME NEW i \in 0..15
  PROVE  2^(i + 1) = 2 * 2^i /\ 2^i \in Nat \ {0}
  <1>1. CASE i = 0
    BY <1>1, SMT
  <1>2. CASE i = 1
    BY <1>2, SMT
  <1>3. CASE i = 2
    BY <1>3, SMT
  <1>4. CASE i = 3
    BY <1>4, SMT
  <1>5. CASE i = 4
    BY <1>5, SMT
  <1>6. CASE i = 5
    BY <1>6, SMT
  <1>7. CASE i = 6
    BY <1>7, SMT
  <1>8. CASE i = 7
    BY <1>8, SMT
  <1>9. CASE i = 8
    BY <1>9, SMT
  <1>10. CASE i = 9
    BY <1>10, SMT
  <1>11. CASE i = 10
    BY <1>11, SMT
  <1>12. CASE i = 11
    BY <1>12, SMT
  <1>13. CASE i = 12
    BY <1>13, SMT
  <1>14. CASE i = 13
    BY <1>14, SMT
  <1>15. CASE i = 14
    BY <1>15, SMT
  <1>16. CASE i = 15
    BY <1>16, SMT
  <1> QED
    BY <1>1, <1>2, <1>3, <1>4, <1>5, <1>6, <1>7, <1>8,
       <1>9, <1>10, <1>11, <1>12, <1>13, <1>14, <1>15, <1>16, SMT

LEMMA PowersPositive == 2^0 = 1 /\ \A i \in 0..16 : 2^i \in Nat \ {0}
  <1>1. 2^0 = 1 /\ 2^16 \in Nat \ {0}
    BY SMT
  <1> QED
    BY <1>1, Doubles, SMT

\* A power is at most the next ones.
LEMMA Larger ==
  ASSUME NEW i \in 0..16, NEW w \in 0..i
  PROVE  2^w <= 2^i
  <1> DEFINE P(k) == 2^k
             S == {k \in 0..16 : w + k <= 16 => P(w) <= P(w + k)}
  <1>1. /\ \A k \in 0..16 : P(k) \in Nat
        /\ \A k \in 0..15 : P(k + 1) = 2 * P(k)
    BY PowersPositive, Doubles
  <1> HIDE DEF P
  <1>2. 0 \in S
    BY <1>1
  <1>3. ASSUME NEW k \in 0..15, k \in S PROVE k + 1 \in S
    <2>1. CASE w + k <= 15
      <3>1. P(w) <= P(w + k) /\ P(w + k) \in Nat /\ P(w) \in Nat /\ w + k \in 0..15
        BY <1>1, <1>3, <2>1
      <3>2. P((w + k) + 1) = 2 * P(w + k)
        BY <1>1, <3>1
      <3>3. (w + k) + 1 = w + (k + 1)
        OBVIOUS
      <3> QED
        BY <3>1, <3>2, <3>3
    <2>2. CASE w + k > 15
      BY <2>2
    <2> QED
      BY <2>1, <2>2
  <1>4. 0..16 \subseteq S
    <2> HIDE DEF S
    <2> QED
      BY <1>2, <1>3, CountUp
  <1>5. i - w \in S /\ w + (i - w) = i
    BY <1>4
  <1>6. P(w) <= P(i)
    BY <1>5
  <1> QED
    BY <1>6 DEF P

LEMMA Halving ==
  ASSUME NEW p \in Nat \ {0}, NEW n \in Nat
  PROVE  n \div (2 * p) = (n \div p) \div 2 /\ n \div p \in Nat
  BY SMT

LEMMA Halves ==
  ASSUME NEW i \in 0..15, NEW n \in Nat
  PROVE  n \div 2^(i + 1) = (n \div 2^i) \div 2 /\ n \div 2^i \in Nat
  <1> DEFINE p == 2^i
  <1>1. p \in Nat \ {0} /\ 2^(i + 1) = 2 * p
    BY Doubles
  <1> HIDE DEF p
  <1>2. n \div (2 * p) = (n \div p) \div 2 /\ n \div p \in Nat
    BY <1>1, Halving
  <1> QED
    BY <1>1, <1>2 DEF p

\* What is below a power has nothing left when divided by it.
LEMMA Exhausted ==
  ASSUME NEW i \in 0..16, NEW w \in 0..i, NEW n \in 0..2^w - 1
  PROVE  n \in Nat /\ n \div 2^i = 0
  <1> DEFINE p == 2^i
             q == 2^w
  <1>1. p \in Nat \ {0} /\ q \in Nat
    <2>1. i \in 0..16 /\ w \in 0..16
      OBVIOUS
    <2> QED
      BY <2>1, PowersPositive
  <1>2. q <= p
    BY Larger
  <1>3. n \in 0..q - 1
    OBVIOUS
  <1> HIDE DEF p, q
  <1>4. n \div p = 0 /\ n \in Nat
    BY <1>1, <1>2, <1>3
  <1> QED
    BY <1>4 DEF p

\* A number below 2^16 is given by its bits.
LEMMA SameBits ==
  ASSUME NEW m \in 0..2^16 - 1, NEW n \in 0..2^16 - 1, Bits(m) = Bits(n)
  PROVE  m = n
  <1> DEFINE M(i) == m \div 2^i
             N(i) == n \div 2^i
             S == {k \in 0..16 : M(16 - k) = N(16 - k)}
  <1>1. m \in Nat /\ n \in Nat /\ M(16) = 0 /\ N(16) = 0
    <2>1. 16 \in 0..16
      OBVIOUS
    <2> QED
      BY <2>1, Exhausted
  <1>2. \A i \in 0..15 : /\ M(i + 1) = M(i) \div 2 /\ M(i) \in Nat
                         /\ N(i + 1) = N(i) \div 2 /\ N(i) \in Nat
    BY <1>1, Halves
  <1>3. \A i \in 0..15 : M(i) % 2 = 1 <=> N(i) % 2 = 1
    BY DEF Bits
  <1>4. M(0) = m /\ N(0) = n
    BY <1>1, PowersPositive
  <1> HIDE DEF M, N
  <1>5. 0 \in S
    BY <1>1
  <1>6. ASSUME NEW k \in 0..15, k \in S PROVE k + 1 \in S
    <2> DEFINE i == 16 - (k + 1)
    <2>1. i \in 0..15 /\ i + 1 = 16 - k /\ k + 1 \in 0..16
      OBVIOUS
    <2>2. M(i + 1) = N(i + 1)
      BY <1>6, <2>1
    <2> HIDE DEF i
    <2>3. \A a, b \in Nat : a \div 2 = b \div 2 /\ (a % 2 = 1 <=> b % 2 = 1) => a = b
      BY SMT
    <2>4. /\ M(i) \in Nat /\ N(i) \in Nat /\ M(i) \div 2 = N(i) \div 2
          /\ M(i) % 2 = 1 <=> N(i) % 2 = 1
      BY <1>2, <1>3, <2>1, <2>2
    <2>5. M(i) = N(i)
      BY <2>3, <2>4
    <2> QED
      BY <2>1, <2>5 DEF i
  <1>7. 0..16 \subseteq S
    <2> HIDE DEF S
    <2> QED
      BY <1>5, <1>6, CountUp
  <1>8. 16 \in S /\ 16 - 16 = 0
    BY <1>7
  <1> QED
    BY <1>4, <1>8

LEMMA NumberOfBits ==
  ASSUME NEW n \in 0..2^16 - 1
  PROVE  Number(Bits(n)) = n
  <1> DEFINE D == 0..2^16 - 1
  <1> HIDE DEF D
  <1>1. n \in D /\ \A m \in D : Bits(m) = Bits(n) => m = n
    BY SameBits DEF D
  <1> QED
    BY <1>1 DEF Number, D

\* What fits in w bits has no others.
LEMMA BitsBelow ==
  ASSUME NEW w \in 0..16, NEW v \in 0..2^w - 1
  PROVE  Bits(v) \subseteq 0..w - 1
  <1> DEFINE D(i) == v \div 2^i
  <1>1. ASSUME NEW i \in 0..15, i >= w PROVE D(i) = 0
    <2>1. i \in 0..16 /\ w \in 0..i
      BY <1>1
    <2> QED
      BY <2>1, Exhausted
  <1>2. Bits(v) = {i \in 0..15 : D(i) % 2 = 1}
    BY DEF Bits
  <1> HIDE DEF D
  <1>3. \A i \in 0..15 : D(i) % 2 = 1 => i < w
    BY <1>1
  <1> QED
    BY <1>2, <1>3

\* A maximum of w ones has them all.
LEMMA BitsOfMask ==
  ASSUME NEW w \in 0..16
  PROVE  Bits(2^w - 1) = 0..w - 1
  <1> DEFINE P(k) == 2^k
             m == P(w) - 1
             M(i) == m \div 2^i
             S == {i \in 0..16 : i <= w => M(i) = P(w - i) - 1}
  <1>1. /\ \A k \in 0..16 : P(k) \in Nat \ {0}
        /\ \A k \in 0..15 : P(k + 1) = 2 * P(k)
        /\ P(0) = 1
    BY PowersPositive, Doubles
  <1>2. m \in Nat
    <2> HIDE DEF P
    <2> QED
      BY <1>1
  <1>3. \A i \in 0..15 : M(i + 1) = M(i) \div 2 /\ M(i) \in Nat
    BY <1>2, Halves
  <1>4. M(0) = m
    <2> HIDE DEF m
    <2> QED
      BY <1>2, PowersPositive
  <1> HIDE DEF P, M
  <1>5. 0 \in S
    BY <1>4
  <1>6. ASSUME NEW i \in 0..15, i \in S PROVE i + 1 \in S
    <2> SUFFICES ASSUME i + 1 <= w
                 PROVE  M(i + 1) = P(w - (i + 1)) - 1
      OBVIOUS
    <2> DEFINE p == P(w - (i + 1))
    <2>1. w - (i + 1) \in 0..15 /\ (w - (i + 1)) + 1 = w - i
      OBVIOUS
    <2>2. p \in Nat \ {0} /\ P(w - i) = 2 * p
      BY <1>1, <2>1
    <2>3. M(i) = 2 * p - 1 /\ M(i + 1) = M(i) \div 2
      BY <1>3, <1>6, <2>2
    <2> HIDE DEF p
    <2>4. (2 * p - 1) \div 2 = p - 1
      BY <2>2
    <2> QED
      BY <2>3, <2>4 DEF p
  <1>7. 0..16 \subseteq S
    <2> HIDE DEF S
    <2> QED
      BY <1>5, <1>6, CountUp
  <1>8. ASSUME NEW i \in 0..15, i < w PROVE M(i) % 2 = 1
    <2> DEFINE p == P(w - (i + 1))
    <2>1. w - (i + 1) \in 0..15 /\ (w - (i + 1)) + 1 = w - i
      BY <1>8
    <2>2. p \in Nat \ {0} /\ P(w - i) = 2 * p
      BY <1>1, <2>1
    <2>3. M(i) = 2 * p - 1
      BY <1>7, <1>8, <2>2
    <2> HIDE DEF p
    <2>4. (2 * p - 1) % 2 = 1
      BY <2>2
    <2> QED
      BY <2>3, <2>4
  <1>9. Bits(2^w - 1) = {i \in 0..15 : M(i) % 2 = 1}
    BY DEF Bits, M, P
  <1>10. 2^w - 1 \in 0..2^w - 1
    <2>1. P(w) - 1 \in 0..P(w) - 1
      BY <1>1
    <2> QED
      BY <2>1 DEF P
  <1>11. 0..w - 1 \subseteq 0..15
    OBVIOUS
  <1>12. Bits(2^w - 1) \subseteq 0..w - 1
    BY <1>10, BitsBelow
  <1>13. 0..w - 1 \subseteq {i \in 0..15 : M(i) % 2 = 1}
    <2> SUFFICES ASSUME NEW i \in 0..w - 1
                 PROVE  i \in 0..15 /\ M(i) % 2 = 1
      OBVIOUS
    <2>1. i \in 0..15 /\ i < w
      BY <1>11
    <2> QED
      BY <1>8, <2>1
  <1> HIDE DEF m, S
  <1> QED
    BY <1>9, <1>12, <1>13

-----------------------------------------------------------------------------
(* A channel there and back *)

\* A true-colour format as RFB means it: maxima of ones only, and channels that
\* fit in the pixel and do not overlap.
ValidFormat(f) ==
    /\ f.bits \in {8, 16, 32} /\ f.big \in BOOLEAN
    /\ \E width \in [Channel -> 0..16] : \A c \in Channel :
          /\ f.max[c] = 2^width[c] - 1 /\ f.shift[c] \in Nat
          /\ f.shift[c] + width[c] <= f.bits
          /\ \A d \in Channel \ {c} : \/ f.shift[c] + width[c] <= f.shift[d]
                                      \/ f.shift[d] + width[d] <= f.shift[c]

\* The screen has eight bits per channel.
OnScreen(colour) == \A c \in Channel : colour[c] \in 0..255

Scaled(f, colour, c) == (colour[c] * f.max[c]) \div 255
Word(f, colour) ==
    UNION {ShiftLeft(Bits(Scaled(f, colour, c)), f.shift[c]) : c \in Channel}

Assembled(f, pixel) ==
    UNION {ShiftLeft(pixel[k], 8 * (IF f.big THEN Len(pixel) - k ELSE k - 1)) :
              k \in 1..Len(pixel)}

\* Scaling rounds down, and never past the maximum.
LEMMA ScaleDown ==
  ASSUME NEW a \in 0..255, NEW m \in Nat
  PROVE  LET q == (a * m) \div 255 IN
         q \in 0..m /\ q * 255 <= a * m /\ a * m < (q + 1) * 255
  <1> DEFINE p == a * m
  <1>1. p \in Nat /\ p <= 255 * m
    BY SMT
  <1> HIDE DEF p
  <1>2. p \div 255 \in 0..m /\ (p \div 255) * 255 <= p /\ p < (p \div 255 + 1) * 255
    BY <1>1, SMT
  <1> QED
    BY <1>2 DEF p

\* What the word holds where a channel belongs is that channel, and nothing
\* lies outside the pixel.
LEMMA FieldKept ==
  ASSUME NEW f, ValidFormat(f), NEW colour, OnScreen(colour)
  PROVE  /\ Word(f, colour) \subseteq 0..f.bits - 1
         /\ \A c \in Channel :
               {i \in Bits(f.max[c]) : i + f.shift[c] \in Word(f, colour)}
                  = Bits(Scaled(f, colour, c))
  <1>1. PICK width \in [Channel -> 0..16] : \A c \in Channel :
           /\ f.max[c] = 2^width[c] - 1 /\ f.shift[c] \in Nat
           /\ f.shift[c] + width[c] <= f.bits
           /\ \A d \in Channel \ {c} : \/ f.shift[c] + width[c] <= f.shift[d]
                                       \/ f.shift[d] + width[d] <= f.shift[c]
    BY DEF ValidFormat
  <1> DEFINE Ones(c) == Bits(Scaled(f, colour, c))
  <1>2. ASSUME NEW c \in Channel
        PROVE  /\ Ones(c) \subseteq 0..width[c] - 1
               /\ Bits(f.max[c]) = 0..width[c] - 1
    <2>1. width[c] \in 0..16 /\ f.max[c] \in Nat /\ f.max[c] = 2^width[c] - 1
      <3> DEFINE p == 2^width[c]
      <3>1. width[c] \in 0..16 /\ p \in Nat \ {0} /\ f.max[c] = p - 1
        BY <1>1, PowersPositive
      <3> HIDE DEF p
      <3>2. f.max[c] \in Nat
        BY <3>1
      <3> QED
        BY <3>1, <3>2 DEF p
    <2>2. Scaled(f, colour, c) \in 0..f.max[c]
      BY <2>1, ScaleDown DEF Scaled, OnScreen
    <2> QED
      BY <2>1, <2>2, BitsBelow, BitsOfMask
  <1>3. \A j : j \in Word(f, colour) <=>
                  \E c \in Channel : \E i \in Ones(c) : j = i + f.shift[c] /\ j \in 0..31
    BY DEF Word, ShiftLeft
  <1> HIDE DEF Ones
  <1>4. f.bits \in {8, 16, 32}
    BY DEF ValidFormat
  <1>5. ASSUME NEW j \in Word(f, colour) PROVE j \in 0..f.bits - 1
    <2>1. PICK c \in Channel : \E i \in Ones(c) : j = i + f.shift[c]
      BY <1>3
    <2>2. PICK i \in 0..width[c] - 1 : j = i + f.shift[c]
      BY <1>2, <2>1
    <2>3. width[c] \in 0..16 /\ f.shift[c] \in Nat /\ f.shift[c] + width[c] <= f.bits
      BY <1>1
    <2> QED
      BY <1>4, <2>2, <2>3
  <1>6. ASSUME NEW c \in Channel, NEW i \in 0..width[c] - 1
        PROVE  i + f.shift[c] \in Word(f, colour) <=> i \in Ones(c)
    <2>1. i \in Nat /\ f.shift[c] \in Nat /\ i + f.shift[c] \in 0..31
      BY <1>1, <1>4
    <2>2. ASSUME NEW d \in Channel, NEW k \in Ones(d), i + f.shift[c] = k + f.shift[d]
          PROVE  d = c /\ k = i
      <3>1. /\ k \in 0..width[d] - 1 /\ width[d] \in 0..16 /\ f.shift[d] \in Nat
            /\ i \in 0..width[c] - 1 /\ width[c] \in 0..16 /\ f.shift[c] \in Nat
        BY <1>1, <1>2
      <3>2. d # c => \/ f.shift[c] + width[c] <= f.shift[d]
                     \/ f.shift[d] + width[d] <= f.shift[c]
        BY <1>1
      <3>3. d = c
        BY <2>2, <3>1, <3>2
      <3> QED
        BY <2>2, <3>1, <3>3
    <2> QED
      BY <1>3, <2>1, <2>2
  <1>7. ASSUME NEW c \in Channel
        PROVE  {i \in Bits(f.max[c]) : i + f.shift[c] \in Word(f, colour)} = Ones(c)
    BY <1>2, <1>6
  <1> QED
    BY <1>5, <1>7 DEF Ones

\* The bytes of a pixel in the order the format says, and what they make.
LEMMA WordArrives ==
  ASSUME NEW f, ValidFormat(f), NEW colour, OnScreen(colour)
  PROVE  Assembled(f, encode(f, colour)) = Word(f, colour)
  <1> DEFINE n == bytesPerPixel(f)
             place == [k \in 1..n |-> IF f.big THEN n - k ELSE k - 1]
             pixel == encode(f, colour)
  <1>1. n \in {1, 2, 4} /\ f.bits = 8 * n /\ f.big \in BOOLEAN
    BY DEF ValidFormat, bytesPerPixel
  <1>2. Word(f, colour) \in SUBSET (0..8 * n - 1)
    BY <1>1, FieldKept
  <1>3. pixel = [k \in 1..n |-> ByteAt(Word(f, colour), place[k])]
    BY DEF encode, Word, Scaled
  <1> HIDE DEF n, pixel
  <1>4. Len(pixel) = n
    BY <1>1, <1>3
  <1>5. place \in [1..n -> 0..n - 1]
    BY <1>1
  <1>6. ASSUME NEW p \in 0..n - 1 PROVE \E k \in 1..n : place[k] = p
    <2>1. CASE f.big
      <3>1. n - p \in 1..n /\ place[n - p] = p
        BY <1>1, <2>1
      <3> QED
        BY <3>1
    <2>2. CASE ~f.big
      <3>1. p + 1 \in 1..n /\ place[p + 1] = p
        BY <1>1, <2>2
      <3> QED
        BY <3>1
    <2> QED
      BY <2>1, <2>2
  <1>7. \A k \in 1..n : place[k] = IF f.big THEN n - k ELSE k - 1
    OBVIOUS
  <1> HIDE DEF place
  <1> DEFINE back == UNION {ShiftLeft(pixel[k], 8 * place[k]) : k \in 1..n}
             word == Word(f, colour)
  <1>8. \A j : j \in back <=> \E k \in 1..n : j \in ShiftLeft(pixel[k], 8 * place[k])
    BY Zenon
  <1>9. pixel = [k \in 1..n |-> ByteAt(word, place[k])] /\ word \in SUBSET (0..8 * n - 1)
    BY <1>2, <1>3
  <1> HIDE DEF back, word
  <1>10. ASSUME NEW k \in 1..n, NEW j \in ShiftLeft(pixel[k], 8 * place[k])
         PROVE  j \in word
    BY <1>5, <1>9, <1>10 DEF ShiftLeft, ByteAt
  <1>11. ASSUME NEW j \in word
         PROVE  \E k \in 1..n : j \in ShiftLeft(pixel[k], 8 * place[k])
    <2>1. /\ j \in 0..31 /\ j \div 8 \in 0..n - 1
          /\ j % 8 \in 0..7 /\ (j % 8) + 8 * (j \div 8) = j
      BY <1>1, <1>9
    <2>2. PICK k \in 1..n : place[k] = j \div 8
      BY <1>6, <2>1
    <2>3. j % 8 \in pixel[k]
      BY <1>9, <2>1, <2>2 DEF ByteAt
    <2>4. (j % 8) + 8 * place[k] = j
      BY <2>1, <2>2
    <2>5. j \in ShiftLeft(pixel[k], 8 * place[k])
      BY <2>1, <2>3, <2>4 DEF ShiftLeft
    <2> QED
      BY <2>5
  <1>12. back = word
    <2>1. back \subseteq word /\ word \subseteq back
      BY <1>8, <1>10, <1>11
    <2> QED
      BY <2>1
  <1>13. UNION {ShiftLeft(pixel[k], 8 * (IF f.big THEN n - k ELSE k - 1)) : k \in 1..n}
            = Word(f, colour)
    BY <1>7, <1>12 DEF back, word
  <1> QED
    BY <1>4, <1>13 DEF pixel, Assembled

\* Whatever valid format a viewer asks for, what it makes of a pixel is, in each
\* channel, the colour of the screen, scaled down to what the format can hold.
THEOREM ColourTheorem ==
  ASSUME NEW f, ValidFormat(f), NEW colour, OnScreen(colour)
  PROVE  SameColour(f, encode(f, colour), colour)
  <1> SUFFICES ASSUME NEW c \in Channel
               PROVE  LET v == Value(f, encode(f, colour), c) IN
                      v * 255 <= colour[c] * f.max[c] /\ colour[c] * f.max[c] < (v + 1) * 255
    BY DEF SameColour
  <1> DEFINE q == Scaled(f, colour, c)
  <1>1. f.max[c] \in 0..2^16 - 1 /\ f.max[c] \in Nat
    <2>1. PICK w \in 0..16 : f.max[c] = 2^w - 1
      BY DEF ValidFormat
    <2> DEFINE p == 2^w
               P == 2^16
    <2>2. f.max[c] = p - 1
      BY <2>1
    <2>3. p \in Nat \ {0} /\ P \in Nat /\ p <= P
      <3>1. w \in 0..16 /\ 16 \in 0..16
        OBVIOUS
      <3> QED
        BY <3>1, PowersPositive, Larger
    <2> HIDE DEF p, P
    <2>4. f.max[c] \in 0..P - 1 /\ f.max[c] \in Nat
      BY <2>2, <2>3
    <2> QED
      BY <2>4 DEF P
  <1>2. q \in 0..f.max[c] /\ q * 255 <= colour[c] * f.max[c]
           /\ colour[c] * f.max[c] < (q + 1) * 255
    BY <1>1, ScaleDown DEF Scaled, OnScreen
  <1>3. Value(f, encode(f, colour), c) = Number(Bits(q))
    <2> DEFINE pixel == encode(f, colour)
    <2> HIDE DEF pixel
    <2>1. Value(f, pixel, c) =
             Number({i \in Bits(f.max[c]) : i + f.shift[c] \in Assembled(f, pixel)})
      BY DEF Value, Assembled
    <2>2. Assembled(f, pixel) = Word(f, colour)
      BY WordArrives DEF pixel
    <2>3. {i \in Bits(f.max[c]) : i + f.shift[c] \in Word(f, colour)} = Bits(q)
      BY FieldKept
    <2> QED
      BY <2>1, <2>2, <2>3 DEF pixel
  <1>4. q \in 0..2^16 - 1
    <2> DEFINE P == 2^16
    <2>1. P \in Nat /\ f.max[c] \in 0..P - 1
      BY <1>1, PowersPositive
    <2> HIDE DEF P, q
    <2>2. q \in 0..P - 1
      BY <1>2, <2>1
    <2> QED
      BY <2>2 DEF P
  <1>5. Number(Bits(q)) = q
    BY <1>4, NumberOfBits
  <1> QED
    BY <1>2, <1>3, <1>5

\* The formats of the viewers are valid ones.
LEMMA FormatsValid ==
  ASSUME NEW name \in {"builtin", "rgb565big", "bgr233"}
  PROVE  ValidFormat(FormatOf(name))
  <1> DEFINE f == FormatOf(name)
             Fits(width) == \A c \in Channel :
                /\ f.max[c] = 2^width[c] - 1 /\ f.shift[c] \in Nat
                /\ f.shift[c] + width[c] <= f.bits
                /\ \A d \in Channel \ {c} : \/ f.shift[c] + width[c] <= f.shift[d]
                                            \/ f.shift[d] + width[d] <= f.shift[c]
  <1>1. 2^2 = 4 /\ 2^3 = 8 /\ 2^5 = 32 /\ 2^6 = 64 /\ 2^8 = 256
    BY SMT
  <1>2. CASE name = "builtin"
    <2> DEFINE width == [c \in Channel |-> 8]
    <2>1. width \in [Channel -> 0..16] /\ Fits(width)
      BY <1>1, <1>2 DEF FormatOf, RGB, Channel
    <2> QED
      BY <1>2, <2>1 DEF ValidFormat, FormatOf
  <1>3. CASE name = "rgb565big"
    <2> DEFINE width == [c \in Channel |-> IF c = "green" THEN 6 ELSE 5]
    <2>1. width \in [Channel -> 0..16] /\ Fits(width)
      BY <1>1, <1>3 DEF FormatOf, RGB, Channel
    <2> QED
      BY <1>3, <2>1 DEF ValidFormat, FormatOf
  <1>4. CASE name = "bgr233"
    <2> DEFINE width == [c \in Channel |-> IF c = "blue" THEN 2 ELSE 3]
    <2>1. width \in [Channel -> 0..16] /\ Fits(width)
      BY <1>1, <1>4 DEF FormatOf, RGB, Channel
    <2> QED
      BY <1>4, <2>1 DEF ValidFormat, FormatOf
  <1> QED
    BY <1>2, <1>3, <1>4

\* Every colour of the screen in the built-in format is what decodeRaw makes of
\* it, exactly.
THEOREM BuiltinTheorem ==
  ASSUME NEW r \in 0..255, NEW g \in 0..255, NEW b \in 0..255
  PROVE  decodeRaw(encode(FormatOf("builtin"), RGB(r, g, b))) = RGB(r, g, b)
  <1> DEFINE f == FormatOf("builtin")
             colour == RGB(r, g, b)
             word == Word(f, colour)
             pixel == encode(f, colour)
  <1>1. /\ f.bits = 32 /\ f.big = FALSE /\ \A c \in Channel : f.max[c] = 255
        /\ f.shift["red"] = 16 /\ f.shift["green"] = 8 /\ f.shift["blue"] = 0
    BY DEF FormatOf, RGB, Channel
  <1>2. /\ colour["red"] = r /\ colour["green"] = g /\ colour["blue"] = b
        /\ OnScreen(colour)
    BY DEF RGB, Channel, OnScreen
  <1>3. ValidFormat(f)
    BY FormatsValid
  <1>4. pixel = [k \in 1..4 |-> ByteAt(word, k - 1)]
    <2> HIDE DEF f, colour
    <2>1. bytesPerPixel(f) = 4
      BY <1>1 DEF bytesPerPixel
    <2>2. pixel = [k \in 1..bytesPerPixel(f) |->
                      ByteAt(word, IF f.big THEN bytesPerPixel(f) - k ELSE k - 1)]
      BY DEF encode, Word, Scaled
    <2> HIDE DEF pixel, word
    <2> QED
      BY <1>1, <2>1, <2>2
  <1> HIDE DEF f, colour, pixel
  <1>5. Bits(255) = 0..7
    <2>1. 2^8 - 1 = 255
      BY SMT
    <2> QED
      BY <2>1, BitsOfMask
  <1>6. ASSUME NEW c \in Channel, NEW a \in 0..255, colour[c] = a
        PROVE  Number({i \in 0..7 : i + f.shift[c] \in word}) = a
    <2>1. Scaled(f, colour, c) = a
      <3>1. f.max[c] = 255 /\ (a * 255) \div 255 = a
        BY <1>1
      <3> QED
        BY <1>6, <3>1 DEF Scaled
    <2>2. {i \in 0..7 : i + f.shift[c] \in word} = Bits(a)
      BY <1>1, <1>2, <1>3, <1>5, <2>1, FieldKept
    <2>3. a \in 0..2^16 - 1
      BY <1>6, SMT
    <2> QED
      BY <2>2, <2>3, NumberOfBits
  <1> HIDE DEF word
  <1>7. /\ pixel[1] = {i \in 0..7 : i + f.shift["blue"] \in word}
        /\ pixel[2] = {i \in 0..7 : i + f.shift["green"] \in word}
        /\ pixel[3] = {i \in 0..7 : i + f.shift["red"] \in word}
    BY <1>1, <1>4 DEF ByteAt
  <1>8. Number(pixel[1]) = b /\ Number(pixel[2]) = g /\ Number(pixel[3]) = r
    BY <1>2, <1>6, <1>7 DEF Channel
  <1>9. decodeRaw(pixel) = RGB(r, g, b)
    BY <1>8 DEF decodeRaw, RGB
  <1> QED
    BY <1>9 DEF pixel, f, colour

\* What a viewer asks for, and what the built-in one makes of it.
LEMMA PixelMade ==
  ASSUME NEW name \in {"builtin", "rgb565big", "bgr233"},
         NEW r \in 0..255, NEW g \in 0..255, NEW b \in 0..255
  PROVE  LET colour == RGB(r, g, b)
             pixel == encode(FormatOf(name), colour)
         IN /\ SameColour(FormatOf(name), pixel, colour)
            /\ name = "builtin" => decodeRaw(pixel) = colour
  <1>1. OnScreen(RGB(r, g, b))
    BY DEF RGB, Channel, OnScreen
  <1>2. ValidFormat(FormatOf(name))
    BY FormatsValid
  <1>3. SameColour(FormatOf(name), encode(FormatOf(name), RGB(r, g, b)), RGB(r, g, b))
    BY <1>1, <1>2, ColourTheorem
  <1>4. decodeRaw(encode(FormatOf("builtin"), RGB(r, g, b))) = RGB(r, g, b)
    BY BuiltinTheorem
  <1> QED
    BY <1>3, <1>4

LEMMA ColoursMade ==
  ASSUME NEW name \in {"builtin", "rgb565big", "bgr233"}, NEW colour \in Colour
  PROVE  /\ SameColour(FormatOf(name), encode(FormatOf(name), colour), colour)
         /\ name = "builtin" => decodeRaw(encode(FormatOf(name), colour)) = colour
  <1> DEFINE Made(c) ==
        /\ SameColour(FormatOf(name), encode(FormatOf(name), c), c)
        /\ name = "builtin" => decodeRaw(encode(FormatOf(name), c)) = c
  <1>1. \A r, g, b \in 0..255 : Made(RGB(r, g, b))
    BY PixelMade
  <1> HIDE DEF Made
  <1>2. Made(RGB(0, 128, 255)) /\ Made(RGB(255, 131, 8))
    <2>1. 0 \in 0..255 /\ 8 \in 0..255 /\ 128 \in 0..255 /\ 131 \in 0..255 /\ 255 \in 0..255
      BY SMT
    <2> QED
      BY <1>1, <2>1, Zenon
  <1>3. Made(colour)
    BY <1>2, Zenon DEF Colour
  <1> QED
    BY <1>3 DEF Made

\* From the protocol's half, PixelsInFormat, and that of the arithmetic: a viewer
\* that asks for a format once, before its first request, gets every pixel of every
\* update in it, each channel scaled down to what that format holds.
THEOREM PixelsTheorem == FairSpec => []PixelsArrive
  <1>1. PixelsInFormat /\ AuthInv => PixelsArrive
    <2> SUFFICES ASSUME PixelsInFormat, AuthInv,
                        cpc = "ready", rpc = "pixels", toClient # <<>>
                 PROVE  LET sent == Head(toClient).value IN
                        /\ SameColour(FormatOf(cformat), sent.pixel, sent.colour)
                        /\ cformat = "builtin" => decodeRaw(sent.pixel) = sent.colour
      BY DEF PixelsArrive
    <2>1. PICK colour \in Colour :
             Head(toClient).value =
                [pixel |-> encode(FormatOf(cformat), colour), colour |-> colour]
      BY DEF PixelsInFormat
    <2>2. cformat \in {"builtin", "rgb565big", "bgr233"}
      BY RfbAssumption DEF AuthInv
    <2> DEFINE made == encode(FormatOf(cformat), colour)
    <2>3. /\ SameColour(FormatOf(cformat), made, colour)
          /\ cformat = "builtin" => decodeRaw(made) = colour
      BY <2>2, ColoursMade
    <2> HIDE DEF made
    <2>4. Head(toClient).value.pixel = made /\ Head(toClient).value.colour = colour
      BY <2>1 DEF made
    <2> QED
      BY <2>3, <2>4
  <1>2. Init => AuthInv
    BY DEF Init, AuthInv, Admitted
  <1> QED
    BY <1>1, <1>2, AuthStep, PixelsEncoded, PTL DEF FairSpec
=============================================================================
