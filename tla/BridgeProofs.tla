---------------------------- MODULE BridgeProofs ----------------------------
(***************************************************************************)
(* Proofs about Bridge: its type invariant, that its two ends keep step,   *)
(* that an acknowledgement is the truth, and that the manifest is the      *)
(* directory, for every list of files, whatever they hold whenever they    *)
(* are read, wherever either end fails.                                    *)
(***************************************************************************)
EXTENDS Bridge, SequenceTheorems, TLAPS

-----------------------------------------------------------------------------
(* Types.                                                                  *)

Headers == [kind : {"header"}, file : Sendable, sum : Contents]
Replies == [word : {"OK", "NO", "ACK", "NAK", "BYE"}, sum : Seq(Bytes)]

Size == items[item].size

\* What each step holds, beside the types.
Placed ==
  /\ items \in Seq(Sendable) /\ item \in Nat /\ (phone_open => item >= 1)
  /\ phone \in {"body", "reply"} => item \in 1 .. Len(items) /\ sent <= Size
  /\ phone = "reply" => sent = Size
  /\ phone = "body" => reading \in Contents
  /\ phone \in {"body", "reply"} => sum \in Contents
  /\ to_phone \in Seq(Replies)
  /\ desktop = "body" => header \in Headers /\ disk[Local] \in Seq(Bytes)
  /\ disk \in [Locals -> Seq(Bytes) \cup {NoFile}]
  /\ files \in Seq([local : Locals, sum : Seq(Bytes)])
  /\ results \in Seq([accepted : BOOLEAN, sum : Seq(Bytes)])

Types == TypeOK /\ Placed

LEMMA Constants ==
  /\ MaxFile \in Nat /\ MaxConnections \in Nat
  /\ \A f \in Sendable : f.size \in Nat /\ f.local \in Locals
  /\ Transfers \subseteq Seq(Sendable) /\ Contents \subseteq Seq(Bytes) /\ NoFile \notin Contents
BY BridgeAssumption DEF Locals

\* What goes over the connection.
LEMMA UnitsTyped ==
  /\ End \in Units /\ \A b \in Bytes : ByteOf(b) \in Units
  /\ HelloOf("right") \in Units /\ HelloOf("wrong") \in Units
  /\ \A f \in Sendable, s \in Contents : HeaderOf(f, s) \in Units
  /\ \A u \in Units : /\ u.kind = "header" => u \in Headers
                      /\ u.kind = "byte" => u.byte \in Bytes
                      /\ u.kind = "end" => u = End
                      /\ u.kind \in {"hello", "header", "byte", "end"}
BY DEF Units, Headers, End, ByteOf, HelloOf, HeaderOf

LEMMA RepliesTyped ==
  /\ \A w \in {"OK", "NO", "NAK", "BYE"} : Reply(w) \in Replies
  /\ \A w \in {"ACK", "NAK"}, s \in Seq(Bytes) : [word |-> w, sum |-> s] \in Replies
<1>1. <<>> \in Seq(Bytes)
  OBVIOUS
<1>2. QED
  BY <1>1 DEF Reply, Replies

LEMMA TypesInit == Init => Types
<1> SUFFICES ASSUME Init PROVE Types
  OBVIOUS
<1>1. TypeOK
  <2>1. /\ items \in Transfers \cup {<<>>} /\ item \in 0 .. Len(items) + 1
        /\ to_desktop \in Seq(Units) /\ Len(to_phone) = 0 /\ sent \in Nat /\ left \in Nat
        /\ DOMAIN disk = Locals /\ 0 \in 0 .. MaxConnections
    BY Constants DEF Init
  <2>2. phone_open = (phone \notin {"idle", "done"})
    BY DEF Init
  <2>3. \A i \in 1 .. Len(to_phone) : to_phone[i].word \in {"OK", "NO", "ACK", "NAK", "BYE"}
    BY <2>1
  <2> QED BY <2>1, <2>2, <2>3 DEF Init, TypeOK
<1>2. Placed
  BY DEF Init, Placed
<1>3. QED
  BY <1>1, <1>2 DEF Types

LEMMA PhoneTypes ==
  ASSUME Types, Connect \/ Phone \/ PhoneFails
  PROVE  Types'
<1> USE DEF Types, TypeOK, Placed
<1>a. items \in Seq(Sendable) /\ \A i \in 1 .. Len(items) : items[i] \in Sendable /\ items[i].size \in Nat
  BY Constants
<1>1. CASE Connect
  <2>1. items' \in Seq(Sendable) /\ Len(items') \in Nat
    BY <1>1, Constants DEF Connect
  <2>2. 1 \in 0 .. Len(items') + 1
    BY <2>1
  <2>3. to_desktop' \in Seq(Units) /\ to_phone' \in Seq(Replies) /\ Len(to_phone') = 0
    BY <1>1 DEF Connect
  <2>4. connections' \in 0 .. MaxConnections
    BY <1>1, Constants DEF Connect
  <2>5. TypeOK'
    <3>1. phone_open' = (phone' \notin {"idle", "done"})
      BY <1>1 DEF Connect
    <3>2. items' \in Transfers \cup {<<>>} /\ item' \in 0 .. Len(items') + 1 /\ sent' \in Nat
      BY <1>1, <2>2 DEF Connect
    <3>3. \A i \in 1 .. Len(to_phone') : to_phone'[i].word \in {"OK", "NO", "ACK", "NAK", "BYE"}
      BY <2>3
    <3> QED BY <1>1, <2>3, <2>4, <3>1, <3>2, <3>3 DEF Connect, keeping
  <2>6. Placed'
    <3>1. results' \in Seq([accepted : BOOLEAN, sum : Seq(Bytes)])
      BY <1>1 DEF Connect
    <3> QED BY <1>1, <2>1, <2>3, <3>1 DEF Connect, keeping, Local
  <2> QED BY <2>5, <2>6
<1>2. CASE SendHello
  <2>1. to_desktop' \in Seq(Units)
    BY <1>2, UnitsTyped DEF SendHello
  <2> QED BY <1>2, <2>1 DEF SendHello, sending, keeping, Size, Local
<1>3. CASE ReadGreeting
  <2>1. to_phone' \in Seq(Replies) /\ \A i \in 1 .. Len(to_phone') : to_phone'[i] \in Replies
    BY <1>3 DEF ReadGreeting
  <2>2. \A i \in 1 .. Len(to_phone') : to_phone'[i].word \in {"OK", "NO", "ACK", "NAK", "BYE"}
    BY <2>1 DEF Replies
  <2> QED BY <1>3, <2>1, <2>2 DEF ReadGreeting, sending, keeping, Size, Local
<1>4. CASE SendHeader
  <2>0. item \in 1 .. Len(items)
    <3>1. item >= 1 /\ item <= Len(items) /\ item \in Nat
      BY <1>4 DEF SendHeader
    <3> QED BY <3>1
  <2>1. item \in 1 .. Len(items) /\ items[item] \in Sendable /\ Size \in Nat
    BY <2>0, <1>a DEF Size
  <2>2. to_desktop' \in Seq(Units) /\ reading' \in Contents
    BY <1>4, <2>1, UnitsTyped DEF SendHeader
  <2> QED BY <1>4, <2>1, <2>2 DEF SendHeader, keeping, Size, Local
<1>5. CASE SendByte
  <2>1. sent \in Nat /\ Size \in Nat /\ sent < Size
    BY <1>5, <1>a DEF SendByte, Remaining, Size
  <2>2. ASSUME sent < Len(reading) PROVE reading[sent + 1] \in Bytes
    <3>1. reading \in Seq(Bytes)
      BY <1>5, Constants DEF SendByte
    <3> QED BY <2>1, <2>2, <3>1
  <2>3. to_desktop' \in Seq(Units)
    <3>1. Pad \in Bytes
      BY DEF Bytes
    <3> QED BY <1>5, <2>2, <3>1, UnitsTyped DEF SendByte
  <2> QED BY <1>5, <2>1, <2>3 DEF SendByte, keeping, Size, Local
<1>6. CASE BodySent
  <2>1. sent \in Nat /\ Size \in Nat /\ sent = Size
    BY <1>6, <1>a DEF BodySent, Remaining, Size
  <2> QED BY <1>6, <2>1 DEF BodySent, sending, streams, keeping, Size, Local
<1>7. CASE ReadReply
  <2>1. to_phone' \in Seq(Replies) /\ \A i \in 1 .. Len(to_phone') : to_phone'[i] \in Replies
    BY <1>7 DEF ReadReply
  <2>2. \A i \in 1 .. Len(to_phone') : to_phone'[i].word \in {"OK", "NO", "ACK", "NAK", "BYE"}
    BY <2>1 DEF Replies
  <2>4. results' \in Seq([accepted : BOOLEAN, sum : Seq(Bytes)])
    <3>1. [accepted |-> Head(to_phone).word = "ACK", sum |-> sum]
             \in [accepted : BOOLEAN, sum : Seq(Bytes)]
      BY <1>7, Constants DEF ReadReply
    <3> QED BY <1>7, <3>1 DEF ReadReply
  <2> QED BY <1>7, <2>1, <2>2, <2>4 DEF ReadReply, keeping, Size, Local
<1>8. CASE SendEnd
  <2>1. to_desktop' \in Seq(Units)
    BY <1>8, UnitsTyped DEF SendEnd
  <2> QED BY <1>8, <2>1 DEF SendEnd, sending, keeping, Size, Local
<1>9. CASE ReadBye
  <2>1. to_phone' \in Seq(Replies) /\ \A i \in 1 .. Len(to_phone') : to_phone'[i] \in Replies
    BY <1>9 DEF ReadBye
  <2>2. \A i \in 1 .. Len(to_phone') : to_phone'[i].word \in {"OK", "NO", "ACK", "NAK", "BYE"}
    BY <2>1 DEF Replies
  <2> QED BY <1>9, <2>1, <2>2 DEF ReadBye, sending, keeping, Local
<1>10. CASE PhoneFails
  BY <1>10 DEF PhoneFails, sending, streams, keeping, Local
<1>11. QED
  BY <1>1, <1>2, <1>3, <1>4, <1>5, <1>6, <1>7, <1>8, <1>9, <1>10 DEF Phone

\* A reply is one of those the phone knows.
LEMMA SayTyped ==
  ASSUME Types, NEW r \in Replies, Say(r)
  PROVE  /\ to_phone' \in Seq(Replies)
         /\ \A i \in 1 .. Len(to_phone') : to_phone'[i].word \in {"OK", "NO", "ACK", "NAK", "BYE"}
<1>1. to_phone' \in Seq(Replies)
  BY DEF Types, Placed, Say
<1>2. \A i \in 1 .. Len(to_phone') : to_phone'[i] \in Replies
  BY <1>1
<1>3. QED
  BY <1>1, <1>2 DEF Replies

LEMMA DesktopTypes ==
  ASSUME Types, Desktop \/ StopWaiting \/ DesktopFails
  PROVE  Types'
<1> USE DEF Types, TypeOK, Placed
<1>1. CASE ReadHello
  <2>1. to_desktop' \in Seq(Units)
    BY <1>1 DEF ReadHello
  <2>2. \E r \in Replies : Say(r)
    BY <1>1, RepliesTyped DEF ReadHello
  <2> QED BY <1>1, <2>1, <2>2, SayTyped DEF ReadHello, sending, keeping, Size
<1>2. CASE ReadHeader
  <2> DEFINE u == Head(to_desktop)
             i == u.file
  <2>1. to_desktop # <<>> /\ to_desktop' = Tail(to_desktop)
    BY <1>2 DEF ReadHeader
  <2>2. to_desktop' \in Seq(Units) /\ u \in Units
    BY <2>1
  <2>3. CASE u.kind # "header"
    BY <1>2, <2>2, <2>3 DEF ReadHeader, sending, Size, Fail
  <2>4. CASE u.kind = "header"
    <3>1. u \in Headers /\ header' = u /\ i \in Sendable /\ i.size \in Nat /\ i.local \in Locals
      BY <1>2, <2>2, <2>4, UnitsTyped, Constants DEF ReadHeader, Headers
    <3>2. CASE Say(Reply("NAK")) /\ Fail("too large") /\ UNCHANGED <<left, disk>>
      <4>1. Reply("NAK") \in Replies
        BY RepliesTyped
      <4> QED BY <1>2, <2>2, <3>2, <4>1, SayTyped DEF ReadHeader, sending, Size, Fail
    <3>3. CASE Fail("exists") /\ UNCHANGED <<to_phone, left, disk>>
      BY <1>2, <2>2, <3>3 DEF ReadHeader, sending, Size, Fail
    <3>4. CASE /\ disk' = [disk EXCEPT ![i.local] = <<>>]
               /\ left' = i.size /\ desktop' = "body" /\ UNCHANGED <<to_phone, error>>
      <4>1. <<>> \in Seq(Bytes)
        OBVIOUS
      <4>2. disk' \in [Locals -> Seq(Bytes) \cup {NoFile}] /\ disk'[Local'] \in Seq(Bytes)
        BY <3>1, <3>4, <4>1 DEF Local
      <4> QED BY <1>2, <2>2, <3>1, <3>4, <4>2 DEF ReadHeader, sending, Size
    <3> QED BY <1>2, <2>4, <3>2, <3>3, <3>4 DEF ReadHeader
  <2> QED BY <2>3, <2>4
<1>3. CASE ReadByte
  <2>1. to_desktop' \in Seq(Units) /\ Head(to_desktop) \in Units
    BY <1>3 DEF ReadByte
  <2>2. Local \in Locals /\ disk[Local] \in Seq(Bytes) /\ Local' = Local
    BY <1>3, Constants DEF ReadByte, Local, Headers
  <2>3. (IF Head(to_desktop).kind = "byte" THEN Head(to_desktop).byte ELSE Pad) \in Bytes
    BY <2>1, UnitsTyped DEF Bytes
  <2>4. disk' \in [Locals -> Seq(Bytes) \cup {NoFile}] /\ disk'[Local] \in Seq(Bytes)
    BY <1>3, <2>2, <2>3 DEF ReadByte
  <2> QED BY <1>3, <2>1, <2>2, <2>4 DEF ReadByte, sending, Size
<1>4. CASE FinishFile
  <2>1. Local \in Locals /\ disk[Local] \in Seq(Bytes)
    BY <1>4, Constants DEF FinishFile, Local, Headers
  <2>2. \E r \in Replies : Say(r)
    BY <1>4, <2>1, RepliesTyped DEF FinishFile
  <2>3. files' \in Seq([local : Locals, sum : Seq(Bytes)])
    <3>1. [local |-> Local, sum |-> disk[Local]] \in [local : Locals, sum : Seq(Bytes)]
      BY <2>1
    <3>2. Append(files, [local |-> Local, sum |-> disk[Local]])
            \in Seq([local : Locals, sum : Seq(Bytes)])
      BY <3>1
    <3>3. files' = files \/ files' = Append(files, [local |-> Local, sum |-> disk[Local]])
      BY <1>4 DEF FinishFile
    <3> QED BY <3>2, <3>3
  <2>4. disk' \in [Locals -> Seq(Bytes) \cup {NoFile}]
    BY <1>4, <2>1 DEF FinishFile
  <2> QED BY <1>4, <2>2, <2>3, <2>4, SayTyped DEF FinishFile, sending, Size
<1>5. CASE ReadEnd
  <2>1. to_desktop' \in Seq(Units) /\ Reply("BYE") \in Replies
    BY <1>5, RepliesTyped DEF ReadEnd
  <2> QED BY <1>5, <2>1, SayTyped DEF ReadEnd, sending, keeping, Size
<1>6. CASE WriteManifest
  BY <1>6 DEF WriteManifest, sending, streams, Size
<1>7. CASE StopWaiting
  BY <1>7 DEF StopWaiting, sending, streams, Size, Fail
<1>8. CASE DesktopFails
  BY <1>8 DEF DesktopFails, sending, streams, Size, Fail
<1>9. QED
  BY <1>1, <1>2, <1>3, <1>4, <1>5, <1>6, <1>7, <1>8 DEF Desktop

LEMMA TypesNext == Types /\ [Next]_vars => Types'
<1> SUFFICES ASSUME Types, [Next]_vars PROVE Types'
  OBVIOUS
<1>1. CASE UNCHANGED vars
  BY <1>1 DEF vars, sending, streams, keeping, Types, TypeOK, Placed, Size, Local
<1>2. QED
  BY <1>1, PhoneTypes, DesktopTypes DEF Next

-----------------------------------------------------------------------------
(* Keeping step.                                                           *)

\* From the i-th unit on, the stream s is bytes of a file.
BytesFrom(s, i) == \A k \in i .. Len(s) : s[k].kind = "byte"

\* What is in the stream while the computer waits for a header and the phone
\* has sent one: that header, and behind it what was sent of the file.
HeaderSent ==
  /\ Len(to_desktop) = sent + 1
  /\ to_desktop[1] = HeaderOf(items[item], sum)
  /\ BytesFrom(to_desktop, 2)

\* What a phone that is gone may have left in the stream.
LeftBehind ==
  \/ to_desktop = <<>>
  \/ to_desktop = <<End>>
  \/ /\ Len(to_desktop) >= 1 /\ to_desktop[1] \in Headers
     /\ Len(to_desktop) <= to_desktop[1].file.size + 1
     /\ BytesFrom(to_desktop, 2)

HelloSent == Len(to_desktop) = 1 /\ to_desktop[1].kind = "hello"

AtHello ==
  \/ phone = "hello" /\ to_desktop = <<>>
  \/ phone = "greeting" /\ to_phone = <<>> /\ HelloSent
  \/ phone = "idle" /\ (to_desktop = <<>> \/ HelloSent)

AtAccept ==
  /\ to_desktop = <<>>
  /\ \/ phone = "idle"
     \/ phone = "greeting" /\ Len(to_phone) = 1 /\ to_phone[1].word = "NO"

AtHeader ==
  \/ phone = "greeting" /\ to_desktop = <<>> /\ to_phone # <<>>
  \/ phone = "next" /\ to_desktop = <<>>
  \/ phone \in {"body", "reply"} /\ to_phone = <<>> /\ HeaderSent
  \/ phone \in {"body", "reply"} /\ sent = Size /\ to_phone # <<>> /\ to_desktop = <<>>
  \/ phone = "bye" /\ to_phone = <<>> /\ to_desktop = <<End>>
  \/ phone = "idle" /\ LeftBehind

AtBody ==
  /\ BytesFrom(to_desktop, 1)
  /\ \/ /\ phone \in {"body", "reply"} /\ to_phone = <<>>
        /\ header.file = items[item] /\ header.sum = sum /\ left = Len(to_desktop) + Remaining
     \/ phone = "idle" /\ Len(to_desktop) <= left

AtEnd ==
  \/ phone \in {"idle", "done"}
  \/ phone = "bye" /\ to_phone # <<>>

\* What the phone does, what the computer waits for and what is under way
\* between them fit together.
InStep ==
  /\ phone \in {"hello", "next"} => to_phone = <<>>
  /\ phone_open => Len(to_phone) <= 1
  /\ desktop = "accept" => AtAccept
  /\ desktop = "hello" => AtHello
  /\ desktop = "header" => AtHeader
  /\ desktop = "body" => AtBody
  /\ desktop \in {"manifest", "done"} => AtEnd
  /\ error # "bad header"

\* A stream of one unit, and one of none.
LEMMA OnlyOne ==
  ASSUME NEW S, NEW s \in Seq(S), s # <<>>, Len(s) <= 1
  PROVE  Len(s) = 1 /\ Tail(s) = <<>> /\ Head(s) = s[1]
<1>1. Len(s) \in Nat \ {0}
  BY EmptySeq
<1>2. Len(s) = 1
  BY <1>1
<1>3. Tail(s) \in Seq(S) /\ Len(Tail(s)) = 0
  BY <1>2
<1>4. Tail(s) = <<>>
  BY <1>3, EmptySeq
<1>5. QED
  BY <1>2, <1>4

LEMMA NoneWaits ==
  /\ to_phone = <<>> => Len(to_phone) <= 1
  /\ to_phone' = <<>> => Len(to_phone') <= 1
OBVIOUS

LEMMA InStepInit == Init => InStep
BY DEF Init, InStep, AtAccept

\* Sizes, and what they bound, are numbers.
LEMMA SizesTyped ==
  ASSUME Types
  PROVE  /\ \A i \in 1 .. Len(items) : items[i] \in Sendable /\ items[i].size \in Nat
         /\ sent \in Nat /\ left \in Nat /\ Len(to_desktop) \in Nat /\ Len(to_phone) \in Nat
         /\ phone \in {"body", "reply"} => Size \in Nat /\ sent <= Size
BY Constants DEF Types, TypeOK, Placed, Size

LEMMA PhoneInStep ==
  ASSUME Types, InStep, Connect \/ Phone \/ PhoneFails
  PROVE  InStep'
<1> USE DEF Types, TypeOK, Placed
<1>1. CASE Connect
  BY <1>1, NoneWaits DEF Connect, keeping, InStep, AtHello
<1>2. CASE SendHello
  <2>1. desktop \in {"hello", "failed"}
    BY <1>2 DEF SendHello, InStep, AtAccept, AtHeader, AtBody, AtEnd
  <2>2. /\ phone' = "greeting" /\ to_phone' = to_phone /\ to_phone = <<>> /\ desktop' = desktop
        /\ error' = error
    BY <1>2 DEF SendHello, keeping, InStep
  <2>3. desktop = "hello" => HelloSent'
    <3>1. ASSUME desktop = "hello" PROVE to_desktop = <<>>
      BY <1>2, <3>1 DEF SendHello, InStep, AtHello
    <3>2. ASSUME to_desktop = <<>> PROVE HelloSent'
      BY <1>2, <3>2 DEF SendHello, HelloSent, HelloOf
    <3> QED BY <3>1, <3>2
  <2> QED BY <2>1, <2>2, <2>3, NoneWaits DEF InStep, AtHello
<1>3. CASE ReadGreeting
  <2>1. /\ to_phone' = <<>> /\ to_desktop' = to_desktop /\ desktop' = desktop /\ error' = error
        /\ phone' \in {"next", "idle"} /\ (phone' = "next" => to_phone[1].word = "OK")
    <3>1. to_phone # <<>> /\ Len(to_phone) <= 1
      BY <1>3 DEF ReadGreeting, InStep
    <3>2. Tail(to_phone) = <<>> /\ Head(to_phone) = to_phone[1]
      BY <3>1, OnlyOne
    <3> QED BY <1>3, <3>2 DEF ReadGreeting, keeping
  <2>2. desktop \in {"accept", "header", "failed"}
    BY <1>3 DEF ReadGreeting, InStep, AtHello, AtBody, AtEnd
  <2>3. desktop = "accept" => to_phone[1].word = "NO" /\ to_desktop = <<>>
    BY <1>3 DEF ReadGreeting, InStep, AtAccept
  <2>4. desktop = "header" => to_desktop = <<>>
    BY <1>3 DEF ReadGreeting, InStep, AtHeader
  <2>6. desktop' = "accept" => AtAccept'
    BY <2>1, <2>3 DEF AtAccept
  <2>7. desktop' = "header" => AtHeader'
    BY <2>1, <2>4 DEF AtHeader, LeftBehind
  <2> QED BY <2>1, <2>2, <2>6, <2>7, NoneWaits DEF InStep
<1>4. CASE SendHeader
  <2>1. /\ to_phone = <<>> /\ to_phone' = <<>> /\ desktop' = desktop /\ error' = error
        /\ phone' = "body" /\ sent' = 0 /\ items' = items /\ item' = item
    BY <1>4 DEF SendHeader, keeping, InStep
  <2>2. desktop \in {"header", "failed"} /\ (desktop = "header" => to_desktop = <<>>)
    BY <1>4 DEF SendHeader, InStep, AtAccept, AtHello, AtHeader, AtBody, AtEnd
  <2>3. to_desktop = <<>> => HeaderSent'
    <3>1. to_desktop' = Append(to_desktop, HeaderOf(items[item], sum'))
      BY <1>4 DEF SendHeader
    <3>2. ASSUME to_desktop = <<>>
          PROVE  HeaderSent'
      <4>1. Len(to_desktop') = 1 /\ to_desktop'[1] = HeaderOf(items[item], sum')
        BY <3>1, <3>2
      <4> QED BY <2>1, <4>1 DEF HeaderSent, BytesFrom
    <3> QED BY <3>2
  <2> QED BY <2>1, <2>2, <2>3, NoneWaits DEF InStep, AtHeader
<1>5. CASE SendByte
  <2>1. /\ UNCHANGED <<phone, phone_open, to_phone, desktop, error, items, item, sum, header, left>>
        /\ phone = "body" /\ sent' = sent + 1 /\ Remaining > 0
    BY <1>5 DEF SendByte, keeping
  <2>2. Size \in Nat /\ sent \in Nat /\ sent < Size /\ Remaining = Size - sent
    BY <2>1, SizesTyped DEF Remaining, Size
  <2>3. /\ Len(to_desktop') = Len(to_desktop) + 1
        /\ \A k \in 1 .. Len(to_desktop) : to_desktop'[k] = to_desktop[k]
        /\ to_desktop'[Len(to_desktop')].kind = "byte"
    BY <1>5 DEF SendByte, ByteOf
  <2>4. desktop \in {"header", "body", "failed"}
    BY <2>1 DEF InStep, AtAccept, AtHello, AtEnd
  <2>5. ASSUME NEW i \in {1, 2}, BytesFrom(to_desktop, i) PROVE BytesFrom(to_desktop', i)
    <3> SUFFICES ASSUME NEW k \in i .. Len(to_desktop') PROVE to_desktop'[k].kind = "byte"
      BY DEF BytesFrom
    <3>1. CASE k = Len(to_desktop')
      BY <2>3, <3>1
    <3>2. CASE k # Len(to_desktop')
      <4>1. k \in i .. Len(to_desktop) /\ k \in 1 .. Len(to_desktop)
        BY <2>3, <3>2
      <4> QED BY <2>3, <2>5, <4>1 DEF BytesFrom
    <3> QED BY <3>1, <3>2
  <2>6. ASSUME desktop = "header" PROVE AtHeader'
    <3>0. sent # Size
      BY <2>2
    <3>1. HeaderSent /\ to_phone = <<>>
      BY <2>1, <3>0, <2>6 DEF InStep, AtHeader
    <3>2. HeaderSent'
      BY <2>1, <2>2, <2>3, <2>5, <3>1 DEF HeaderSent
    <3> QED BY <2>1, <3>1, <3>2 DEF AtHeader
  <2>7. ASSUME desktop = "body" PROVE AtBody'
    <3>1. /\ BytesFrom(to_desktop, 1) /\ to_phone = <<>>
          /\ header.file = items[item] /\ header.sum = sum /\ left = Len(to_desktop) + Remaining
      BY <2>1, <2>7 DEF InStep, AtBody
    <3>2. Remaining' = Remaining - 1 /\ Len(to_desktop) \in Nat
      BY <2>1, <2>2 DEF Remaining, Size
    <3> QED BY <2>1, <2>2, <2>3, <2>5, <3>1, <3>2 DEF AtBody
  <2> QED BY <2>1, <2>4, <2>6, <2>7 DEF InStep
<1>6. CASE BodySent
  <2>1. /\ UNCHANGED <<sending, streams, desktop, keeping>> /\ phone = "body" /\ phone' = "reply"
        /\ phone_open /\ phone_open'
    BY <1>6 DEF BodySent
  <2>2. sent = Size
    BY <1>6, SizesTyped DEF BodySent, Remaining, Size
  <2>3. AtHeader => AtHeader'
    BY <2>1, <2>2 DEF AtHeader, HeaderSent, LeftBehind, Size, sending, streams, keeping
  <2>4. AtBody => AtBody'
    BY <2>1 DEF AtBody, Remaining, Size, sending, streams, keeping
  <2>5. ~AtAccept /\ ~AtHello /\ ~AtEnd
    BY <2>1 DEF AtAccept, AtHello, AtEnd
  <2> QED BY <2>1, <2>3, <2>4, <2>5 DEF InStep, sending, streams, keeping
<1>7. CASE ReadReply
  <2>1. /\ phone = "reply" /\ phone' = "next" /\ to_phone # <<>> /\ to_phone' = <<>>
        /\ to_desktop' = to_desktop /\ desktop' = desktop /\ error' = error
    <3>1. to_phone # <<>> /\ Len(to_phone) <= 1
      BY <1>7 DEF ReadReply, InStep
    <3>2. Tail(to_phone) = <<>>
      BY <3>1, OnlyOne
    <3> QED BY <1>7, <3>1, <3>2 DEF ReadReply, keeping
  <2>2. desktop \in {"header", "failed"} /\ (desktop = "header" => to_desktop = <<>>)
    BY <2>1 DEF InStep, AtAccept, AtHello, AtHeader, AtBody, AtEnd
  <2> QED BY <2>1, <2>2, NoneWaits DEF InStep, AtHeader
<1>8. CASE SendEnd
  <2>1. /\ phone = "next" /\ phone' = "bye" /\ to_phone = <<>> /\ to_phone' = <<>>
        /\ to_desktop' = Append(to_desktop, End) /\ desktop' = desktop /\ error' = error
    BY <1>8 DEF SendEnd, keeping, InStep
  <2>2. desktop \in {"header", "failed"} /\ (desktop = "header" => to_desktop = <<>>)
    BY <2>1 DEF InStep, AtAccept, AtHello, AtHeader, AtBody, AtEnd
  <2>3. to_desktop = <<>> => to_desktop' = <<End>>
    BY <2>1
  <2> QED BY <2>1, <2>2, <2>3 DEF InStep, AtHeader
<1>9. CASE ReadBye
  <2>1. /\ phone = "bye" /\ phone' = "done" /\ to_phone # <<>> /\ desktop' = desktop /\ error' = error
        /\ ~phone_open'
    BY <1>9 DEF ReadBye, keeping
  <2>2. desktop \in {"manifest", "done", "failed"}
    BY <2>1 DEF InStep, AtAccept, AtHello, AtHeader, AtBody
  <2> QED BY <2>1, <2>2 DEF InStep, AtEnd
<1>10. CASE PhoneFails
  <2>1. /\ phone_open /\ phone \notin {"idle", "done"} /\ phone' = "idle" /\ ~phone_open'
        /\ UNCHANGED <<sending, streams, desktop, keeping>>
    BY <1>10 DEF PhoneFails
  <2>2. desktop = "accept" => AtAccept'
    BY <2>1 DEF InStep, AtAccept, streams
  <2>3. desktop = "hello" => AtHello'
    BY <2>1 DEF InStep, AtHello, HelloSent, streams
  <2>4. desktop = "header" => AtHeader'
    <3>1. HeaderSent /\ phone \in {"body", "reply"} => LeftBehind
      <4> SUFFICES ASSUME HeaderSent, phone \in {"body", "reply"} PROVE LeftBehind
        OBVIOUS
      <4>1. to_desktop[1] \in Headers /\ to_desktop[1].file = items[item]
        BY UnitsTyped, SizesTyped DEF HeaderSent, HeaderOf
      <4>2. Len(to_desktop) <= Size + 1 /\ Len(to_desktop) >= 1
        BY SizesTyped DEF HeaderSent
      <4> QED BY <4>1, <4>2 DEF HeaderSent, LeftBehind, Size
    <3>2. desktop = "header" => LeftBehind
      BY <2>1, <3>1 DEF InStep, AtHeader, LeftBehind
    <3>3. LeftBehind' = LeftBehind
      BY <2>1 DEF LeftBehind, streams
    <3> QED BY <2>1, <3>2, <3>3 DEF AtHeader
  <2>5. desktop = "body" => AtBody'
    <3>1. desktop = "body" => BytesFrom(to_desktop, 1) /\ Len(to_desktop) <= left
      <4> SUFFICES ASSUME desktop = "body" PROVE BytesFrom(to_desktop, 1) /\ Len(to_desktop) <= left
        OBVIOUS
      <4>1. CASE phone \in {"body", "reply"}
        <5>1. Remaining \in Nat
          BY <4>1, SizesTyped DEF Remaining, Size
        <5>2. BytesFrom(to_desktop, 1) /\ left = Len(to_desktop) + Remaining
          BY <4>1 DEF InStep, AtBody
        <5> QED BY <5>1, <5>2, SizesTyped
      <4> QED BY <2>1, <4>1 DEF InStep, AtBody
    <3> QED BY <2>1, <3>1 DEF AtBody, streams, keeping
  <2> QED BY <2>1, <2>2, <2>3, <2>4, <2>5 DEF InStep, AtEnd, keeping
<1>11. QED
  BY <1>1, <1>2, <1>3, <1>4, <1>5, <1>6, <1>7, <1>8, <1>9, <1>10 DEF Phone

\* The rest of a stream.
LEMMA RestOfStream ==
  ASSUME Types, to_desktop # <<>>
  PROVE  /\ Head(to_desktop) = to_desktop[1] /\ to_desktop[1] \in Units
         /\ Len(to_desktop) >= 1 /\ Len(Tail(to_desktop)) = Len(to_desktop) - 1
         /\ BytesFrom(to_desktop, 2) => BytesFrom(Tail(to_desktop), 1)
         /\ BytesFrom(to_desktop, 1) => BytesFrom(Tail(to_desktop), 1)
         /\ Len(to_desktop) = 1 => Tail(to_desktop) = <<>>
<1>1. to_desktop \in Seq(Units)
  BY DEF Types, TypeOK
<1>2. Len(to_desktop) \in Nat \ {0}
  BY <1>1, EmptySeq
<1>3. /\ Len(Tail(to_desktop)) = Len(to_desktop) - 1
      /\ \A i \in 1 .. Len(Tail(to_desktop)) : Tail(to_desktop)[i] = to_desktop[i + 1]
  BY <1>1, HeadTailProperties
<1>4. \A i \in 1 .. Len(Tail(to_desktop)) : i + 1 \in 2 .. Len(to_desktop) /\ i + 1 \in 1 .. Len(to_desktop)
  BY <1>2, <1>3
<1>5. /\ BytesFrom(to_desktop, 2) => BytesFrom(Tail(to_desktop), 1)
      /\ BytesFrom(to_desktop, 1) => BytesFrom(Tail(to_desktop), 1)
  BY <1>3, <1>4 DEF BytesFrom
<1>6. ASSUME Len(to_desktop) = 1 PROVE Tail(to_desktop) = <<>>
  <2>1. Len(to_desktop) <= 1
    BY <1>6
  <2> QED BY <1>1, <2>1, OnlyOne
<1>7. to_desktop[1] \in Units
  BY <1>1, <1>2, ElementOfSeq
<1>8. QED
  BY <1>2, <1>3, <1>5, <1>6, <1>7

\* A reply reaches a phone that has read those before it.
LEMMA SayAlone ==
  ASSUME Types, NEW r \in Replies, Say(r)
  PROVE  /\ to_phone' # <<>>
         /\ to_phone = <<>> => Len(to_phone') = 1 /\ Len(to_phone') <= 1 /\ to_phone'[1] = r
<1>1. to_phone \in Seq(Replies) /\ to_phone' = Append(to_phone, r)
  BY DEF Types, Placed, Say
<1>2. Len(to_phone') = Len(to_phone) + 1 /\ Len(to_phone) \in Nat
  BY <1>1
<1>3. to_phone' # <<>>
  BY <1>2
<1>4. ASSUME to_phone = <<>> PROVE Len(to_phone') = 1 /\ Len(to_phone') <= 1 /\ to_phone'[1] = r
  BY <1>1, <1>2, <1>4
<1>5. QED
  BY <1>3, <1>4

LEMMA DesktopInStep ==
  ASSUME Types, InStep, Desktop \/ StopWaiting \/ DesktopFails
  PROVE  InStep'
<1> USE DEF Types, TypeOK
<1>a. UNCHANGED <<phone, phone_open, items, item, sum, sent>>
  BY DEF Desktop, ReadHello, ReadHeader, ReadByte, FinishFile, ReadEnd, WriteManifest,
         StopWaiting, DesktopFails, sending
<1>b. phone = "idle" => ~phone_open
  BY DEF Types, TypeOK
<1>1. CASE ReadHello
  <2>1. /\ HelloSent /\ phone \in {"greeting", "idle"} /\ (phone = "greeting" => to_phone = <<>>)
    BY <1>1 DEF ReadHello, InStep, AtHello
  <2>2. to_desktop' = <<>> /\ error' = error
    BY <1>1, <2>1, RestOfStream DEF ReadHello, HelloSent, keeping
  <2>3. \/ desktop' = "header" /\ Say(Reply("OK"))
        \/ desktop' = "accept" /\ Say(Reply("NO"))
    BY <1>1 DEF ReadHello
  <2>4. Reply("OK") \in Replies /\ Reply("NO") \in Replies /\ Reply("NO").word = "NO"
    BY RepliesTyped DEF Reply
  <2>5. to_phone' # <<>> /\ (phone = "greeting" => Len(to_phone') <= 1)
    BY <2>1, <2>3, <2>4, SayAlone
  <2>6. desktop' = "accept" => AtAccept'
    BY <1>a, <2>1, <2>2, <2>3, <2>4, SayAlone DEF AtAccept
  <2>7. desktop' = "header" => AtHeader'
    BY <1>a, <2>1, <2>2, <2>5 DEF AtHeader, LeftBehind
  <2> QED BY <1>a, <1>b, <2>1, <2>2, <2>3, <2>5, <2>6, <2>7 DEF InStep
<1>2. CASE ReadHeader
  <2> DEFINE u == to_desktop[1]
  <2>1. /\ desktop = "header" /\ to_desktop # <<>> /\ Head(to_desktop) = u /\ u.kind # "end"
        /\ to_desktop' = Tail(to_desktop)
    BY <1>2, RestOfStream DEF ReadHeader
  <2>2. End.kind = "end"
    BY DEF End
  <2>0. to_desktop # <<End>> /\ to_desktop # <<>>
    BY <2>1, <2>2
  <2>3. \/ phone \in {"body", "reply"} /\ to_phone = <<>> /\ HeaderSent
        \/ phone = "idle" /\ to_desktop # <<End>> /\ LeftBehind
    BY <2>0, <2>1 DEF InStep, AtHeader
  <2>4. /\ u.kind = "header" /\ BytesFrom(to_desktop', 1)
        /\ \/ phone \in {"body", "reply"} /\ to_phone = <<>> /\ Len(to_desktop') = sent
              /\ u.file = items[item] /\ u.sum = sum
           \/ phone = "idle" /\ Len(to_desktop') <= u.file.size
    <3>1. CASE phone \in {"body", "reply"} /\ to_phone = <<>> /\ HeaderSent
      <4>1. u.kind = "header" /\ u.file = items[item] /\ u.sum = sum
        BY <3>1 DEF HeaderSent, HeaderOf
      <4>2. BytesFrom(to_desktop, 2) /\ Len(to_desktop) = sent + 1
        BY <3>1 DEF HeaderSent
      <4>3. Len(to_desktop') = sent
        BY <2>1, <4>2, RestOfStream, SizesTyped
      <4> QED BY <2>1, <3>1, <4>1, <4>2, <4>3, RestOfStream
    <3>2. CASE phone = "idle" /\ to_desktop # <<End>> /\ LeftBehind
      <4>1. u \in Headers /\ Len(to_desktop) <= u.file.size + 1 /\ BytesFrom(to_desktop, 2)
        BY <2>1, <3>2 DEF LeftBehind
      <4>2. u.kind = "header" /\ u.file.size \in Nat
        BY <4>1, Constants DEF Headers
      <4>3. Len(to_desktop') <= u.file.size
        BY <2>1, <4>1, <4>2, RestOfStream, SizesTyped
      <4> QED BY <2>1, <3>2, <4>1, <4>2, <4>3, RestOfStream
    <3> QED BY <2>3, <3>1, <3>2
  <2>5. CASE Say(Reply("NAK")) /\ Fail("too large")
    <3>1. Reply("NAK") \in Replies
      BY RepliesTyped
    <3>2. phone_open => Len(to_phone') <= 1
      BY <1>a, <1>b, <2>4, <2>5, <3>1, SayAlone
    <3> QED BY <1>a, <2>4, <2>5, <3>2 DEF InStep, Fail
  <2>6. CASE Fail("exists") /\ UNCHANGED to_phone
    BY <1>a, <2>6 DEF InStep, Fail
  <2>7. CASE desktop' = "body" /\ left' = u.file.size /\ header' = u /\ UNCHANGED <<to_phone, error>>
    <3>1. AtBody'
      <4>1. ASSUME phone \in {"body", "reply"}, u.file = items[item], Len(to_desktop') = sent
            PROVE  left' = Len(to_desktop') + Remaining'
        BY <1>a, <2>7, <4>1, SizesTyped DEF Remaining, Size
      <4> QED BY <1>a, <2>4, <2>7, <4>1 DEF AtBody
    <3> QED BY <1>a, <2>7, <3>1 DEF InStep
  <2> QED BY <1>2, <2>1, <2>4, <2>5, <2>6, <2>7 DEF ReadHeader
<1>3. CASE ReadByte
  <2>1. /\ desktop = "body" /\ desktop' = "body" /\ to_desktop # <<>> /\ to_desktop' = Tail(to_desktop)
        /\ left' = left - 1 /\ UNCHANGED <<to_phone, header, error>>
    BY <1>3 DEF ReadByte
  <2>2. AtBody
    BY <2>1 DEF InStep
  <2>3. BytesFrom(to_desktop', 1) /\ Len(to_desktop') = Len(to_desktop) - 1
    BY <2>1, <2>2, RestOfStream DEF AtBody
  <2>4. AtBody'
    <3>1. CASE phone \in {"body", "reply"}
      <4>1. Remaining \in Nat /\ Remaining' = Remaining
        BY <1>a, <3>1, SizesTyped DEF Remaining, Size
      <4>2. /\ to_phone = <<>> /\ header.file = items[item] /\ header.sum = sum /\ left = Len(to_desktop) + Remaining
        BY <2>2, <3>1 DEF AtBody
      <4>3. left' = Len(to_desktop') + Remaining'
        BY <2>1, <2>3, <4>1, <4>2, SizesTyped
      <4> QED BY <1>a, <2>1, <2>3, <3>1, <4>2, <4>3 DEF AtBody
    <3>2. CASE phone = "idle"
      BY <1>a, <2>1, <2>2, <2>3, <3>2, SizesTyped DEF AtBody
    <3> QED BY <2>2, <3>1, <3>2 DEF AtBody
  <2> QED BY <1>a, <2>1, <2>4 DEF InStep
<1>4. CASE FinishFile
  <2>1. /\ desktop = "body" /\ desktop' = "header" /\ left = 0 /\ UNCHANGED <<to_desktop, error>>
    BY <1>4 DEF FinishFile
  <2>2. AtBody
    BY <2>1 DEF InStep
  <2>3. \E r \in Replies : Say(r)
    <3>1. disk[Local] \in Seq(Bytes)
      BY <2>1 DEF Placed
    <3> QED BY <1>4, <3>1, RepliesTyped DEF FinishFile
  <2>4. to_phone' # <<>> /\ (to_phone = <<>> => Len(to_phone') <= 1)
    <3>1. PICK r \in Replies : Say(r)
      BY <2>3
    <3>2. to_phone' # <<>> /\ (to_phone = <<>> => Len(to_phone') <= 1)
      BY <3>1, SayAlone
    <3> QED BY <3>2
  <2>5. Len(to_desktop) = 0 /\ (phone \in {"body", "reply"} => sent = Size /\ to_phone = <<>>)
    <3>1. CASE phone \in {"body", "reply"}
      <4>1. Remaining \in Nat /\ Remaining = Size - sent /\ Size \in Nat /\ sent \in Nat
        BY <3>1, SizesTyped DEF Remaining, Size
      <4>2. 0 = Len(to_desktop) + Remaining /\ to_phone = <<>>
        BY <2>1, <2>2, <3>1 DEF AtBody
      <4> QED BY <4>1, <4>2, SizesTyped
    <3>2. CASE phone = "idle"
      BY <2>1, <2>2, <3>2, SizesTyped DEF AtBody
    <3> QED BY <2>2, <3>1, <3>2 DEF AtBody
  <2>6. to_desktop' = <<>>
    BY <2>1, <2>5, EmptySeq
  <2>7. phone \in {"body", "reply", "idle"}
    BY <2>2 DEF AtBody
  <2>8. AtHeader'
    BY <1>a, <2>4, <2>5, <2>6, <2>7 DEF AtHeader, LeftBehind, Size
  <2> QED BY <1>a, <1>b, <2>1, <2>4, <2>5, <2>7, <2>8 DEF InStep
<1>5. CASE ReadEnd
  <2>1. /\ desktop = "header" /\ desktop' = "manifest" /\ to_desktop # <<>> /\ to_desktop[1].kind = "end"
        /\ Say(Reply("BYE")) /\ error' = error
    BY <1>5, RestOfStream DEF ReadEnd, keeping
  <2>2. Reply("BYE") \in Replies
    BY RepliesTyped
  <2>3. phone \in {"bye", "idle"} /\ (phone = "bye" => to_phone = <<>>)
    <3>1. ~HeaderSent
      BY <2>1 DEF HeaderSent, HeaderOf
    <3> QED BY <2>1, <3>1 DEF InStep, AtHeader
  <2>4. to_phone' # <<>> /\ (phone = "bye" => Len(to_phone') <= 1)
    BY <2>1, <2>2, <2>3, SayAlone
  <2> QED BY <1>a, <1>b, <2>1, <2>3, <2>4 DEF InStep, AtEnd
<1>6. CASE WriteManifest
  BY <1>6 DEF WriteManifest, InStep, AtEnd, streams
<1>7. CASE StopWaiting
  BY <1>7 DEF StopWaiting, InStep, streams, Fail
<1>8. CASE DesktopFails
  BY <1>8 DEF DesktopFails, InStep, streams, Fail
<1>9. QED
  BY <1>1, <1>2, <1>3, <1>4, <1>5, <1>6, <1>7, <1>8 DEF Desktop

LEMMA InStepNext == Types /\ InStep /\ [Next]_vars => InStep'
<1> SUFFICES ASSUME Types, InStep, [Next]_vars PROVE InStep'
  OBVIOUS
<1>1. CASE UNCHANGED vars
  BY <1>1 DEF vars, sending, streams, keeping, InStep, AtAccept, AtHello, HelloSent, AtHeader,
              HeaderSent, LeftBehind, AtBody, AtEnd, Remaining, Size
<1>2. QED
  BY <1>1, PhoneInStep, DesktopInStep DEF Next

\* The computer waits for nothing while the phone waits for its reply.
LEMMA StepIsKept == Types /\ InStep => EndsKeepStep
<1> SUFFICES ASSUME Types, InStep, Waiting, to_phone = <<>>, phone \in {"greeting", "reply", "bye"}
             PROVE  FALSE
  BY DEF EndsKeepStep, InStep
<1>1. to_desktop = <<>> /\ Len(to_desktop) = 0 /\ (desktop \in {"hello", "header"} \/ (desktop = "body" /\ left > 0))
  BY DEF Waiting
<1>2. CASE desktop = "hello"
  <2>1. ~HelloSent
    BY <1>1 DEF HelloSent
  <2> QED BY <1>2, <2>1 DEF InStep, AtHello
<1>3. CASE desktop = "header"
  <2>1. ~HeaderSent
    BY <1>1, SizesTyped DEF HeaderSent
  <2>2. to_desktop # <<End>>
    BY <1>1
  <2> QED BY <1>3, <2>1, <2>2 DEF InStep, AtHeader
<1>4. CASE desktop = "body" /\ left > 0
  <2>1. phone = "reply" /\ left = Len(to_desktop) + Remaining
    BY <1>4 DEF InStep, AtBody
  <2>2. Remaining = 0
    BY <2>1, SizesTyped DEF Remaining, Size, Types, Placed
  <2> QED BY <1>1, <1>4, <2>1, <2>2
<1>5. QED
  BY <1>1, <1>2, <1>3, <1>4

-----------------------------------------------------------------------------
(* Acknowledgements.                                                       *)

\* The file f is on the computer with the digest s, which is a file's.
Stored(f, s) == f \in Sendable /\ disk[f.local] = s /\ s \in Contents

\* What is accepted is there with the digest of its header and is not what is
\* being received; so is the item an acknowledgement under way is for.
AckInv ==
  /\ phone_open => Len(results) = item - 1
  /\ \A i \in 1 .. Len(results) : results[i].accepted =>
        Stored(items[i], results[i].sum) /\ (desktop = "body" => items[i].local # Local)
  /\ phone \in {"body", "reply"} /\ to_phone # <<>> /\ to_phone[1].word = "ACK" =>
        Stored(items[item], sum)

LEMMA AckInit == Init => AckInv
<1> SUFFICES ASSUME Init PROVE AckInv
  OBVIOUS
<1>1. Len(results) = 0
  BY DEF Init
<1>2. QED
  BY <1>1 DEF Init, AckInv

\* A step that changes nothing on the disk, tells the phone nothing and takes
\* up no file.
LEMMA AckQuiet ==
  ASSUME AckInv, UNCHANGED <<items, item, results, disk, header>>,
         desktop' = "body" => desktop = "body",
         phone_open' => phone_open,
         phone' \in {"body", "reply"} =>
           \/ to_phone' = <<>>
           \/ phone \in {"body", "reply"} /\ to_phone' = to_phone /\ sum' = sum
           \/ to_phone'[1].word # "ACK"
  PROVE  AckInv'
<1>1. phone_open' => Len(results') = item' - 1
  BY DEF AckInv
<1>2. \A i \in 1 .. Len(results') : results'[i].accepted =>
        Stored(items[i], results[i].sum)' /\ (desktop' = "body" => items'[i].local # Local')
  BY DEF AckInv, Stored, Local
<1>3. ASSUME phone' \in {"body", "reply"}, to_phone' # <<>>, to_phone'[1].word = "ACK"
      PROVE  Stored(items[item], sum)'
  BY <1>3 DEF AckInv, Stored
<1>4. QED
  BY <1>1, <1>2, <1>3 DEF AckInv

\* The phone's end is open but when it is idle or done.
LEMMA OpenIs == Types => (phone_open <=> phone \notin {"idle", "done"})
BY DEF Types, TypeOK

LEMMA PhoneAck ==
  ASSUME Types, Types', InStep, InStep', AckInv, Connect \/ Phone \/ PhoneFails
  PROVE  AckInv'
<1>1. CASE Connect
  <2>1. /\ Len(results') = 0 /\ item' = 1 /\ to_phone' = <<>> /\ phone' = "hello"
    BY <1>1 DEF Connect
  <2> QED BY <2>1 DEF AckInv
<1>2. CASE SendHello \/ ReadGreeting \/ SendEnd \/ ReadBye \/ PhoneFails
  <2>1. /\ UNCHANGED <<items, item, results, disk, header, desktop>>
        /\ phone' \notin {"body", "reply"} /\ (phone_open' => phone_open)
    BY <1>2, OpenIs DEF SendHello, ReadGreeting, SendEnd, ReadBye, PhoneFails, sending, keeping
  <2> QED BY <2>1, AckQuiet
<1>3. CASE SendHeader \/ SendByte \/ BodySent
  <2>1. /\ UNCHANGED <<items, item, results, disk, header, desktop, to_phone, phone_open>>
    BY <1>3 DEF SendHeader, SendByte, BodySent, sending, streams, keeping
  <2>2. (phone \in {"body", "reply"} /\ sum' = sum) \/ to_phone = <<>>
    BY <1>3 DEF SendHeader, SendByte, BodySent, InStep, sending
  <2> QED BY <2>1, <2>2, AckQuiet
<1>4. CASE ReadReply
  <2>1. /\ phone = "reply" /\ phone' = "next" /\ to_phone # <<>> /\ item' = item + 1
        /\ UNCHANGED <<items, disk, header, desktop>>
    BY <1>4 DEF ReadReply, keeping
  <2>2. /\ Len(results) = item - 1 /\ item \in 1 .. Len(items) /\ item \in Nat
        /\ results \in Seq([accepted : BOOLEAN, sum : Seq(Bytes)])
    BY <2>1, OpenIs DEF AckInv, Types, Placed
  <2>3. /\ Len(results') = item
        /\ \A i \in 1 .. Len(results) : results'[i] = results[i]
        /\ results'[item].accepted = (to_phone[1].word = "ACK")
        /\ results'[item].sum = sum
    BY <1>4, <2>2 DEF ReadReply
  <2>4. desktop # "body"
    BY <2>1 DEF InStep, AtBody
  <2>5. ASSUME NEW i \in 1 .. Len(results'), results'[i].accepted
        PROVE  Stored(items[i], results'[i].sum)
    <3>1. CASE i = item
      BY <2>1, <2>3, <2>5, <3>1 DEF AckInv
    <3>2. CASE i # item
      <4>1. i \in 1 .. Len(results)
        BY <2>2, <2>3, <3>2
      <4> QED BY <2>3, <2>5, <4>1 DEF AckInv
    <3> QED BY <3>1, <3>2
  <2>6. Len(results') = item' - 1
    BY <2>1, <2>2, <2>3
  <2>7. \A i \in 1 .. Len(results') : results'[i].accepted => Stored(items[i], results[i].sum)'
    BY <2>1, <2>5 DEF Stored
  <2> QED BY <2>1, <2>4, <2>6, <2>7 DEF AckInv
<1>5. QED
  BY <1>1, <1>2, <1>3, <1>4 DEF Phone

LEMMA DesktopAck ==
  ASSUME Types, Types', InStep, InStep', AckInv, Desktop \/ StopWaiting \/ DesktopFails
  PROVE  AckInv'
<1>a. UNCHANGED <<phone, phone_open, items, item, sum, sent, results>>
  BY DEF Desktop, ReadHello, ReadHeader, ReadByte, FinishFile, ReadEnd, WriteManifest,
         StopWaiting, DesktopFails, sending
<1>b. \A i \in 1 .. Len(results) : results[i].accepted =>
        Stored(items[i], results[i].sum) /\ (desktop = "body" => items[i].local # Local)
  BY DEF AckInv
<1>1. CASE ReadHello
  <2>1. phone \notin {"body", "reply"}
    BY <1>1 DEF ReadHello, InStep, AtHello
  <2>2. UNCHANGED <<disk, header>> /\ desktop' # "body"
    BY <1>1 DEF ReadHello, keeping
  <2> QED BY <1>a, <2>1, <2>2, AckQuiet
<1>2. CASE ReadHeader
  <2>1. to_desktop # <<>> /\ desktop = "header" /\ Head(to_desktop).kind # "end"
    BY <1>2 DEF ReadHeader
  <2>2. phone \in {"body", "reply"} => to_phone = <<>>
    BY <2>1 DEF InStep, AtHeader
  <2>3. to_phone' = to_phone \/ Say(Reply("NAK"))
    BY <1>2 DEF ReadHeader
  <2>4. phone' \in {"body", "reply"} => to_phone' = <<>> \/ to_phone'[1].word # "ACK"
    <3>1. Reply("NAK") \in Replies /\ Reply("NAK").word # "ACK"
      BY RepliesTyped DEF Reply
    <3> QED BY <1>a, <2>2, <2>3, <3>1, SayAlone
  <2>5. CASE desktop' # "body"
    <3>1. disk' = disk
      BY <1>2, <2>1, <2>5 DEF ReadHeader
    <3>2. \A i \in 1 .. Len(results') : results'[i].accepted => Stored(items[i], results[i].sum)'
      BY <1>a, <1>b, <3>1 DEF Stored
    <3> QED BY <1>a, <2>4, <2>5, <3>2 DEF AckInv
  <2>6. CASE desktop' = "body"
    <3>1. /\ ~Taken(Local') /\ disk' = [disk EXCEPT ![Local'] = <<>>]
      BY <1>2, <2>1, <2>6 DEF ReadHeader, Local, Fail
    <3>2. ASSUME NEW i \in 1 .. Len(results), results[i].accepted
          PROVE  items[i].local # Local' /\ Stored(items[i], results[i].sum)'
      <4>1. /\ disk[items[i].local] = results[i].sum /\ results[i].sum \in Contents
            /\ items[i] \in Sendable /\ items[i].local \in Locals
        BY <1>b, <3>2, Constants DEF Stored
      <4>2. items[i].local # Local'
        BY <3>1, <4>1, Constants DEF Taken
      <4>3. disk'[items[i].local] = disk[items[i].local]
        <5>1. disk \in [Locals -> Seq(Bytes) \cup {NoFile}] /\ disk' \in [Locals -> Seq(Bytes) \cup {NoFile}]
          BY DEF Types, Placed
        <5> QED BY <3>1, <4>1, <4>2, <5>1
      <4> QED BY <1>a, <4>1, <4>2, <4>3 DEF Stored
    <3> QED BY <1>a, <2>4, <3>2 DEF AckInv
  <2> QED BY <2>5, <2>6
<1>3. CASE ReadByte
  <2>1. /\ desktop = "body" /\ UNCHANGED <<header, to_phone, desktop>> /\ Local' = Local
    BY <1>3 DEF ReadByte, Local
  <2>2. phone \in {"body", "reply"} => to_phone = <<>>
    BY <2>1 DEF InStep, AtBody
  <2>3. \A l \in Locals : l # Local => disk'[l] = disk[l]
    BY <1>3 DEF ReadByte, Types, Placed
  <2>4. ASSUME NEW i \in 1 .. Len(results), results[i].accepted
        PROVE  items[i].local # Local /\ Stored(items[i], results[i].sum)'
    <3>1. items[i].local # Local /\ Stored(items[i], results[i].sum)
      BY <1>b, <2>1, <2>4
    <3>2. disk'[items[i].local] = disk[items[i].local]
      <4>1. items[i].local \in Locals
        BY <3>1, Constants DEF Stored
      <4> QED BY <2>3, <3>1, <4>1
    <3> QED BY <1>a, <3>1, <3>2 DEF Stored
  <2> QED BY <1>a, <2>1, <2>2, <2>4 DEF AckInv
<1>4. CASE FinishFile
  <2>1. /\ desktop = "body" /\ desktop' = "header" /\ UNCHANGED header
        /\ header \in Headers /\ header.file \in Sendable /\ header.sum \in Contents /\ disk[Local] \in Seq(Bytes)
    BY <1>4 DEF FinishFile, Types, Placed, Headers
  <2>2. phone \in {"body", "reply"} => to_phone = <<>> /\ header.file = items[item] /\ header.sum = sum
    BY <2>1 DEF InStep, AtBody
  <2>3. ASSUME NEW i \in 1 .. Len(results), results[i].accepted
        PROVE  Stored(items[i], results[i].sum)'
    <3>1. items[i].local # Local /\ Stored(items[i], results[i].sum)
      BY <1>b, <2>1, <2>3
    <3>2. disk'[items[i].local] = disk[items[i].local]
      <4>1. disk' = disk \/ disk' = [disk EXCEPT ![Local] = NoFile]
        BY <1>4 DEF FinishFile
      <4>2. items[i].local \in Locals
        BY <3>1, Constants DEF Stored
      <4> QED BY <3>1, <4>1, <4>2 DEF Types, Placed
    <3> QED BY <1>a, <3>1, <3>2 DEF Stored
  <2>4. ASSUME phone' \in {"body", "reply"}, to_phone'[1].word = "ACK"
        PROVE  Stored(items[item], sum)'
    <3>1. to_phone = <<>> /\ header.file = items[item] /\ header.sum = sum
      BY <1>a, <2>2, <2>4
    <3>2. CASE disk[Local] = header.sum
      <4>1. Say([word |-> "ACK", sum |-> disk[Local]]) /\ disk' = disk
        BY <1>4, <3>2 DEF FinishFile
      <4> QED BY <1>a, <2>1, <3>1, <3>2, <4>1 DEF Stored, Local
    <3>3. CASE disk[Local] # header.sum
      <4>1. Say([word |-> "NAK", sum |-> disk[Local]])
        BY <1>4, <3>3 DEF FinishFile
      <4>2. to_phone'[1] = [word |-> "NAK", sum |-> disk[Local]]
        BY <2>1, <3>1, <4>1, SayAlone, RepliesTyped
      <4> QED BY <2>4, <4>2
    <3> QED BY <3>2, <3>3
  <2> QED BY <1>a, <2>1, <2>3, <2>4 DEF AckInv
<1>5. CASE ReadEnd
  <2>0. to_desktop # <<>> /\ to_desktop[1].kind = "end"
    BY <1>5, RestOfStream DEF ReadEnd
  <2>1. phone \notin {"body", "reply"}
    <3>1. ~HeaderSent
      BY <2>0 DEF HeaderSent, HeaderOf
    <3> QED BY <1>5, <2>0, <3>1 DEF ReadEnd, InStep, AtHeader
  <2>2. UNCHANGED <<disk, header>> /\ desktop' # "body"
    BY <1>5 DEF ReadEnd, keeping
  <2> QED BY <1>a, <2>1, <2>2, AckQuiet
<1>6. CASE WriteManifest \/ StopWaiting \/ DesktopFails
  <2>1. UNCHANGED <<disk, header, to_phone>> /\ desktop' # "body"
    BY <1>6 DEF WriteManifest, StopWaiting, DesktopFails, streams, Fail
  <2> QED BY <1>a, <2>1, AckQuiet
<1>7. QED
  BY <1>1, <1>2, <1>3, <1>4, <1>5, <1>6 DEF Desktop

LEMMA AckNext == Types /\ Types' /\ InStep /\ InStep' /\ AckInv /\ [Next]_vars => AckInv'
<1> SUFFICES ASSUME Types, Types', InStep, InStep', AckInv, [Next]_vars PROVE AckInv'
  OBVIOUS
<1>1. CASE UNCHANGED vars
  <2>1. UNCHANGED <<items, item, sum, results, disk, header, desktop, phone, phone_open, to_phone>>
    BY <1>1 DEF vars, sending, streams, keeping
  <2> QED BY <2>1, AckQuiet
<1>2. QED
  BY <1>1, PhoneAck, DesktopAck DEF Next

-----------------------------------------------------------------------------
(* The manifest.                                                           *)

Listed(l) == \E i \in 1 .. Len(files) : files[i].local = l

\* The list is of what is under out, but for the file being received and for
\* what a failure leaves there; it is written out once and for all.
ListInv ==
  /\ \A i \in 1 .. Len(files) :
        /\ disk[files[i].local] = files[i].sum
        /\ files[i].sum \in Contents
        /\ desktop = "body" => files[i].local # Local
  /\ \A i, j \in 1 .. Len(files) : files[i].local = files[j].local => i = j
  /\ desktop # "failed" =>
        \A l \in Locals : disk[l] # NoFile => (desktop = "body" /\ l = Local) \/ Listed(l)
  /\ manifest # NoManifest => manifest = files /\ desktop = "done"

LEMMA ListInit == Init => ListInv
<1> SUFFICES ASSUME Init PROVE ListInv
  OBVIOUS
<1>1. Len(files) = 0 /\ \A l \in Locals : disk[l] = NoFile
  BY DEF Init
<1>2. QED
  BY <1>1 DEF Init, ListInv

LEMMA ListNext == Types /\ ListInv /\ [Next]_vars => ListInv'
<1> SUFFICES ASSUME Types, ListInv, [Next]_vars PROVE ListInv'
  OBVIOUS
<1>0. /\ files \in Seq([local : Locals, sum : Seq(Bytes)])
      /\ disk \in [Locals -> Seq(Bytes) \cup {NoFile}]
      /\ desktop = "body" => header \in Headers /\ Local \in Locals /\ disk[Local] \in Seq(Bytes)
  BY Constants DEF Types, Placed, Headers, Local
<1>1. \A i \in 1 .. Len(files) : files[i].local \in Locals
  <2> TAKE i \in 1 .. Len(files)
  <2>1. files[i] \in [local : Locals, sum : Seq(Bytes)]
    BY <1>0, ElementOfSeq
  <2> QED BY <2>1
<1>2. CASE Connect \/ Phone \/ PhoneFails \/ ReadHello \/ ReadEnd \/ UNCHANGED vars
  <2>1. UNCHANGED <<disk, files, header, manifest>>
    BY <1>2 DEF Connect, Phone, PhoneFails, SendHello, ReadGreeting, SendHeader, SendByte, BodySent,
                ReadReply, SendEnd, ReadBye, ReadHello, ReadEnd, vars, keeping
  <2>2. \/ desktop' = desktop
        \/ desktop \in {"accept", "hello", "header"} /\ desktop' \in {"hello", "header", "accept", "manifest"}
    BY <1>2 DEF Connect, Phone, PhoneFails, SendHello, ReadGreeting, SendHeader, SendByte, BodySent,
                ReadReply, SendEnd, ReadBye, ReadHello, ReadEnd, vars
  <2> QED BY <2>1, <2>2 DEF ListInv, Listed, Local
<1>3. CASE StopWaiting \/ DesktopFails
  <2>1. UNCHANGED <<disk, files, header, manifest>> /\ desktop' = "failed" /\ desktop # "done"
    BY <1>3 DEF StopWaiting, DesktopFails, Waiting, Fail
  <2> QED BY <2>1 DEF ListInv
<1>4. CASE ReadHeader
  <2>1. desktop = "header" /\ UNCHANGED <<files, manifest>> /\ manifest = NoManifest
    BY <1>4 DEF ReadHeader, ListInv
  <2>2. CASE desktop' # "body"
    <3>1. disk' = disk /\ desktop' = "failed"
      BY <1>4, <2>2 DEF ReadHeader, Fail
    <3> QED BY <2>1, <3>1 DEF ListInv
  <2>3. CASE desktop' = "body"
    <3>1. ~Taken(Local') /\ disk' = [disk EXCEPT ![Local'] = <<>>]
      BY <1>4, <2>3 DEF ReadHeader, Local, Fail
    <3>3. \A i \in 1 .. Len(files) : files[i].local # Local' /\ disk'[files[i].local] = files[i].sum
      BY <1>0, <1>1, <3>1, Constants DEF ListInv, Taken
    <3>4. \A l \in Locals : disk'[l] # NoFile => l = Local' \/ Listed(l)
      BY <1>0, <2>1, <3>1 DEF ListInv
    <3> QED BY <2>1, <2>3, <3>3, <3>4 DEF ListInv, Listed
  <2> QED BY <2>2, <2>3
<1>5. CASE ReadByte
  <2>1. desktop = "body" /\ UNCHANGED <<files, manifest, desktop, header>> /\ Local' = Local
    BY <1>5 DEF ReadByte, Local
  <2>2. \A l \in Locals : l # Local => disk'[l] = disk[l]
    BY <1>0, <1>5 DEF ReadByte
  <2> QED BY <1>1, <2>1, <2>2 DEF ListInv, Listed
<1>6. CASE FinishFile
  <2>1. desktop = "body" /\ desktop' = "header" /\ UNCHANGED <<manifest, header>> /\ manifest = NoManifest
    BY <1>6 DEF FinishFile, ListInv
  <2>2. CASE disk[Local] = header.sum
    <3>1. /\ disk' = disk /\ files' = Append(files, [local |-> Local, sum |-> disk[Local]])
          /\ disk[Local] \in Contents
      BY <1>0, <1>6, <2>1, <2>2 DEF FinishFile, Headers
    <3>2. /\ Len(files') = Len(files) + 1 /\ Len(files) \in Nat
          /\ \A i \in 1 .. Len(files) : files'[i] = files[i]
          /\ files'[Len(files')].local = Local /\ files'[Len(files')].sum = disk[Local]
      BY <1>0, <3>1
    <3>3. \A i \in 1 .. Len(files') : i \in 1 .. Len(files) \/ i = Len(files')
      BY <3>2
    <3>4. \A i \in 1 .. Len(files') : disk'[files'[i].local] = files'[i].sum /\ files'[i].sum \in Contents
      BY <3>1, <3>2, <3>3 DEF ListInv
    <3>5. \A i, j \in 1 .. Len(files') : files'[i].local = files'[j].local => i = j
      <4>1. \A i \in 1 .. Len(files) : files[i].local # Local
        BY <2>1 DEF ListInv
      <4> QED BY <3>2, <3>3, <4>1 DEF ListInv
    <3>6. \A l \in Locals : disk[l] # NoFile => \E i \in 1 .. Len(files') : files'[i].local = l
      <4> SUFFICES ASSUME NEW l \in Locals, disk[l] # NoFile
                   PROVE  \E i \in 1 .. Len(files') : files'[i].local = l
        OBVIOUS
      <4>1. CASE l = Local
        <5>1. Len(files') \in 1 .. Len(files')
          BY <3>2
        <5> QED BY <3>2, <4>1, <5>1
      <4>2. CASE l # Local
        <5>1. PICK i \in 1 .. Len(files) : files[i].local = l
          BY <2>1, <4>2 DEF ListInv, Listed
        <5>2. i \in 1 .. Len(files')
          BY <3>2
        <5> QED BY <3>2, <5>1, <5>2
      <4> QED BY <4>1, <4>2
    <3> QED BY <2>1, <3>1, <3>4, <3>5, <3>6 DEF ListInv, Listed
  <2>3. CASE disk[Local] # header.sum
    <3>1. files' = files /\ disk' = [disk EXCEPT ![Local] = NoFile]
      BY <1>6, <2>3 DEF FinishFile
    <3>2. \A i \in 1 .. Len(files) : files[i].local # Local /\ files[i].local \in Locals
      BY <1>1, <2>1 DEF ListInv
    <3>3. \A l \in Locals : disk'[l] = (IF l = Local THEN NoFile ELSE disk[l])
      BY <1>0, <3>1
    <3> QED BY <2>1, <3>1, <3>2, <3>3 DEF ListInv, Listed
  <2> QED BY <2>2, <2>3
<1>7. CASE WriteManifest
  BY <1>7 DEF WriteManifest, ListInv, Listed
<1>8. QED
  BY <1>2, <1>3, <1>4, <1>5, <1>6, <1>7 DEF Next, Desktop

-----------------------------------------------------------------------------
(* The theorems.                                                           *)

LEMMA BridgeInv == Spec => [](Types /\ InStep /\ AckInv /\ ListInv)
<1>1. Init => Types /\ InStep /\ AckInv /\ ListInv
  BY TypesInit, InStepInit, AckInit, ListInit
<1>2. Types /\ InStep /\ AckInv /\ ListInv /\ [Next]_vars => (Types /\ InStep /\ AckInv /\ ListInv)'
  BY TypesNext, InStepNext, AckNext, ListNext
<1> QED BY <1>1, <1>2, PTL DEF Spec

\* Every reachable state of the two ends and of the connection between them is
\* well typed.
THEOREM BridgeTyped == Spec => []TypeOK
<1>1. Types => TypeOK
  BY DEF Types
<1> QED BY <1>1, BridgeInv, PTL

\* Whatever the files hold when they are read, and wherever either end fails,
\* bridge.rs never takes a file's bytes for a header, and never waits for
\* Bridge.kt while it waits for bridge.rs.
THEOREM TheEndsKeepStep == Spec => []EndsKeepStep
<1> QED BY StepIsKept, BridgeInv, PTL

\* What serve acknowledged is under out, and has the digest Bridge.kt computed
\* of it and put in its header, for as long as the phone remembers the answer.
THEOREM AcksAreTrue == Spec => []AckMeansIntact
<1>1. AckInv => AckMeansIntact
  BY DEF AckInv, AckMeansIntact, Stored
<1> QED BY <1>1, BridgeInv, PTL

\* The manifest of a finished transfer lists the directory: every file in it
\* once, with its digest, and no other.
THEOREM ManifestsAreTrue == Spec => []ManifestIsTheDirectory
<1>1. ListInv => ManifestIsTheDirectory
  BY DEF ListInv, ManifestIsTheDirectory, Listed
<1> QED BY <1>1, BridgeInv, PTL

=============================================================================
