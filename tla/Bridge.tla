------------------------------- MODULE Bridge -------------------------------
(***************************************************************************)
(* The companion bridge (RCB1): rc-mobile's bridge.rs on the computer and  *)
(* companion-android's Bridge.kt on the phone, over one connection at a    *)
(* time.                                                                   *)
(*                                                                         *)
(* The phone's half of the connection is a stream of units: a hello or a   *)
(* header line, the end line, or one byte of a file.  Nothing in it says   *)
(* which is which but the sizes in the headers, so the two ends must keep  *)
(* step.  A digest is what it is the digest of.                            *)
(***************************************************************************)
EXTENDS Integers, Sequences

CONSTANTS
  Transfers,        \* what the phone may be asked to send: lists of [local, size]
  Contents,         \* what a file on the phone may hold, when read
  Pad,              \* the byte a short file is filled up with
  MaxFile,          \* MAX_FILE
  MaxConnections,   \* bound: connections the phone opens
  NoFile, NoManifest

Sendable == UNION {{list[i] : i \in DOMAIN list} : list \in Transfers}
Locals   == {f.local : f \in Sendable}
Bytes    == {Pad} \cup UNION {{c[i] : i \in DOMAIN c} : c \in Contents}

ASSUME BridgeAssumption ==
  /\ MaxFile \in Nat /\ MaxConnections \in Nat
  /\ Transfers \subseteq Seq(Sendable)
  /\ \A f \in Sendable : f.size \in Nat
  /\ Contents \subseteq Seq(Bytes) /\ NoFile \notin Contents

VARIABLES
  phone,        \* what writeSession does next
  phone_open,   \* the phone's end of the connection is open
  items,        \* the items it sends
  item,         \* the item in hand
  sum,          \* the digest in its header
  reading,      \* the content of the file opened to be sent
  sent,         \* bytes of it sent
  results,      \* what the computer said of each item, and the digest sent with it
  to_desktop, to_phone,   \* the two directions of the connection
  desktop,      \* what serve does next
  header,       \* the header in hand
  left,         \* bytes of its file still to come
  disk,         \* the files under out
  files,        \* what has been received
  manifest,     \* manifest.json
  error,        \* what serve returned, when it failed
  connections

streams  == <<to_desktop, to_phone>>
sending  == <<items, item, sum, reading, sent, results>>
keeping  == <<header, left, disk, files, manifest, error>>
vars == <<phone, phone_open, sending, streams, desktop, keeping, connections>>

HelloOf(code)   == [kind |-> "hello", code |-> code]
HeaderOf(f, s)  == [kind |-> "header", file |-> f, sum |-> s]
ByteOf(b)       == [kind |-> "byte", byte |-> b]
End             == [kind |-> "end"]
Reply(w)        == [word |-> w, sum |-> <<>>]
NoHeader        == HeaderOf(NoFile, <<>>)

Init ==
  /\ phone = "idle" /\ phone_open = FALSE
  /\ items = <<>> /\ item = 0 /\ sum = <<>> /\ reading = <<>> /\ sent = 0 /\ results = <<>>
  /\ to_desktop = <<>> /\ to_phone = <<>>
  /\ desktop = "accept"
  /\ header = NoHeader /\ left = 0
  /\ disk = [l \in Locals |-> NoFile] /\ files = <<>>
  /\ manifest = NoManifest /\ error = "none"
  /\ connections = 0

-----------------------------------------------------------------------------
(* The phone                                                               *)

\* The app connects, and serve accepts it.
Connect ==
  /\ phone = "idle" /\ desktop = "accept"
  /\ connections < MaxConnections
  /\ connections' = connections + 1
  /\ phone' = "hello" /\ phone_open' = TRUE
  /\ items' \in Transfers /\ item' = 1 /\ sum' = <<>> /\ reading' = <<>> /\ sent' = 0 /\ results' = <<>>
  /\ to_desktop' = <<>> /\ to_phone' = <<>>
  /\ desktop' = "hello"
  /\ UNCHANGED keeping

\* The code the user typed is the computer's, or is not.
SendHello ==
  /\ phone = "hello"
  /\ \E code \in {"right", "wrong"} : to_desktop' = Append(to_desktop, HelloOf(code))
  /\ phone' = "greeting"
  /\ UNCHANGED <<phone_open, sending, to_phone, desktop, keeping, connections>>

ReadGreeting ==
  /\ phone = "greeting" /\ to_phone # <<>>
  /\ to_phone' = Tail(to_phone)
  /\ IF Head(to_phone).word = "OK"
       THEN phone' = "next" /\ UNCHANGED phone_open
       ELSE phone' = "idle" /\ phone_open' = FALSE
  /\ UNCHANGED <<sending, to_desktop, desktop, keeping, connections>>

\* The file is read once for the digest, and once more to be sent; it may have
\* changed between, and since its size was looked up.
SendHeader ==
  /\ phone = "next" /\ item <= Len(items)
  /\ \E then, now \in Contents :
       /\ sum' = then /\ reading' = now
       /\ to_desktop' = Append(to_desktop, HeaderOf(items[item], then))
  /\ sent' = 0
  /\ phone' = "body"
  /\ UNCHANGED <<phone_open, items, item, results, to_phone, desktop, keeping, connections>>

\* Mutant: a file that turns out shorter ends its frame early.
RemainingOfFile ==
  IF sent < Len(reading) THEN items[item].size - sent ELSE 0

\* What is left of the frame the header announced, whatever the file's length
\* is now.
Remaining == items[item].size - sent

SendByte ==
  /\ phone = "body"
  /\ Remaining > 0
  /\ to_desktop' = Append(to_desktop,
       ByteOf(IF sent < Len(reading) THEN reading[sent + 1] ELSE Pad))
  /\ sent' = sent + 1
  /\ UNCHANGED <<phone, phone_open, items, item, sum, reading, results, to_phone, desktop,
                 keeping, connections>>

BodySent ==
  /\ phone = "body" /\ Remaining = 0
  /\ phone' = "reply"
  /\ UNCHANGED <<phone_open, sending, streams, desktop, keeping, connections>>

\* Result keeps the computer's answer; the digest beside it is the one this phone
\* put in the item's header, whatever the answer says.
ReadReply ==
  /\ phone = "reply" /\ to_phone # <<>>
  /\ to_phone' = Tail(to_phone)
  /\ results' = Append(results, [accepted |-> Head(to_phone).word = "ACK",
                                 sum      |-> sum])
  /\ item' = item + 1
  /\ phone' = "next"
  /\ UNCHANGED <<phone_open, items, sum, reading, sent, to_desktop, desktop, keeping,
                 connections>>

SendEnd ==
  /\ phone = "next" /\ item > Len(items)
  /\ to_desktop' = Append(to_desktop, End)
  /\ phone' = "bye"
  /\ UNCHANGED <<phone_open, sending, to_phone, desktop, keeping, connections>>

ReadBye ==
  /\ phone = "bye" /\ to_phone # <<>>
  /\ to_phone' = Tail(to_phone)
  /\ phone' = "done" /\ phone_open' = FALSE
  /\ UNCHANGED <<sending, to_desktop, desktop, keeping, connections>>

\* A read or a write fails, a reply takes longer than soTimeout, or the app is
\* closed.
PhoneFails ==
  /\ phone_open
  /\ phone' = "idle" /\ phone_open' = FALSE
  /\ UNCHANGED <<sending, streams, desktop, keeping, connections>>

Phone ==
  \/ SendHello \/ ReadGreeting \/ SendHeader \/ SendByte \/ BodySent
  \/ ReadReply \/ SendEnd \/ ReadBye

-----------------------------------------------------------------------------
(* The computer                                                            *)

Say(reply) == to_phone' = Append(to_phone, reply)

\* serve returns an error: the connection and the listener are dropped.
Fail(why) == desktop' = "failed" /\ error' = why

\* session's greeting.
ReadHello ==
  /\ desktop = "hello" /\ to_desktop # <<>>
  /\ to_desktop' = Tail(to_desktop)
  /\ IF Head(to_desktop).code = "right"
       THEN Say(Reply("OK")) /\ desktop' = "header"
       ELSE Say(Reply("NO")) /\ desktop' = "accept"
  /\ UNCHANGED <<phone, phone_open, sending, keeping, connections>>

\* create_new(true).
Taken(local) == disk[local] # NoFile

\* A line that does not parse as a header ends the session; so does a file that
\* is too large, or is there already.
ReadHeader ==
  /\ desktop = "header" /\ to_desktop # <<>>
  /\ Head(to_desktop).kind # "end"
  /\ to_desktop' = Tail(to_desktop)
  /\ IF Head(to_desktop).kind # "header"
       THEN Fail("bad header") /\ UNCHANGED <<to_phone, header, left, disk>>
       ELSE LET i == Head(to_desktop).file IN
            /\ header' = Head(to_desktop)
            /\ \/ /\ i.size > MaxFile
                  /\ Say(Reply("NAK")) /\ Fail("too large")
                  /\ UNCHANGED <<left, disk>>
               \/ /\ i.size <= MaxFile /\ Taken(i.local)
                  /\ Fail("exists")
                  /\ UNCHANGED <<to_phone, left, disk>>
               \/ /\ i.size <= MaxFile /\ ~Taken(i.local)
                  /\ disk' = [disk EXCEPT ![i.local] = <<>>]
                  /\ left' = i.size
                  /\ desktop' = "body"
                  /\ UNCHANGED <<to_phone, error>>
  /\ UNCHANGED <<phone, phone_open, sending, files, manifest, connections>>

Local == header.file.local

\* Whatever comes next in the stream is the file's next byte.
ReadByte ==
  /\ desktop = "body" /\ left > 0 /\ to_desktop # <<>>
  /\ to_desktop' = Tail(to_desktop)
  /\ disk' = [disk EXCEPT ![Local] = Append(@,
                IF Head(to_desktop).kind = "byte" THEN Head(to_desktop).byte ELSE Pad)]
  /\ left' = left - 1
  /\ UNCHANGED <<phone, phone_open, sending, to_phone, desktop, header, files, manifest,
                 error, connections>>

\* Mutant: the header's digest is not compared with the one computed.
FinishFileUnchecked ==
  /\ desktop = "body" /\ left = 0
  /\ Say([word |-> "ACK", sum |-> disk[Local]])
  /\ files' = Append(files, [local |-> Local, sum |-> disk[Local]])
  /\ desktop' = "header"
  /\ UNCHANGED <<phone, phone_open, sending, to_desktop, header, left, disk, manifest, error,
                 connections>>

\* Mutant: a file is listed before its digest is looked at.
FinishFileListing ==
  /\ desktop = "body" /\ left = 0
  /\ files' = Append(files, [local |-> Local, sum |-> disk[Local]])
  /\ IF disk[Local] = header.sum
       THEN Say([word |-> "ACK", sum |-> disk[Local]]) /\ UNCHANGED disk
       ELSE /\ disk' = [disk EXCEPT ![Local] = NoFile]
            /\ Say([word |-> "NAK", sum |-> disk[Local]])
  /\ desktop' = "header"
  /\ UNCHANGED <<phone, phone_open, sending, to_desktop, header, left, manifest, error,
                 connections>>

\* The file is whole: it is kept if its digest is the header's, and removed
\* otherwise.
FinishFile ==
  /\ desktop = "body" /\ left = 0
  /\ IF disk[Local] = header.sum
       THEN /\ Say([word |-> "ACK", sum |-> disk[Local]])
            /\ files' = Append(files, [local |-> Local, sum |-> disk[Local]])
            /\ UNCHANGED disk
       ELSE /\ disk' = [disk EXCEPT ![Local] = NoFile]
            /\ Say([word |-> "NAK", sum |-> disk[Local]])
            /\ UNCHANGED files
  /\ desktop' = "header"
  /\ UNCHANGED <<phone, phone_open, sending, to_desktop, header, left, manifest, error,
                 connections>>

\* BYE goes out first, and the manifest is written after it.
ReadEnd ==
  /\ desktop = "header" /\ to_desktop # <<>> /\ Head(to_desktop).kind = "end"
  /\ to_desktop' = Tail(to_desktop)
  /\ Say(Reply("BYE"))
  /\ desktop' = "manifest"
  /\ UNCHANGED <<phone, phone_open, sending, keeping, connections>>

WriteManifest ==
  /\ desktop = "manifest"
  /\ manifest' = files
  /\ desktop' = "done"
  /\ UNCHANGED <<phone, phone_open, sending, streams, header, left, disk, files, error,
                 connections>>

\* Mutant: the hello is waited for without a timeout.
WaitingAfterHello ==
  /\ to_desktop = <<>>
  /\ desktop = "header" \/ (desktop = "body" /\ left > 0)

\* The computer waits for the phone.
Waiting ==
  /\ to_desktop = <<>>
  /\ desktop \in {"hello", "header"} \/ (desktop = "body" /\ left > 0)

\* Nothing comes for idle_timeout, or the connection is closed: read fails.
StopWaiting ==
  /\ Waiting
  /\ Fail(IF desktop = "hello" THEN "no hello" ELSE "no more")
  /\ UNCHANGED <<phone, phone_open, sending, streams, header, left, disk, files, manifest,
                 connections>>

\* A file or the manifest cannot be written, or a reply cannot be sent.
DesktopFails ==
  /\ desktop \in {"header", "body", "manifest"}
  /\ Fail("io")
  /\ UNCHANGED <<phone, phone_open, sending, streams, header, left, disk, files, manifest,
                 connections>>

Desktop ==
  \/ ReadHello \/ ReadHeader \/ ReadByte \/ FinishFile
  \/ ReadEnd \/ WriteManifest

Next == Connect \/ Phone \/ PhoneFails \/ Desktop \/ StopWaiting \/ DesktopFails

Spec == Init /\ [][Next]_vars

\* The computer keeps running, and its reads time out.  The phone need not go on.
FairSpec == Spec /\ WF_vars(Desktop \/ StopWaiting)

-----------------------------------------------------------------------------
(* Properties                                                              *)

Units == [kind : {"hello"}, code : {"right", "wrong"}]
           \cup [kind : {"header"}, file : Sendable, sum : Contents]
           \cup [kind : {"byte"}, byte : Bytes]
           \cup {End}

TypeOK ==
  /\ phone \in {"idle", "hello", "greeting", "next", "body", "reply", "bye", "done"}
  /\ phone_open = (phone \notin {"idle", "done"})
  /\ items \in Transfers \cup {<<>>} /\ item \in 0 .. Len(items) + 1 /\ sent \in Nat /\ left \in Nat
  /\ to_desktop \in Seq(Units)
  /\ \A i \in 1 .. Len(to_phone) : to_phone[i].word \in {"OK", "NO", "ACK", "NAK", "BYE"}
  /\ desktop \in {"accept", "hello", "header", "body", "manifest", "done", "failed"}
  /\ DOMAIN disk = Locals
  /\ connections \in 0 .. MaxConnections

\* What the phone was told is accepted is on the computer, under its own name,
\* and has the digest the phone put in its header (Bridge.kt), though the file
\* may have changed between the digest and the bytes, another may come with the
\* same name, and the transfer may fail afterwards (bridge.rs: NAK sha256).
AckMeansIntact ==
  \A i \in 1 .. Len(results) :
    results[i].accepted => disk[items[i].local] = results[i].sum

\* The manifest of a finished transfer lists what is in the directory, all of
\* it and nothing else.
ManifestIsTheDirectory ==
  manifest # NoManifest =>
    /\ \A l \in Locals : disk[l] # NoFile => \E i \in 1 .. Len(manifest) : manifest[i].local = l
    /\ \A i \in 1 .. Len(manifest) : disk[manifest[i].local] = manifest[i].sum
    /\ \A i, j \in 1 .. Len(manifest) : manifest[i].local = manifest[j].local => i = j

\* The two ends keep step: the computer never takes a file's bytes for a
\* header, and never waits for bytes of a phone that waits for its reply.
EndsKeepStep ==
  /\ error # "bad header"
  /\ ~(Waiting /\ to_phone = <<>> /\ phone \in {"greeting", "reply", "bye"})

\* No phone holds the computer up for ever, not even a silent one.
SessionEnds ==
  desktop \in {"hello", "header", "body", "manifest"} ~> desktop \in {"accept", "done", "failed"}

=============================================================================
