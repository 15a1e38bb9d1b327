---------------------------- MODULE FileTransfer ----------------------------
(***************************************************************************)
(* How the files of one offer cross a sync connection (src/src/peer.cpp:   *)
(* 203-246, :399-435, :448-461, src/src/protocol.hpp:31-87).  Each travels *)
(* as the length of its name, the name, its size and its bytes, with no    *)
(* mark in between; read and write move as many bytes as they like.  The   *)
(* user may change a file after it was hashed, while it is uploaded.       *)
(* PeerSync, for which a file is one token, tells which files are sent.    *)
(***************************************************************************)
EXTENDS Naturals, SequencesExt

CONSTANTS
  ByteValues,        \* how many values a byte has
  Capacity,          \* of the socket buffers on the way, in bytes
  Offered,           \* the files the two sides agree on, by name
  Versions,          \* what a file may contain: bytes
  MaxChanges         \* bound: how often a file is changed

Byte == 0..(ByteValues - 1)

\* A file that is missing cannot be opened; for ReopenEnd an empty one cannot.
Unopenable == <<>>

ASSUME FileTransferAssumption ==
  /\ ByteValues \in Nat \ {0, 1}
  /\ Capacity \in Nat \ {0} /\ MaxChanges \in Nat
  /\ Offered \in Seq(Seq(Byte)) /\ Offered # <<>>
  /\ \A k \in DOMAIN Offered : Len(Offered[k]) \in Byte \ {0}
  /\ Versions \subseteq Seq(Byte) /\ Unopenable \in Versions

VARIABLES
  disk,              \* what is in the files of the uploader
  changes,
  up,                \* the uploader: at, file (its number), file_size, out
                     \* (what WriteFully has still to write)
  pipe,              \* written, not yet read
  down,              \* the downloader: at, name, count (what ReadFully is to
                     \* read), buf (what it has read so far)
  sent,              \* history: what the uploader has begun to upload
  stored             \* what the downloader has received

vars == <<disk, changes, up, pipe, down, sent, stored>>

File(name, bytes) == [name |-> name, bytes |-> bytes]

Init ==
  /\ disk \in [DOMAIN Offered -> Versions \ {Unopenable}]
  /\ changes = 0
  /\ up = [at |-> "name", file |-> 1, file_size |-> 0, out |-> <<>>]
  /\ pipe = <<>>
  /\ down = [at |-> "length", name |-> <<>>, count |-> 1, buf |-> <<>>]
  /\ sent = <<>> /\ stored = <<>>

Change ==
  /\ changes < MaxChanges
  /\ changes' = changes + 1
  /\ \E k \in DOMAIN Offered, bytes \in Versions : disk' = [disk EXCEPT ![k] = bytes]
  /\ UNCHANGED <<up, pipe, down, sent, stored>>
-----------------------------------------------------------------------------
(* The size of a file on the wire: a uint32_t, its most significant byte    *)
(* first (htonl).                                                          *)

SizeBytes == 4

FileSizeBytes(size) ==
  LET high == size \div ByteValues
      higher == high \div ByteValues
      highest == higher \div ByteValues
  IN  <<highest % ByteValues, higher % ByteValues, high % ByteValues, size % ByteValues>>

FileSizeOf(bytes) ==
  ((bytes[1] * ByteValues + bytes[2]) * ByteValues + bytes[3]) * ByteValues + bytes[4]

\* The sizes that the cast to uint32_t leaves alone.
Fits(size) == size < ByteValues * ByteValues * ByteValues * ByteValues
-----------------------------------------------------------------------------
(* The uploader. *)

Closed == up.at \in {"done", "aborted"}

\* It goes on when all of out has been written.
Upload(at) == up.at = at /\ up.out = <<>>

\* write takes some bytes.
Write ==
  \E n \in 1..Len(up.out) :
    /\ ~Closed
    /\ Len(pipe) + n <= Capacity
    /\ pipe' = pipe \o SubSeq(up.out, 1, n)
    /\ up' = [up EXCEPT !.out = SubSeq(@, n + 1, Len(@))]
    /\ UNCHANGED <<disk, changes, down, sent, stored>>

SendName ==
  /\ Upload("name") /\ up.file <= Len(Offered)
  /\ up' = [up EXCEPT !.at = "open", !.out = <<Len(Offered[up.file])>> \o Offered[up.file]]
  /\ UNCHANGED <<disk, changes, pipe, down, sent, stored>>

\* The size is that of the file when it is opened.
SendSize ==
  /\ Upload("open") /\ disk[up.file] # Unopenable
  /\ up' = [up EXCEPT !.at = "data",
                      !.file_size = Len(disk[up.file]),
                      !.out = FileSizeBytes(Len(disk[up.file]))]
  /\ UNCHANGED <<disk, changes, pipe, down, sent, stored>>

\* "failed to open": Fatal.
OpenFails ==
  /\ Upload("open") /\ disk[up.file] = Unopenable
  /\ up' = [up EXCEPT !.at = "aborted"]
  /\ UNCHANGED <<disk, changes, pipe, down, sent, stored>>

\* Mutant: as many bytes as the file has by now.
BufferOfNow == disk[up.file]

\* file_size bytes, of which read fills as many as the file has by now.
Buffer ==
  [k \in 1..up.file_size |-> IF k <= Len(disk[up.file]) THEN disk[up.file][k] ELSE 0]

SendData ==
  /\ Upload("data")
  /\ up' = [up EXCEPT !.at = "name", !.file = @ + 1, !.out = Buffer]
  /\ sent' = Append(sent, File(Offered[up.file], Buffer))
  /\ UNCHANGED <<disk, changes, pipe, down, stored>>

\* The uploader returns (or offers something else, which is not followed).
UploadEnds ==
  /\ Upload("name") /\ up.file > Len(Offered)
  /\ up' = [up EXCEPT !.at = "done"]
  /\ UNCHANGED <<disk, changes, pipe, down, sent, stored>>

\* Its process is killed.
Kill ==
  /\ ~Closed
  /\ up' = [up EXCEPT !.at = "aborted"]
  /\ UNCHANGED <<disk, changes, pipe, down, sent, stored>>
-----------------------------------------------------------------------------
(* The downloader. *)

\* Mutant: read is asked for count bytes, whatever it has returned before.
WholeCount == IF Len(down.buf) = down.count THEN 0 ELSE down.count

\* How many bytes ReadFully asks read for.
Wanted == down.count - Len(down.buf)

\* read returns some of them.
Read ==
  \E n \in 1..Wanted :
    /\ n <= Len(pipe)
    /\ down' = [down EXCEPT !.buf = @ \o SubSeq(pipe, 1, n)]
    /\ pipe' = SubSeq(pipe, n + 1, Len(pipe))
    /\ UNCHANGED <<disk, changes, up, sent, stored>>

\* ReadFully has returned all it was to read, and is called for the next.
Received(at, next, count) ==
  /\ down.at = at /\ Len(down.buf) = down.count
  /\ down' = [at |-> next, count |-> count, buf |-> <<>>,
              name |-> IF at = "name" THEN down.buf ELSE down.name]
  /\ UNCHANGED <<disk, changes, up, pipe, sent>>

ReceiveLength ==
  Received("length", "name", IF down.buf = <<>> THEN 0 ELSE down.buf[1]) /\ UNCHANGED stored

ReceiveName == Received("name", "size", SizeBytes) /\ UNCHANGED stored

ReceiveSize == Received("size", "data", FileSizeOf(down.buf)) /\ UNCHANGED stored

\* Download writes the file when it is complete.  Behind the last one comes the
\* hash_count of another offer.
ReceiveData ==
  /\ stored' = Append(stored, File(down.name, down.buf))
  /\ Received("data", IF Len(stored) + 1 < Len(Offered) THEN "length" ELSE "hash_count", 1)

\* What is left of the files is read as one: nothing can be said from there on.
ReceiveSurplus == Received("hash_count", "lost", 0) /\ UNCHANGED stored

\* Mutant: ReadFully tries again when read returns 0.
ReadAgain == Closed /\ pipe = <<>> /\ Len(down.buf) < down.count /\ UNCHANGED vars

\* The end of the connection: the normal end in front of an offer, or Fatal.
ReadEnd ==
  /\ Closed /\ pipe = <<>>
  /\ Len(down.buf) < down.count
  /\ down' = [down EXCEPT !.at = IF @ = "hash_count" THEN "done" ELSE "aborted",
                          !.count = 0, !.buf = <<>>]
  /\ UNCHANGED <<disk, changes, up, pipe, sent, stored>>

\* The process of the uploader has gone and left something unread: read throws.
Reset ==
  /\ up.at = "aborted" /\ down.at \notin {"done", "aborted", "lost"}
  /\ down' = [down EXCEPT !.at = "aborted"]
  /\ UNCHANGED <<disk, changes, up, pipe, sent, stored>>
-----------------------------------------------------------------------------
DownloadOver == down.at \in {"done", "aborted", "lost"}

Terminated == DownloadOver /\ UNCHANGED vars

Uploader == Write \/ SendName \/ SendSize \/ OpenFails \/ SendData \/ UploadEnds

Downloader ==
  \/ Read \/ ReceiveLength \/ ReceiveName \/ ReceiveSize \/ ReceiveData
  \/ ReceiveSurplus \/ ReadEnd

Next == Uploader \/ Downloader \/ Change \/ Kill \/ Reset \/ Terminated

\* Both threads keep being scheduled; nobody need change or kill anything.
Spec == Init /\ [][Next]_vars /\ WF_vars(Uploader) /\ WF_vars(Downloader)
-----------------------------------------------------------------------------
TypeOK ==
  /\ disk \in [DOMAIN Offered -> Versions] /\ changes \in 0..MaxChanges
  /\ up \in [at : {"name", "open", "data", "done", "aborted"},
             file : 1..(Len(Offered) + 1), file_size : Nat, out : Seq(Byte)]
  /\ pipe \in Seq(Byte) /\ Len(pipe) <= Capacity
  /\ down \in [at : {"length", "name", "size", "data", "hash_count",
                     "done", "aborted", "lost"},
               name : Seq(Byte), count : Nat, buf : Seq(Byte)]
  /\ Len(down.buf) <= down.count
  /\ sent \in Seq([name : Seq(Byte), bytes : Seq(Byte)])
  /\ stored \in Seq([name : Seq(Byte), bytes : Seq(Byte)])

\* Including the size that was sent last.
AllFit == Fits(up.file_size) /\ \A k \in DOMAIN sent : Fits(Len(sent[k].bytes))

\* However reads and writes are split, wherever the connection ends and whatever
\* becomes of the files meanwhile, the two ends stay in step (protocol.hpp:31-87)
\* and no part of a file is stored for the whole (peer.cpp:448-453), unless the
\* size of one does not fit in the 32 bits it is sent in (protocol.hpp:85).
CrossInStep ==
  AllFit =>
    /\ IsPrefix(stored, sent)
    /\ down.at # "lost"
    /\ down.at = "aborted" => up.at = "aborted"

\* Neither end waits for the other forever.
DownloadIsOver == <>DownloadOver
=============================================================================
