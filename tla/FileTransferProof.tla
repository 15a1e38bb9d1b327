------------------------- MODULE FileTransferProof -------------------------
(***************************************************************************)
(* Proofs about FileTransfer, for any files, any contents, any capacity of *)
(* the connection and any number of changes: the two ends stay in step     *)
(* byte by byte, as long as sizes fit in what they are sent in.            *)
(***************************************************************************)
EXTENDS FileTransfer, Integers, SequenceTheorems, TLAPS

-----------------------------------------------------------------------------
(* The size on the wire. *)

\* What % and \div mean.
LEMMA DivisionLaw ==
  ASSUME NEW d \in Nat \ {0}, NEW c \in Nat
  PROVE  /\ c = d * (c \div d) + (c % d)
         /\ c \div d \in Nat
         /\ c % d \in 0..(d - 1)
BY SMTT(20)

\* A quotient is smaller than b if the number is smaller than d * b.
LEMMA QuotientBelow ==
  ASSUME NEW d \in Nat \ {0}, NEW b \in Nat \ {0}, NEW c \in Nat, c < d * b
  PROVE  c \div d < b
<1> DEFINE q == c \div d
<1>1. c = d * q + (c % d) /\ q \in Nat /\ c % d \in Nat
  BY DivisionLaw
<1>2. SUFFICES ASSUME b <= q PROVE FALSE
  BY <1>1
<1> HIDE DEF q
<1>3. PICK e \in Nat : q = b + e
  BY <1>1, <1>2, q - b \in Nat
<1>4. d * q = d * b + d * e /\ d * e \in Nat /\ d * b \in Nat
  BY <1>3, SMTT(20)
<1> QED
  BY <1>1, <1>4

\* A number below the base is its own remainder.
LEMMA BelowBase ==
  ASSUME NEW d \in Nat \ {0}, NEW c \in Nat, c < d
  PROVE  c % d = c
BY SMTT(20)

\* Four bytes, whatever the size.
LEMMA SizeIsFourBytes ==
  ASSUME NEW size \in Nat
  PROVE  FileSizeBytes(size) \in Seq(Byte) /\ Len(FileSizeBytes(size)) = 4
<1>1. ByteValues \in Nat \ {0}
  BY FileTransferAssumption
<1>2. ASSUME NEW c \in Nat
      PROVE  c \div ByteValues \in Nat /\ c % ByteValues \in Byte
  BY <1>1, <1>2, DivisionLaw DEF Byte
<1> DEFINE high == size \div ByteValues
           higher == high \div ByteValues
           highest == higher \div ByteValues
<1>3. high \in Nat
  BY <1>2
<1>4. higher \in Nat
  BY <1>2, <1>3
<1>5. highest \in Nat
  BY <1>2, <1>4
<1>6. /\ highest % ByteValues \in Byte /\ higher % ByteValues \in Byte
      /\ high % ByteValues \in Byte /\ size % ByteValues \in Byte
  BY <1>2, <1>3, <1>4, <1>5
<1>7. FileSizeBytes(size) =
        <<highest % ByteValues, higher % ByteValues, high % ByteValues, size % ByteValues>>
  BY DEF FileSizeBytes
<1> HIDE DEF high, higher, highest
<1> QED
  BY <1>6, <1>7

\* ReadFileSize understands WriteFileSize, as long as the size fits.
LEMMA SizeUnderstood ==
  ASSUME NEW size \in Nat, Fits(size)
  PROVE  FileSizeOf(FileSizeBytes(size)) = size
<1> DEFINE B == ByteValues
           high == size \div B
           higher == high \div B
           highest == higher \div B
<1>1. B \in Nat \ {0}
  BY FileTransferAssumption
<1>2. B * B \in Nat \ {0} /\ B * B * B \in Nat \ {0}
  BY <1>1, SMTT(20)
<1>3. size < B * (B * B * B)
  <2>1. B * B * B * B = B * (B * B * B)
    BY <1>1, SMTT(20)
  <2> QED
    BY <2>1 DEF Fits
<1>4. ASSUME NEW c \in Nat
      PROVE  c \div B \in Nat /\ c = B * (c \div B) + (c % B) /\ c % B \in Nat
  <2>1. c % B \in 0..(B - 1) /\ c \div B \in Nat /\ c = B * (c \div B) + (c % B)
    BY <1>1, DivisionLaw, Zenon
  <2>2. \A x \in 0..(B - 1) : x \in Nat
    BY <1>1
  <2> QED
    BY <2>1, <2>2, Zenon
<1>5. high \in Nat /\ size = B * high + (size % B) /\ size % B \in Nat
  BY <1>4
<1>6. high < B * B * B
  BY <1>1, <1>2, <1>3, QuotientBelow
<1>7. higher \in Nat /\ high = B * higher + (high % B) /\ high % B \in Nat
  BY <1>5, <1>4
<1>8. higher < B * B
  <2>1. high < B * (B * B)
    BY <1>1, <1>6, SMTT(20)
  <2> HIDE DEF high
  <2> QED
    BY <2>1, <1>1, <1>2, <1>5, QuotientBelow
<1>9. highest \in Nat /\ higher = B * highest + (higher % B) /\ higher % B \in Nat
  BY <1>7, <1>4
<1>10. highest < B
  <2> HIDE DEF higher
  <2> QED
    BY <1>1, <1>8, <1>7, QuotientBelow
<1>11. highest % B = highest
  BY <1>1, <1>9, <1>10, BelowBase
<1>12. FileSizeBytes(size) = <<highest % B, higher % B, high % B, size % B>>
  BY DEF FileSizeBytes
<1> HIDE DEF high, higher, highest
<1>13. FileSizeOf(FileSizeBytes(size)) =
         (((highest % B) * B + (higher % B)) * B + (high % B)) * B + (size % B)
  BY <1>12 DEF FileSizeOf
<1>14. highest * B = B * highest /\ higher * B = B * higher /\ high * B = B * high
  BY <1>1, <1>5, <1>7, <1>9, SMTT(20)
<1> HIDE DEF B
<1>15. (highest % B) * B + (higher % B) = higher
  BY <1>9, <1>11, <1>14
<1>16. higher * B + (high % B) = high
  BY <1>7, <1>14
<1>17. high * B + (size % B) = size
  BY <1>5, <1>14
<1> QED
  BY <1>13, <1>15, <1>16, <1>17

\* Anything of four bytes is a size.
LEMMA SizeIsNumber ==
  ASSUME NEW bytes \in Seq(Byte), Len(bytes) = 4
  PROVE  FileSizeOf(bytes) \in Nat
<1>1. ByteValues \in Nat
  BY FileTransferAssumption
<1>2. /\ bytes[1] \in Nat /\ bytes[2] \in Nat /\ bytes[3] \in Nat /\ bytes[4] \in Nat
  <2>1. bytes[1] \in Byte /\ bytes[2] \in Byte /\ bytes[3] \in Byte /\ bytes[4] \in Byte
    BY ElementOfSeq
  <2> QED
    BY <1>1, <2>1 DEF Byte
<1>3. \A x, y \in Nat : x * ByteValues + y \in Nat
  BY <1>1, SMTT(20)
<1> QED
  BY <1>2, <1>3 DEF FileSizeOf
-----------------------------------------------------------------------------
(* Types. *)

\* With what is known of the file in hand and of the size to be read, the type
\* invariant is inductive.
Typed ==
  /\ TypeOK
  /\ up.at \in {"open", "data"} => up.file <= Len(Offered)
  /\ down.at = "size" => down.count = SizeBytes
  /\ down.at = "done" => down.count = 0

\* A cut anywhere makes two sequences of a sequence.
LEMMA CutInTwo ==
  ASSUME NEW S, NEW s \in Seq(S), NEW n \in 0..Len(s)
  PROVE  /\ SubSeq(s, 1, n) \in Seq(S) /\ Len(SubSeq(s, 1, n)) = n
         /\ SubSeq(s, n + 1, Len(s)) \in Seq(S) /\ Len(SubSeq(s, n + 1, Len(s))) = Len(s) - n
         /\ SubSeq(s, 1, n) \o SubSeq(s, n + 1, Len(s)) = s
<1>1. Len(s) \in Nat /\ \A i \in 1..Len(s) : s[i] \in S
  BY LenProperties, ElementOfSeq
<1>2. SubSeq(s, 1, n) \in Seq(S) /\ Len(SubSeq(s, 1, n)) = n
  BY <1>1, SubSeqProperties
<1>3. SubSeq(s, n + 1, Len(s)) \in Seq(S) /\ Len(SubSeq(s, n + 1, Len(s))) = Len(s) - n
  BY <1>1, SubSeqProperties
<1>4. SubSeq(s, 1, n) \o SubSeq(s, n + 1, Len(s)) = SubSeq(s, 1, Len(s))
  <2>1. 1 \in 1..(Len(s) + 1) /\ n \in (1 - 1)..Len(s) /\ Len(s) \in n..Len(s)
    BY <1>1
  <2> QED
    BY <2>1, ConcatAdjacentSubSeq, Zenon
<1>5. SubSeq(s, 1, Len(s)) = s
  BY SubSeqFull
<1> QED
  BY <1>2, <1>3, <1>4, <1>5

\* The bytes of the offer.
LEMMA OfferedType ==
  /\ Len(Offered) \in Nat /\ Len(Offered) >= 1 /\ DOMAIN Offered = 1..Len(Offered)
  /\ \A k \in 1..Len(Offered) :
       /\ Offered[k] \in Seq(Byte) /\ Len(Offered[k]) \in Byte
       /\ Len(Offered[k]) \in Nat /\ Len(Offered[k]) >= 1
       /\ <<Len(Offered[k])>> \in Seq(Byte)
<1>1. Offered \in Seq(Seq(Byte)) /\ Offered # <<>>
  BY FileTransferAssumption
<1>2. Len(Offered) \in Nat /\ Len(Offered) >= 1 /\ DOMAIN Offered = 1..Len(Offered)
  BY <1>1, LenProperties, EmptySeq
<1>3. ASSUME NEW k \in 1..Len(Offered)
      PROVE  /\ Offered[k] \in Seq(Byte) /\ Len(Offered[k]) \in Byte
             /\ Len(Offered[k]) \in Nat /\ Len(Offered[k]) >= 1
             /\ <<Len(Offered[k])>> \in Seq(Byte)
  <2>1. Offered[k] \in Seq(Byte)
    BY <1>1, ElementOfSeq
  <2>2. Len(Offered[k]) \in Byte \ {0}
    BY <1>2, FileTransferAssumption
  <2>3. Len(Offered[k]) \in Nat
    BY <2>1, LenProperties
  <2> QED
    BY <2>1, <2>2, <2>3
<1> QED
  BY <1>2, <1>3

\* The buffer has as many bytes as were announced.
LEMMA BufferType ==
  ASSUME TypeOK, up.file \in 1..Len(Offered)
  PROVE  Buffer \in Seq(Byte) /\ Len(Buffer) = up.file_size
<1>1. up.file_size \in Nat
  BY DEF TypeOK
<1>2. disk[up.file] \in Seq(Byte)
  BY OfferedType, FileTransferAssumption DEF TypeOK
<1>3. 0 \in Byte
  BY FileTransferAssumption DEF Byte
<1>4. ASSUME NEW k \in 1..up.file_size
      PROVE  (IF k <= Len(disk[up.file]) THEN disk[up.file][k] ELSE 0) \in Byte
  BY <1>1, <1>2, <1>3, LenProperties, ElementOfSeq
<1> QED
  BY <1>1, <1>4 DEF Buffer

LEMMA InitTyped == Init => Typed
<1> SUFFICES ASSUME Init PROVE Typed
  OBVIOUS
<1>1. disk \in [DOMAIN Offered -> Versions] /\ changes \in 0..MaxChanges
  BY FileTransferAssumption DEF Init
<1>2. 1 \in 1..(Len(Offered) + 1) /\ <<>> \in Seq(Byte) /\ Len(<<>>) = 0
  BY OfferedType
<1>3. up \in [at : {"name", "open", "data", "done", "aborted"},
             file : 1..(Len(Offered) + 1), file_size : Nat, out : Seq(Byte)]
  BY <1>2 DEF Init
<1>4. /\ pipe \in Seq(Byte) /\ Len(pipe) <= Capacity
      /\ down \in [at : {"length", "name", "size", "data", "hash_count",
                         "done", "aborted", "lost"},
                   name : Seq(Byte), count : Nat, buf : Seq(Byte)]
      /\ Len(down.buf) <= down.count
  BY <1>2, FileTransferAssumption DEF Init
<1> QED
  BY <1>1, <1>3, <1>4 DEF Init, Typed, TypeOK

LEMMA UploaderTyped == Typed /\ Uploader => Typed'
<1> SUFFICES ASSUME Typed, Uploader PROVE Typed'
  OBVIOUS
<1> USE DEF Typed, TypeOK, Upload
<1>1. CASE Write
  <2> HIDE DEF Typed, TypeOK, Upload
  <2>1. PICK n \in 1..Len(up.out) :
           /\ Len(pipe) + n <= Capacity
           /\ pipe' = pipe \o SubSeq(up.out, 1, n)
           /\ up' = [up EXCEPT !.out = SubSeq(@, n + 1, Len(@))]
           /\ UNCHANGED <<disk, changes, down, sent, stored>>
    BY <1>1 DEF Write
  <2> USE DEF Typed, TypeOK, Upload
  <2>2. up.out \in Seq(Byte) /\ Len(up.out) \in Nat
    BY LenProperties
  <2>3. /\ SubSeq(up.out, 1, n) \in Seq(Byte) /\ Len(SubSeq(up.out, 1, n)) = n
        /\ SubSeq(up.out, n + 1, Len(up.out)) \in Seq(Byte)
    BY <2>2, CutInTwo
  <2>4. pipe' \in Seq(Byte) /\ Len(pipe') = Len(pipe) + n
    <3> DEFINE w == SubSeq(up.out, 1, n)
    <3>1. pipe \in Seq(Byte) /\ w \in Seq(Byte) /\ Len(w) = n /\ pipe' = pipe \o w
      BY <2>1, <2>3
    <3> HIDE DEF w
    <3>2. pipe \o w \in Seq(Byte) /\ Len(pipe \o w) = Len(pipe) + Len(w)
      <4> HIDE DEF Typed, TypeOK, Upload
      <4>1. pipe \in Seq(Byte) /\ w \in Seq(Byte)
        BY <3>1
      <4> QED
        BY <4>1, ConcatProperties
    <3> QED
      BY <3>1, <3>2
  <2>5. Len(pipe') <= Capacity
    BY <2>1, <2>4
  <2> QED
    BY <2>1, <2>3, <2>4, <2>5
<1>2. CASE SendName
  <2>1. <<Len(Offered[up.file])>> \o Offered[up.file] \in Seq(Byte)
    BY <1>2, OfferedType, ConcatProperties DEF SendName
  <2> QED
    BY <1>2, <2>1 DEF SendName
<1>3. CASE SendSize
  <2>1. disk[up.file] \in Seq(Byte)
    BY <1>3, OfferedType, FileTransferAssumption DEF SendSize
  <2>2. Len(disk[up.file]) \in Nat
    BY <2>1, LenProperties
  <2>3. FileSizeBytes(Len(disk[up.file])) \in Seq(Byte)
    BY <2>2, SizeIsFourBytes
  <2> QED
    BY <1>3, <2>2, <2>3 DEF SendSize
<1>4. CASE OpenFails
  BY <1>4 DEF OpenFails
<1>5. CASE SendData
  <2>1. up.file \in 1..Len(Offered) /\ up.file + 1 \in 1..(Len(Offered) + 1)
    <3>1. up.file \in 1..(Len(Offered) + 1) /\ up.file <= Len(Offered)
      BY <1>5 DEF SendData
    <3> QED
      BY <3>1, OfferedType
  <2>2. Buffer \in Seq(Byte) /\ Offered[up.file] \in Seq(Byte)
    BY <2>1, BufferType, OfferedType
  <2>3. sent' \in Seq([name : Seq(Byte), bytes : Seq(Byte)])
    BY <1>5, <2>2, AppendProperties DEF SendData, File
  <2> QED
    BY <1>5, <2>1, <2>2, <2>3 DEF SendData
<1>6. CASE UploadEnds
  BY <1>6 DEF UploadEnds
<1> QED
  BY <1>1, <1>2, <1>3, <1>4, <1>5, <1>6 DEF Uploader

LEMMA ReceivedTyped ==
  ASSUME Typed,
         NEW at \in {"length", "name", "size", "data", "hash_count"},
         NEW next \in {"length", "name", "size", "data", "hash_count", "lost"},
         NEW count \in Nat, Received(at, next, count),
         next = "size" => count = SizeBytes,
         stored' \in Seq([name : Seq(Byte), bytes : Seq(Byte)])
  PROVE  Typed'
<1> USE DEF Typed, TypeOK, Received
<1>1. (IF at = "name" THEN down.buf ELSE down.name) \in Seq(Byte)
  OBVIOUS
<1>2. <<>> \in Seq(Byte) /\ Len(<<>>) = 0
  BY EmptySeq
<1>3. /\ down' \in [at : {"length", "name", "size", "data", "hash_count",
                          "done", "aborted", "lost"},
                    name : Seq(Byte), count : Nat, buf : Seq(Byte)]
      /\ down'.buf = <<>> /\ down'.count = count /\ down'.at = next
  BY <1>1, <1>2
<1>4. Len(down'.buf) <= down'.count
  BY <1>2, <1>3
<1> QED
  BY <1>3, <1>4

LEMMA DownloaderTyped == Typed /\ Downloader => Typed'
<1> SUFFICES ASSUME Typed, Downloader PROVE Typed'
  OBVIOUS
<1>1. CASE Read
  <2> USE DEF Typed, TypeOK
  <2>1. PICK n \in 1..Wanted :
           /\ n <= Len(pipe)
           /\ down' = [down EXCEPT !.buf = @ \o SubSeq(pipe, 1, n)]
           /\ pipe' = SubSeq(pipe, n + 1, Len(pipe))
           /\ UNCHANGED <<disk, changes, up, sent, stored>>
    BY <1>1 DEF Read
  <2>2. /\ pipe \in Seq(Byte) /\ Len(pipe) \in Nat
        /\ down.buf \in Seq(Byte) /\ Len(down.buf) \in Nat /\ down.count \in Nat
    BY LenProperties
  <2>3. n \in Nat /\ 1 <= n /\ n <= down.count - Len(down.buf) /\ n \in 0..Len(pipe)
    BY <2>1, <2>2 DEF Wanted
  <2>4. /\ SubSeq(pipe, 1, n) \in Seq(Byte) /\ Len(SubSeq(pipe, 1, n)) = n
        /\ SubSeq(pipe, n + 1, Len(pipe)) \in Seq(Byte)
        /\ Len(SubSeq(pipe, n + 1, Len(pipe))) = Len(pipe) - n
    <3> DEFINE q == pipe
    <3>1. q \in Seq(Byte) /\ n \in 0..Len(q)
      BY <2>2, <2>3
    <3> HIDE DEF q
    <3>2. /\ SubSeq(q, 1, n) \in Seq(Byte) /\ Len(SubSeq(q, 1, n)) = n
          /\ SubSeq(q, n + 1, Len(q)) \in Seq(Byte)
          /\ Len(SubSeq(q, n + 1, Len(q))) = Len(q) - n
      BY <3>1, CutInTwo
    <3> QED
      BY <3>2 DEF q
  <2>5. pipe' \in Seq(Byte) /\ Len(pipe') <= Capacity
    <3>1. pipe' \in Seq(Byte) /\ Len(pipe') = Len(pipe) - n
      BY <2>1, <2>4
    <3>2. Capacity \in Nat /\ Len(pipe) <= Capacity
      BY FileTransferAssumption
    <3> QED
      BY <2>2, <2>3, <3>1, <3>2
  <2>6. /\ down.buf \o SubSeq(pipe, 1, n) \in Seq(Byte)
        /\ Len(down.buf \o SubSeq(pipe, 1, n)) <= down.count
    <3>1. /\ down.buf \o SubSeq(pipe, 1, n) \in Seq(Byte)
          /\ Len(down.buf \o SubSeq(pipe, 1, n)) = Len(down.buf) + Len(SubSeq(pipe, 1, n))
      BY <2>2, <2>4, ConcatProperties
    <3> QED
      BY <2>2, <2>3, <2>4, <3>1
  <2> QED
    BY <2>1, <2>5, <2>6
<1>2. CASE ReceiveLength
  <2>1. (IF down.buf = <<>> THEN 0 ELSE down.buf[1]) \in Nat
    <3>1. CASE down.buf = <<>>
      BY <3>1
    <3>2. CASE down.buf # <<>>
      <4>1. down.buf \in Seq(Byte) /\ 1 \in 1..Len(down.buf)
        BY <3>2, EmptySeq DEF Typed, TypeOK
      <4>2. down.buf[1] \in Byte
        BY <4>1, ElementOfSeq
      <4> QED
        BY <3>2, <4>2, FileTransferAssumption DEF Byte
    <3> QED
      BY <3>1, <3>2
  <2> QED
    BY <1>2, <2>1, ReceivedTyped DEF ReceiveLength, Typed, TypeOK
<1>3. CASE ReceiveName
  BY <1>3, ReceivedTyped DEF ReceiveName, Typed, TypeOK, SizeBytes
<1>4. CASE ReceiveSize
  <2>1. FileSizeOf(down.buf) \in Nat
    BY <1>4, SizeIsNumber DEF ReceiveSize, Received, Typed, TypeOK, SizeBytes
  <2> QED
    BY <1>4, <2>1, ReceivedTyped DEF ReceiveSize, Typed, TypeOK
<1>5. CASE ReceiveData
  <2>1. stored' \in Seq([name : Seq(Byte), bytes : Seq(Byte)])
    BY <1>5, AppendProperties DEF ReceiveData, Typed, TypeOK, File
  <2>2. PICK next \in {"length", "hash_count"} : Received("data", next, 1)
    BY <1>5 DEF ReceiveData
  <2> QED
    BY <2>1, <2>2, ReceivedTyped
<1>6. CASE ReceiveSurplus
  BY <1>6, ReceivedTyped DEF ReceiveSurplus, Typed, TypeOK
<1>7. CASE ReadEnd
  <2>1. <<>> \in Seq(Byte) /\ Len(<<>>) = 0
    BY EmptySeq
  <2>2. PICK at \in {"done", "aborted"} :
           down' = [down EXCEPT !.at = at, !.count = 0, !.buf = <<>>]
    BY <1>7 DEF ReadEnd
  <2>3. UNCHANGED <<disk, changes, up, pipe, sent, stored>>
    BY <1>7 DEF ReadEnd
  <2>4. /\ down' \in [at : {"length", "name", "size", "data", "hash_count",
                            "done", "aborted", "lost"},
                      name : Seq(Byte), count : Nat, buf : Seq(Byte)]
        /\ down'.at = at /\ down'.count = 0 /\ down'.buf = <<>>
    BY <2>1, <2>2 DEF Typed, TypeOK
  <2>5. Len(down'.buf) <= down'.count /\ down'.at # "size"
    BY <2>1, <2>4
  <2> QED
    BY <2>3, <2>4, <2>5 DEF Typed, TypeOK
<1> QED
  BY <1>1, <1>2, <1>3, <1>4, <1>5, <1>6, <1>7 DEF Downloader

LEMMA EnvironmentTyped == Typed /\ (Change \/ Kill \/ Reset \/ UNCHANGED vars) => Typed'
<1> SUFFICES ASSUME Typed, Change \/ Kill \/ Reset \/ UNCHANGED vars PROVE Typed'
  OBVIOUS
<1>1. CASE Change
  <2>1. PICK k \in DOMAIN Offered, bytes \in Versions :
           disk' = [disk EXCEPT ![k] = bytes]
    BY <1>1 DEF Change
  <2>2. disk' \in [DOMAIN Offered -> Versions]
    BY <2>1 DEF Typed, TypeOK
  <2>3. changes' \in 0..MaxChanges
    BY <1>1, FileTransferAssumption DEF Change, Typed, TypeOK
  <2> QED
    BY <1>1, <2>2, <2>3 DEF Change, Typed, TypeOK
<1>2. CASE Kill
  BY <1>2 DEF Kill, Typed, TypeOK
<1>3. CASE Reset
  BY <1>3 DEF Reset, Typed, TypeOK
<1>4. CASE UNCHANGED vars
  BY <1>4 DEF vars, Typed, TypeOK
<1> QED
  BY <1>1, <1>2, <1>3, <1>4

LEMMA NextTyped == Typed /\ [Next]_vars => Typed'
BY UploaderTyped, DownloaderTyped, EnvironmentTyped DEF Next, Terminated

LEMMA AlwaysTyped == Spec => []Typed
BY InitTyped, NextTyped, PTL DEF Spec

\* Every variable keeps its type: nothing is read beyond what a call of read is
\* asked for, whatever is on its way.
THEOREM TypeCorrect == Spec => []TypeOK
<1>1. Typed => TypeOK
  BY DEF Typed
<1> QED
  BY <1>1, AlwaysTyped, PTL
-----------------------------------------------------------------------------
(* What a sequence carries, and where. *)

\* Behind the position at, tokens has the elements of s; those at positions
\* below 1 have already been taken from it.
Carried(tokens, at, s) ==
  \A q \in 1..Len(s) : at + q >= 1 => at + q <= Len(tokens) /\ tokens[at + q] = s[q]

\* It stays there when something is added.
LEMMA CarriedOn ==
  ASSUME NEW S, NEW t \in Seq(S), NEW u \in Seq(S), NEW s \in Seq(S), NEW at \in Int,
         Carried(t, at, s)
  PROVE  Carried(t \o u, at, s)
<1>1. /\ Len(t \o u) = Len(t) + Len(u) /\ Len(t) \in Nat /\ Len(u) \in Nat /\ Len(s) \in Nat
      /\ \A i \in 1..(Len(t) + Len(u)) :
           (t \o u)[i] = IF i <= Len(t) THEN t[i] ELSE u[i - Len(t)]
  BY ConcatProperties, LenProperties
<1>2. SUFFICES ASSUME NEW q \in 1..Len(s), at + q >= 1
               PROVE  at + q <= Len(t \o u) /\ (t \o u)[at + q] = s[q]
  BY DEF Carried
<1>3. at + q <= Len(t) /\ t[at + q] = s[q]
  BY <1>2 DEF Carried
<1>4. at + q \in 1..(Len(t) + Len(u))
  BY <1>1, <1>2, <1>3
<1> QED
  BY <1>1, <1>3, <1>4

\* What is added is there.
LEMMA CarriedNow ==
  ASSUME NEW S, NEW t \in Seq(S), NEW u \in Seq(S)
  PROVE  Carried(t \o u, Len(t), u)
<1>1. /\ Len(t \o u) = Len(t) + Len(u) /\ Len(t) \in Nat /\ Len(u) \in Nat
      /\ \A i \in 1..(Len(t) + Len(u)) :
           (t \o u)[i] = IF i <= Len(t) THEN t[i] ELSE u[i - Len(t)]
  BY ConcatProperties, LenProperties
<1>2. SUFFICES ASSUME NEW q \in 1..Len(u)
               PROVE  Len(t) + q <= Len(t \o u) /\ (t \o u)[Len(t) + q] = u[q]
  BY DEF Carried
<1>3. Len(t) + q \in 1..(Len(t) + Len(u)) /\ ~(Len(t) + q <= Len(t)) /\ (Len(t) + q) - Len(t) = q
  BY <1>1
<1> QED
  BY <1>1, <1>3

\* One thing behind the other is carried in two parts.
LEMMA CarriedParts ==
  ASSUME NEW S, NEW t, NEW r \in Seq(S), NEW s \in Seq(S), NEW at \in Int,
         Carried(t, at, r \o s)
  PROVE  Carried(t, at, r) /\ Carried(t, at + Len(r), s)
<1>1. /\ Len(r \o s) = Len(r) + Len(s) /\ Len(r) \in Nat /\ Len(s) \in Nat
      /\ \A i \in 1..(Len(r) + Len(s)) :
           (r \o s)[i] = IF i <= Len(r) THEN r[i] ELSE s[i - Len(r)]
  BY ConcatProperties, LenProperties
<1>2. ASSUME NEW q \in 1..Len(r), at + q >= 1
      PROVE  at + q <= Len(t) /\ t[at + q] = r[q]
  <2>1. q \in 1..(Len(r) + Len(s)) /\ q <= Len(r)
    BY <1>1
  <2>2. q \in 1..Len(r \o s) /\ (r \o s)[q] = r[q]
    BY <1>1, <2>1
  <2> QED
    BY <1>2, <2>2 DEF Carried
<1>3. ASSUME NEW q \in 1..Len(s), at + Len(r) + q >= 1
      PROVE  at + Len(r) + q <= Len(t) /\ t[at + Len(r) + q] = s[q]
  <2>1. /\ Len(r) + q \in 1..(Len(r) + Len(s)) /\ ~(Len(r) + q <= Len(r))
        /\ (Len(r) + q) - Len(r) = q
    BY <1>1
  <2>2. Len(r) + q \in 1..Len(r \o s) /\ (r \o s)[Len(r) + q] = s[q]
    BY <1>1, <2>1
  <2>3. at + (Len(r) + q) = at + Len(r) + q
    BY <1>1
  <2> QED
    BY <1>3, <2>2, <2>3 DEF Carried
<1> QED
  BY <1>2, <1>3 DEF Carried

\* When the front is taken away, everything moves up.
LEMMA CarriedUp ==
  ASSUME NEW S, NEW b \in Seq(S), NEW t \in Seq(S), NEW s \in Seq(S), NEW at \in Int,
         Carried(b \o t, at, s)
  PROVE  Carried(t, at - Len(b), s)
<1>1. /\ Len(b \o t) = Len(b) + Len(t) /\ Len(b) \in Nat /\ Len(t) \in Nat /\ Len(s) \in Nat
      /\ \A i \in 1..(Len(b) + Len(t)) :
           (b \o t)[i] = IF i <= Len(b) THEN b[i] ELSE t[i - Len(b)]
  BY ConcatProperties, LenProperties
<1>2. SUFFICES ASSUME NEW q \in 1..Len(s), at - Len(b) + q >= 1
               PROVE  at - Len(b) + q <= Len(t) /\ t[at - Len(b) + q] = s[q]
  BY DEF Carried
<1>3. at + q >= 1
  BY <1>1, <1>2
<1>4. at + q <= Len(b \o t) /\ (b \o t)[at + q] = s[q]
  BY <1>3 DEF Carried
<1>5. /\ at + q \in 1..(Len(b) + Len(t)) /\ ~(at + q <= Len(b))
      /\ (at + q) - Len(b) = at - Len(b) + q
  BY <1>1, <1>2, <1>3, <1>4
<1> QED
  BY <1>1, <1>4, <1>5

\* A front as long as what is carried there is the same.
LEMMA CarriedFront ==
  ASSUME NEW S, NEW b \in Seq(S), NEW t \in Seq(S), NEW s \in Seq(S),
         Carried(b \o t, 0, s), Len(b) = Len(s)
  PROVE  b = s
<1>1. /\ Len(b) \in Nat /\ Len(t) \in Nat
      /\ \A i \in 1..(Len(b) + Len(t)) :
           (b \o t)[i] = IF i <= Len(b) THEN b[i] ELSE t[i - Len(b)]
  BY ConcatProperties, LenProperties
<1>2. ASSUME NEW q \in 1..Len(b)
      PROVE  b[q] = s[q]
  <2>1. q \in 1..(Len(b) + Len(t)) /\ q <= Len(b) /\ 0 + q >= 1 /\ 0 + q = q
    BY <1>1
  <2>2. (b \o t)[q] = s[q]
    BY <2>1 DEF Carried
  <2> QED
    BY <1>1, <2>1, <2>2
<1> QED
  BY <1>2, SeqEqual
-----------------------------------------------------------------------------
(* The two ends of the connection. *)

Length(k) == Len(Offered[k])

\* All that has been put on the connection for ReadFully to return, from what it
\* has in its buffer to what WriteFully has still to write.
OnTheWay == (down.buf \o pipe) \o up.out

\* How many bytes the k-th file is sent with.
SizeOf(k) == IF k <= Len(sent) THEN Len(sent[k].bytes) ELSE up.file_size

\* The uploader has sent, of the file behind those in sent: nothing (part 0), its
\* name (1), its size as well (2).  So the name, the size of the k-th were sent:
Named(part, k) == k <= Len(sent) \/ (k = Len(sent) + 1 /\ part >= 1)
Sized(part, k) == k <= Len(sent) \/ (k = Len(sent) + 1 /\ part = 2)

\* The bytes sent of that file.
Begun(part) ==
  IF part = 0 THEN 0
  ELSE IF part = 1 THEN 1 + Length(Len(sent) + 1) ELSE 5 + Length(Len(sent) + 1)

\* o[k] is the position in t behind which the k-th file begins: one file follows
\* the other without a gap, up to the end of t.
Placed(o, part, t) ==
  /\ o \in [1..(Len(sent) + 1) -> Int] /\ part \in 0..2
  /\ part >= 1 => Len(sent) + 1 <= Len(Offered)
  /\ \A k \in 1..Len(sent) :
       o[k + 1] = o[k] + 5 + Length(k) + SizeOf(k) /\ o[k + 1] <= o[Len(sent) + 1]
  /\ Len(t) = o[Len(sent) + 1] + Begun(part)

\* There is a file's name with its length, its size, and its bytes.
Filled(o, part, t) ==
  /\ \A k \in 1..(Len(sent) + 1) : Named(part, k) =>
       Carried(t, o[k], <<Length(k)>>) /\ Carried(t, o[k] + 1, Offered[k])
  /\ \A k \in 1..(Len(sent) + 1) : Sized(part, k) =>
       Carried(t, o[k] + 1 + Length(k), FileSizeBytes(SizeOf(k)))
  /\ \A k \in 1..Len(sent) : Carried(t, o[k] + 5 + Length(k), sent[k].bytes)

\* Where the uploader is.
Sending(part) ==
  /\ up.at \in {"name", "done"} => part = 0
  /\ up.at = "open" => part = 1
  /\ up.at = "data" => part = 2
  /\ part = 2 => up.file_size >= 1

\* Where the downloader is: what it reads next is the next thing on the way.
Reading(o, part) ==
  LET j == Len(stored) + 1
  IN  /\ down.at = "length" => o[j] = 0 /\ down.count = 1 /\ j <= Len(Offered)
      /\ down.at = "name" => o[j] = -1 /\ down.count = Length(j) /\ Named(part, j)
      /\ down.at = "size" =>
           o[j] = -(1 + Length(j)) /\ down.count = 4 /\ Named(part, j) /\ down.name = Offered[j]
      /\ down.at = "data" =>
           o[j] = -(5 + Length(j)) /\ down.count = SizeOf(j) /\ Sized(part, j)
             /\ down.name = Offered[j]
      /\ down.at = "hash_count" => o[j] = 0 /\ down.count = 1 /\ j = Len(Offered) + 1

Underway(o, part) ==
  Placed(o, part, OnTheWay) /\ Filled(o, part, OnTheWay) /\ Sending(part) /\ Reading(o, part)

\* What is stored is what was sent, up to some file.
StoredAsSent ==
  Len(stored) <= Len(sent) /\ \A k \in 1..Len(stored) : stored[k] = sent[k]

\* The two ends are in step.
Matched ==
  /\ StoredAsSent
  /\ down.at # "lost"
  /\ down.at = "aborted" => up.at = "aborted"
  /\ ~DownloadOver => \E o, part : Underway(o, part)

\* The uploader alone: it sends one file of the offer after the other.
InOrder ==
  /\ Len(sent) <= Len(Offered)
  /\ \A k \in 1..Len(sent) : sent[k].name = Offered[k]
  /\ up.at # "aborted" => up.file = Len(sent) + 1
  /\ up.at \in {"name", "open"} =>
       up.file_size = IF sent = <<>> THEN 0 ELSE Len(sent[Len(sent)].bytes)
  /\ up.at = "done" => up.out = <<>> /\ Len(sent) = Len(Offered)

InStep == InOrder /\ (AllFit => Matched)
-----------------------------------------------------------------------------
(* The uploader alone. *)

\* What was sent, when another file is.
LEMMA SentAppended ==
  ASSUME Typed, SendData
  PROVE  /\ Len(sent') = Len(sent) + 1 /\ Len(sent) \in Nat
         /\ \A k \in 1..Len(sent) : sent'[k] = sent[k]
         /\ sent'[Len(sent) + 1].bytes = Buffer
         /\ sent'[Len(sent) + 1].name = Offered[up.file]
         /\ sent' # <<>>
         /\ up.file \in 1..Len(Offered) /\ Buffer \in Seq(Byte) /\ Len(Buffer) = up.file_size
<1> DEFINE R == [name : Seq(Byte), bytes : Seq(Byte)]
<1>1. up.file \in 1..Len(Offered)
  <2>1. up.file \in 1..(Len(Offered) + 1) /\ up.file <= Len(Offered)
    BY DEF Typed, TypeOK, SendData, Upload
  <2> QED
    BY <2>1, OfferedType
<1>2. Buffer \in Seq(Byte) /\ Len(Buffer) = up.file_size /\ Offered[up.file] \in Seq(Byte)
  BY <1>1, BufferType, OfferedType DEF Typed
<1>3. File(Offered[up.file], Buffer) \in R
  BY <1>2 DEF File
<1>4. sent \in Seq(R) /\ Len(sent) \in Nat /\ sent' = Append(sent, File(Offered[up.file], Buffer))
  BY LenProperties DEF Typed, TypeOK, SendData
<1> DEFINE f == File(Offered[up.file], Buffer)
<1>5. f.bytes = Buffer /\ f.name = Offered[up.file]
  BY DEF File
<1> HIDE DEF f, R
<1>6. /\ Len(sent') = Len(sent) + 1 /\ \A k \in 1..Len(sent) : sent'[k] = sent[k]
      /\ sent'[Len(sent) + 1] = f /\ sent' # <<>>
  BY <1>3, <1>4, AppendProperties DEF f
<1> QED
  BY <1>1, <1>2, <1>4, <1>5, <1>6

LEMMA InitInOrder == Init => InOrder
BY OfferedType DEF Init, InOrder

LEMMA NextInOrder == Typed /\ InOrder /\ [Next]_vars => InOrder'
<1> SUFFICES ASSUME Typed, InOrder, [Next]_vars PROVE InOrder'
  OBVIOUS
<1>1. Len(sent) \in Nat /\ (sent = <<>> <=> Len(sent) = 0)
  BY LenProperties, EmptySeq DEF Typed, TypeOK
<1>2. CASE Write
  <2>1. PICK n \in 1..Len(up.out) : up' = [up EXCEPT !.out = SubSeq(@, n + 1, Len(@))]
    BY <1>2 DEF Write
  <2>2. /\ up'.at = up.at /\ up'.file = up.file /\ up'.file_size = up.file_size
        /\ up.at # "done" /\ sent' = sent
    BY <1>2, <2>1 DEF Write, Closed, Typed, TypeOK
  <2> QED
    BY <2>2 DEF InOrder
<1>3. CASE SendName \/ SendSize \/ OpenFails \/ UploadEnds \/ Kill
  <2>1. CASE SendName
    BY <2>1 DEF SendName, Upload, InOrder, Typed, TypeOK
  <2>2. CASE SendSize
    BY <2>2 DEF SendSize, Upload, InOrder, Typed, TypeOK
  <2>3. CASE OpenFails \/ Kill
    BY <2>3 DEF OpenFails, Kill, InOrder, Typed, TypeOK
  <2>4. CASE UploadEnds
    <3>1. Len(sent) = Len(Offered)
      BY <2>4, <1>1, OfferedType DEF UploadEnds, Upload, InOrder, Typed, TypeOK
    <3> QED
      BY <2>4, <3>1 DEF UploadEnds, Upload, InOrder, Typed, TypeOK
  <2> QED
    BY <1>3, <2>1, <2>2, <2>3, <2>4
<1>4. CASE SendData
  <2>1. /\ Len(sent') = Len(sent) + 1 /\ Len(sent) \in Nat
        /\ \A k \in 1..Len(sent) : sent'[k] = sent[k]
        /\ sent'[Len(sent) + 1].bytes = Buffer /\ sent'[Len(sent) + 1].name = Offered[up.file]
        /\ sent' # <<>>
        /\ up.file \in 1..Len(Offered) /\ Len(Buffer) = up.file_size
    BY <1>4, SentAppended
  <2>2. up.at = "data" /\ up'.at = "name" /\ up'.file = up.file + 1 /\ up'.file_size = up.file_size
    BY <1>4 DEF SendData, Upload, Typed, TypeOK
  <2>3. up.file = Len(sent) + 1
    BY <2>2 DEF InOrder
  <2>4. \A k \in 1..(Len(sent) + 1) : sent'[k].name = Offered[k]
    <3>1. ASSUME NEW k \in 1..Len(sent) PROVE sent'[k].name = Offered[k]
      BY <2>1 DEF InOrder
    <3> QED
      BY <2>1, <2>3, <3>1
  <2> QED
    BY <2>1, <2>2, <2>3, <2>4, OfferedType DEF InOrder
<1>5. CASE UNCHANGED <<up, sent>>
  BY <1>5 DEF InOrder
<1> QED
  <2>1. CASE Uploader
    BY <2>1, <1>2, <1>3, <1>4 DEF Uploader
  <2>2. CASE Downloader \/ Change \/ Reset \/ Terminated \/ UNCHANGED vars
    BY <2>2, <1>5 DEF Downloader, Read, ReceiveLength, ReceiveName, ReceiveSize,
      ReceiveData, ReceiveSurplus, Received, ReadEnd, Change, Reset, Terminated, vars
  <2>3. CASE Kill
    BY <2>3, <1>3
  <2> QED
    BY <2>1, <2>2, <2>3 DEF Next

\* A size that did not fit is not forgotten.
LEMMA FittedBefore == Typed /\ InOrder /\ [Next]_vars /\ AllFit' => AllFit
<1> SUFFICES ASSUME Typed, InOrder, [Next]_vars, AllFit' PROVE AllFit
  OBVIOUS
<1>1. /\ Len(sent) \in Nat /\ DOMAIN sent = 1..Len(sent) /\ (sent = <<>> <=> Len(sent) = 0)
      /\ up.file_size \in Nat
  BY LenProperties, EmptySeq DEF Typed, TypeOK
<1>2. CASE SendSize
  <2>1. sent' = sent /\ up.at = "open"
    BY <1>2 DEF SendSize, Upload
  <2>2. \A k \in DOMAIN sent : Fits(Len(sent[k].bytes))
    BY <2>1 DEF AllFit, Fits
  <2>3. Fits(up.file_size)
    <3>1. CASE sent = <<>>
      <4>1. up.file_size = 0
        BY <2>1, <3>1 DEF InOrder
      <4>2. ByteValues \in Nat \ {0}
        BY FileTransferAssumption
      <4>3. ByteValues * ByteValues * ByteValues * ByteValues > 0
        <5>1. \A x, y \in Nat \ {0} : x * y \in Nat \ {0}
          BY SMTT(20)
        <5> QED
          BY <4>2, <5>1
      <4> QED
        BY <4>1, <4>3 DEF Fits
    <3>2. CASE sent # <<>>
      <4>1. Len(sent) \in DOMAIN sent /\ up.file_size = Len(sent[Len(sent)].bytes)
        BY <1>1, <2>1, <3>2 DEF InOrder
      <4> QED
        BY <4>1, <2>2
    <3> QED
      BY <3>1, <3>2
  <2> QED
    BY <2>2, <2>3 DEF AllFit
<1>3. CASE SendData
  <2>1. Len(sent') = Len(sent) + 1 /\ \A k \in 1..Len(sent) : sent'[k] = sent[k]
    BY <1>3, SentAppended
  <2>2. sent' \in Seq([name : Seq(Byte), bytes : Seq(Byte)])
    BY NextTyped DEF Typed, TypeOK
  <2>3. DOMAIN sent' = 1..(Len(sent) + 1)
    BY <2>1, <2>2, LenProperties
  <2>4. up'.file_size = up.file_size
    BY <1>3 DEF SendData, Typed, TypeOK
  <2>5. ASSUME NEW k \in DOMAIN sent PROVE Fits(Len(sent[k].bytes))
    <3>1. k \in DOMAIN sent' /\ sent'[k] = sent[k]
      BY <1>1, <2>1, <2>3
    <3> QED
      BY <3>1 DEF AllFit, Fits
  <2> QED
    BY <2>4, <2>5 DEF AllFit, Fits
<1>4. CASE sent' = sent /\ up'.file_size = up.file_size
  BY <1>4 DEF AllFit, Fits
<1>5. CASE Write \/ SendName \/ OpenFails \/ UploadEnds \/ Kill
  BY <1>4, <1>5 DEF Write, SendName, OpenFails, UploadEnds, Kill, Typed, TypeOK
<1>6. CASE Downloader \/ Change \/ Reset \/ Terminated \/ UNCHANGED vars
  BY <1>4, <1>6 DEF Downloader, Read, ReceiveLength, ReceiveName, ReceiveSize,
    ReceiveData, ReceiveSurplus, Received, ReadEnd, Change, Reset, Terminated, vars
<1> QED
  BY <1>2, <1>3, <1>5, <1>6 DEF Next, Uploader
-----------------------------------------------------------------------------
(* The two ends, step by step. *)

\* Where three sequences are joined does not depend on the order of joining.
LEMMA JoinedInAnyOrder ==
  ASSUME NEW S, NEW s \in Seq(S), NEW t \in Seq(S), NEW u \in Seq(S)
  PROVE  (s \o t) \o u = s \o (t \o u)
OBVIOUS

\* What is where, by its type.
LEMMA WayType ==
  ASSUME Typed
  PROVE  /\ down.buf \in Seq(Byte) /\ pipe \in Seq(Byte) /\ up.out \in Seq(Byte)
         /\ OnTheWay \in Seq(Byte) /\ Len(OnTheWay) \in Nat
         /\ pipe \o up.out \in Seq(Byte) /\ Len(down.buf) \in Nat /\ down.count \in Nat
         /\ OnTheWay = down.buf \o (pipe \o up.out)
         /\ Len(OnTheWay) >= Len(down.buf)
         /\ Len(sent) \in Nat /\ Len(stored) \in Nat /\ up.file_size \in Nat
<1>1. /\ down.buf \in Seq(Byte) /\ pipe \in Seq(Byte) /\ up.out \in Seq(Byte)
      /\ down.count \in Nat /\ up.file_size \in Nat
  BY DEF Typed, TypeOK
<1>2. down.buf \o pipe \in Seq(Byte) /\ pipe \o up.out \in Seq(Byte)
  BY <1>1, ConcatProperties
<1>3. OnTheWay \in Seq(Byte) /\ OnTheWay = down.buf \o (pipe \o up.out)
  <2>1. OnTheWay \in Seq(Byte)
    BY <1>1, <1>2, ConcatProperties DEF OnTheWay
  <2>2. OnTheWay = down.buf \o (pipe \o up.out)
    <3> DEFINE S == Byte
               s == down.buf
               t == pipe
               u == up.out
    <3>1. s \in Seq(S) /\ t \in Seq(S) /\ u \in Seq(S)
      BY <1>1
    <3> HIDE DEF S, s, t, u
    <3>2. (s \o t) \o u = s \o (t \o u)
      BY <3>1, JoinedInAnyOrder
    <3> QED
      BY <3>2 DEF OnTheWay, s, t, u
  <2> QED
    BY <2>1, <2>2
<1>4. Len(OnTheWay) = Len(down.buf) + Len(pipe \o up.out)
  BY <1>1, <1>2, <1>3, ConcatProperties
<1>5. Len(down.buf) \in Nat /\ Len(pipe \o up.out) \in Nat /\ Len(OnTheWay) \in Nat
  BY <1>1, <1>2, <1>3, LenProperties
<1>6. Len(sent) \in Nat /\ Len(stored) \in Nat
  BY LenProperties DEF Typed, TypeOK
<1>7. Len(OnTheWay) >= Len(down.buf)
  <2> DEFINE x == Len(OnTheWay)
             y == Len(down.buf)
             z == Len(pipe \o up.out)
  <2>1. x = y + z /\ y \in Nat /\ z \in Nat
    BY <1>4, <1>5
  <2> HIDE DEF x, y, z
  <2>2. x >= y
    BY <2>1
  <2> QED
    BY <2>2 DEF x, y
<1> QED
  BY <1>1, <1>2, <1>3, <1>5, <1>6, <1>7, Zenon

\* The files sent, by their type.
LEMMA SentType ==
  ASSUME Typed, NEW k \in 1..Len(sent)
  PROVE  sent[k].bytes \in Seq(Byte) /\ SizeOf(k) = Len(sent[k].bytes) /\ SizeOf(k) \in Nat
<1>1. sent[k] \in [name : Seq(Byte), bytes : Seq(Byte)]
  BY ElementOfSeq DEF Typed, TypeOK
<1>2. sent[k].bytes \in Seq(Byte)
  BY <1>1
<1> QED
  BY <1>2, LenProperties, WayType DEF SizeOf

\* Both ends are in step at the start.
LEMMA InitMatched == Init => Matched
<1> SUFFICES ASSUME Init PROVE Matched
  OBVIOUS
<1>1. /\ OnTheWay = <<>> /\ Len(sent) = 0 /\ Len(stored) = 0
      /\ sent = <<>> /\ stored = <<>>
  BY ConcatEmptySeq, EmptySeq DEF Init, OnTheWay
<1> DEFINE o == [k \in 1..(Len(sent) + 1) |-> 0]
<1>2. Placed(o, 0, OnTheWay)
  BY <1>1 DEF Placed, Begun
<1>3. Filled(o, 0, OnTheWay)
  BY <1>1 DEF Filled, Named, Sized
<1>4. Sending(0)
  BY DEF Init, Sending
<1>5. Reading(o, 0)
  BY <1>1, OfferedType DEF Init, Reading
<1>6. \E p, part : Underway(p, part)
  BY <1>2, <1>3, <1>4, <1>5 DEF Underway
<1>7. StoredAsSent
  BY <1>1 DEF StoredAsSent
<1> QED
  BY <1>6, <1>7 DEF Matched, Init

\* Steps that move bytes on the way, or none.
LEMMA KeepsMatched ==
  ASSUME Typed, Matched, OnTheWay' = OnTheWay, sent' = sent, stored' = stored,
         up'.file_size = up.file_size,
         \/ up'.at = up.at \/ up'.at = "aborted"
         \/ up.at = "name" /\ up'.at = "done",
         down'.at = down.at, down'.count = down.count, down'.name = down.name
  PROVE  Matched'
<1>1. StoredAsSent'
  BY DEF Matched, StoredAsSent
<1>2. down'.at # "lost" /\ (down'.at = "aborted" => up'.at = "aborted")
  BY DEF Matched
<1>3. ASSUME ~DownloadOver'
      PROVE  (\E o, part : Underway(o, part))'
  <2>1. ~DownloadOver
    BY <1>3 DEF DownloadOver
  <2>2. PICK o, part : Underway(o, part)
    BY <2>1 DEF Matched
  <2>3. Placed(o, part, OnTheWay)'
    BY <2>2 DEF Underway, Placed, SizeOf, Begun
  <2>4. Filled(o, part, OnTheWay)'
    BY <2>2 DEF Underway, Filled, SizeOf, Named, Sized
  <2>5. Sending(part)'
    BY <2>2 DEF Underway, Sending
  <2>6. Reading(o, part)'
    BY <2>2 DEF Underway, Reading, SizeOf, Named, Sized
  <2>7. Underway(o, part)'
    BY <2>3, <2>4, <2>5, <2>6 DEF Underway
  <2> QED
    BY <2>7
<1> QED
  BY <1>1, <1>2, <1>3 DEF Matched

LEMMA WriteMatched ==
  ASSUME Typed, Matched, Write
  PROVE  Matched'
<1>1. PICK n \in 1..Len(up.out) :
         /\ pipe' = pipe \o SubSeq(up.out, 1, n)
         /\ up' = [up EXCEPT !.out = SubSeq(@, n + 1, Len(@))]
         /\ UNCHANGED <<disk, changes, down, sent, stored>>
  BY DEF Write
<1> DEFINE a == SubSeq(up.out, 1, n)
           b == SubSeq(up.out, n + 1, Len(up.out))
<1>2. up.out \in Seq(Byte) /\ n \in 0..Len(up.out) /\ pipe \in Seq(Byte) /\ down.buf \in Seq(Byte)
  BY <1>1, WayType, LenProperties
<1>3. a \in Seq(Byte) /\ b \in Seq(Byte) /\ a \o b = up.out
  BY <1>2, CutInTwo
<1>4. /\ up'.out = b /\ up'.at = up.at /\ up'.file_size = up.file_size
      /\ pipe' = pipe \o a /\ down' = down
  BY <1>1 DEF Typed, TypeOK
<1> HIDE DEF a, b
<1>5. OnTheWay' = (down.buf \o (pipe \o a)) \o b
  BY <1>4 DEF OnTheWay
<1>6. (down.buf \o (pipe \o a)) \o b = (down.buf \o pipe) \o (a \o b)
  <2> DEFINE S == Byte
             s == down.buf
             t == pipe
  <2>1. s \in Seq(S) /\ t \in Seq(S) /\ a \in Seq(S) /\ b \in Seq(S)
    BY <1>2, <1>3
  <2> HIDE DEF S, s, t
  <2>2. (s \o t) \o a = s \o (t \o a)
    BY <2>1
  <2>3. s \o t \in Seq(S)
    BY <2>1
  <2> DEFINE st == s \o t
  <2>4. st \in Seq(S) /\ a \in Seq(S) /\ b \in Seq(S)
    BY <2>1, <2>3
  <2> HIDE DEF st
  <2>5. (st \o a) \o b = st \o (a \o b)
    BY <2>4
  <2> QED
    BY <2>2, <2>5 DEF s, t, st
<1>7. OnTheWay' = OnTheWay
  BY <1>3, <1>5, <1>6 DEF OnTheWay
<1> QED
  BY <1>1, <1>4, <1>7, KeepsMatched

LEMMA ReadMatched ==
  ASSUME Typed, Matched, Read
  PROVE  Matched'
<1>1. PICK n \in 1..Wanted :
         /\ n <= Len(pipe)
         /\ down' = [down EXCEPT !.buf = @ \o SubSeq(pipe, 1, n)]
         /\ pipe' = SubSeq(pipe, n + 1, Len(pipe))
         /\ UNCHANGED <<disk, changes, up, sent, stored>>
  BY DEF Read
<1> DEFINE a == SubSeq(pipe, 1, n)
           b == SubSeq(pipe, n + 1, Len(pipe))
<1>2. up.out \in Seq(Byte) /\ pipe \in Seq(Byte) /\ down.buf \in Seq(Byte) /\ n \in 0..Len(pipe)
  <2>1. Len(pipe) \in Nat /\ n \in Nat
    BY <1>1, WayType, LenProperties DEF Wanted
  <2> QED
    BY <1>1, <2>1, WayType
<1>3. a \in Seq(Byte) /\ b \in Seq(Byte) /\ a \o b = pipe
  BY <1>2, CutInTwo
<1>4. /\ down'.buf = down.buf \o a /\ down'.at = down.at /\ down'.count = down.count
      /\ down'.name = down.name /\ pipe' = b /\ up' = up
  BY <1>1 DEF Typed, TypeOK
<1> HIDE DEF a, b
<1>5. OnTheWay' = ((down.buf \o a) \o b) \o up.out
  BY <1>4 DEF OnTheWay
<1>6. (down.buf \o a) \o b = down.buf \o (a \o b)
  <2> DEFINE S == Byte
             s == down.buf
  <2>1. s \in Seq(S) /\ a \in Seq(S) /\ b \in Seq(S)
    BY <1>2, <1>3
  <2> HIDE DEF S, s
  <2>2. (s \o a) \o b = s \o (a \o b)
    BY <2>1, JoinedInAnyOrder
  <2> QED
    BY <2>2 DEF s
<1>7. OnTheWay' = OnTheWay
  BY <1>3, <1>5, <1>6 DEF OnTheWay
<1> QED
  BY <1>1, <1>4, <1>7, KeepsMatched

\* Steps that leave the bytes where they are.
LEMMA OtherMatched ==
  ASSUME Typed, InOrder, Matched,
         OpenFails \/ UploadEnds \/ Kill \/ Change \/ Reset \/ UNCHANGED vars
  PROVE  Matched'
<1>1. CASE OpenFails \/ UploadEnds \/ Kill \/ Change \/ UNCHANGED vars
  <2>1. /\ down' = down /\ pipe' = pipe /\ sent' = sent /\ stored' = stored
        /\ up'.out = up.out /\ up'.file_size = up.file_size
        /\ \/ up'.at = up.at \/ up'.at = "aborted"
           \/ up.at = "name" /\ up'.at = "done"
    BY <1>1 DEF OpenFails, UploadEnds, Upload, Kill, Change, vars, Typed, TypeOK
  <2>2. OnTheWay' = OnTheWay
    BY <2>1 DEF OnTheWay
  <2> QED
    BY <2>1, <2>2, KeepsMatched
<1>2. CASE Reset
  <2>1. /\ down'.at = "aborted" /\ up.at = "aborted" /\ up' = up
        /\ sent' = sent /\ stored' = stored
    BY <1>2 DEF Reset, Typed, TypeOK
  <2> QED
    BY <2>1 DEF Matched, StoredAsSent, DownloadOver
<1> QED
  BY <1>1, <1>2
-----------------------------------------------------------------------------
(* What the uploader puts on the way. *)

\* The parts of a file, by their type.
LEMMA PartsType ==
  ASSUME Typed, InOrder, NEW o, NEW part, NEW t, Placed(o, part, t),
         NEW k \in 1..(Len(sent) + 1)
  PROVE  /\ o[k] \in Int
         /\ SizeOf(k) \in Nat
         /\ FileSizeBytes(SizeOf(k)) \in Seq(Byte) /\ Len(FileSizeBytes(SizeOf(k))) = 4
         /\ k <= Len(sent) => sent[k].bytes \in Seq(Byte) /\ Len(sent[k].bytes) = SizeOf(k)
         /\ Named(part, k) =>
              /\ k \in 1..Len(Offered)
              /\ Offered[k] \in Seq(Byte) /\ Length(k) \in Nat /\ Length(k) >= 1
              /\ Len(Offered[k]) = Length(k)
              /\ <<Length(k)>> \in Seq(Byte) /\ Len(<<Length(k)>>) = 1
<1>1. Len(sent) \in Nat /\ up.file_size \in Nat
  BY WayType
<1>2. o[k] \in Int
  BY DEF Placed
<1>3. k <= Len(sent) => sent[k].bytes \in Seq(Byte) /\ Len(sent[k].bytes) = SizeOf(k)
  BY <1>1, SentType
<1>4. SizeOf(k) \in Nat
  <2>1. CASE k <= Len(sent)
    BY <2>1, <1>1, SentType
  <2>2. CASE ~(k <= Len(sent))
    BY <2>2, <1>1 DEF SizeOf
  <2> QED
    BY <2>1, <2>2
<1>5. FileSizeBytes(SizeOf(k)) \in Seq(Byte) /\ Len(FileSizeBytes(SizeOf(k))) = 4
  BY <1>4, SizeIsFourBytes
<1>6. ASSUME Named(part, k)
      PROVE  /\ k \in 1..Len(Offered)
             /\ Offered[k] \in Seq(Byte) /\ Length(k) \in Nat /\ Length(k) >= 1
             /\ Len(Offered[k]) = Length(k)
             /\ <<Length(k)>> \in Seq(Byte) /\ Len(<<Length(k)>>) = 1
  <2>1. k \in 1..Len(Offered)
    BY <1>6, <1>1, OfferedType DEF Named, Placed, InOrder
  <2> QED
    BY <2>1, OfferedType DEF Length
<1> QED
  BY <1>2, <1>3, <1>4, <1>5, <1>6

\* What is behind the last file changes nothing about those before it.
LEMMA FilledOn ==
  ASSUME Typed, InOrder, NEW o, NEW part, NEW t \in Seq(Byte), NEW u \in Seq(Byte),
         Placed(o, part, t), Filled(o, part, t)
  PROVE  Filled(o, part, t \o u)
<1>1. ASSUME NEW k \in 1..(Len(sent) + 1), Named(part, k)
      PROVE  /\ Carried(t \o u, o[k], <<Length(k)>>)
             /\ Carried(t \o u, o[k] + 1, Offered[k])
  <2>1. /\ o[k] \in Int /\ o[k] + 1 \in Int
        /\ <<Length(k)>> \in Seq(Byte) /\ Offered[k] \in Seq(Byte)
    BY <1>1, PartsType
  <2>2. Carried(t, o[k], <<Length(k)>>) /\ Carried(t, o[k] + 1, Offered[k])
    BY <1>1 DEF Filled
  <2> QED
    BY <2>1, <2>2, CarriedOn
<1>2. ASSUME NEW k \in 1..(Len(sent) + 1), Sized(part, k)
      PROVE  Carried(t \o u, o[k] + 1 + Length(k), FileSizeBytes(SizeOf(k)))
  <2>1. Named(part, k)
    BY <1>2 DEF Named, Sized
  <2>2. o[k] + 1 + Length(k) \in Int /\ FileSizeBytes(SizeOf(k)) \in Seq(Byte)
    BY <2>1, PartsType
  <2>3. Carried(t, o[k] + 1 + Length(k), FileSizeBytes(SizeOf(k)))
    BY <1>2 DEF Filled
  <2> QED
    BY <2>2, <2>3, CarriedOn
<1>3. ASSUME NEW k \in 1..Len(sent)
      PROVE  Carried(t \o u, o[k] + 5 + Length(k), sent[k].bytes)
  <2>1. k \in 1..(Len(sent) + 1) /\ k <= Len(sent) /\ Named(part, k)
    BY WayType DEF Named
  <2>2. o[k] + 5 + Length(k) \in Int /\ sent[k].bytes \in Seq(Byte)
    BY <2>1, PartsType
  <2>3. Carried(t, o[k] + 5 + Length(k), sent[k].bytes)
    BY DEF Filled
  <2> QED
    BY <2>2, <2>3, CarriedOn
<1> QED
  BY <1>1, <1>2, <1>3 DEF Filled

\* out is what the uploader puts on the way.
LEMMA WayLonger ==
  ASSUME Typed, up.out = <<>>, down' = down, pipe' = pipe
  PROVE  OnTheWay' = OnTheWay \o up'.out
<1> DEFINE t == down.buf \o pipe
<1>1. down.buf \in Seq(Byte) /\ pipe \in Seq(Byte)
  BY WayType
<1>2. t \in Seq(Byte)
  BY <1>1, ConcatProperties
<1> HIDE DEF t
<1>3. t \o <<>> = t
  BY <1>2, ConcatEmptySeq
<1> QED
  BY <1>3 DEF OnTheWay, t

LEMMA SendNameMatched ==
  ASSUME Typed, InOrder, Matched, SendName
  PROVE  Matched'
<1> DEFINE m == Len(sent)
           t == OnTheWay
           u == <<Len(Offered[up.file])>> \o Offered[up.file]
<1>1. /\ up.at = "name" /\ up.out = <<>> /\ up.file = m + 1 /\ m + 1 <= Len(Offered)
      /\ up'.at = "open" /\ up'.out = u /\ up'.file_size = up.file_size
      /\ UNCHANGED <<pipe, down, sent, stored>>
  BY DEF SendName, Upload, InOrder, Typed, TypeOK
<1>2. m \in Nat /\ m + 1 \in 1..Len(Offered) /\ t \in Seq(Byte) /\ Len(t) \in Nat
  BY <1>1, WayType
<1>3. /\ <<Length(m + 1)>> \in Seq(Byte) /\ Offered[m + 1] \in Seq(Byte)
      /\ Length(m + 1) \in Nat /\ Len(<<Length(m + 1)>>) = 1
  BY <1>2, OfferedType DEF Length
<1>4. u \in Seq(Byte) /\ Len(u) = 1 + Length(m + 1) /\ u = <<Length(m + 1)>> \o Offered[m + 1]
  BY <1>1, <1>3, ConcatProperties DEF Length
<1>5. OnTheWay' = t \o u
  BY <1>1, WayLonger
<1> HIDE DEF t, u, m
<1>6. Len(t \o u) = Len(t) + Len(u)
  BY <1>2, <1>4, ConcatProperties
<1>7. StoredAsSent' /\ down'.at # "lost" /\ down'.at # "aborted" /\ (DownloadOver' <=> DownloadOver)
  BY <1>1 DEF Matched, StoredAsSent, DownloadOver
<1>8. ASSUME ~DownloadOver
      PROVE  (\E o, part : Underway(o, part))'
  <2>1. PICK o, part : Underway(o, part)
    BY <1>8 DEF Matched
  <2>2. Placed(o, part, t) /\ Filled(o, part, t) /\ Sending(part) /\ Reading(o, part)
    BY <2>1 DEF Underway, t
  <2>3. part = 0 /\ o[m + 1] = Len(t) /\ o[m + 1] \in Int
    BY <1>1, <1>2, <2>2 DEF Placed, Sending, Begun, m
  <2>4. Placed(o, 1, OnTheWay)'
    <3>1. Len(t \o u) = o[m + 1] + (1 + Length(m + 1))
      BY <1>2, <1>3, <1>4, <1>6, <2>3
    <3> QED
      BY <1>1, <1>5, <2>2, <3>1 DEF Placed, Begun, SizeOf, m
  <2>5. Filled(o, 0, t \o u)
    BY <1>2, <1>4, <2>2, <2>3, FilledOn
  <2>6. Carried(t \o u, o[m + 1], <<Length(m + 1)>>) /\ Carried(t \o u, o[m + 1] + 1, Offered[m + 1])
    <3>1. Carried(t \o u, o[m + 1], <<Length(m + 1)>> \o Offered[m + 1])
      BY <1>2, <1>4, <2>3, CarriedNow
    <3> QED
      BY <1>3, <2>3, <3>1, CarriedParts
  <2>7. Filled(o, 1, t \o u)
    BY <1>2, <2>5, <2>6 DEF Filled, Named, Sized, m
  <2>8. Filled(o, 1, OnTheWay)'
    BY <1>1, <1>5, <2>7 DEF Filled, Named, Sized, SizeOf
  <2>9. Sending(1)'
    BY <1>1 DEF Sending
  <2>10. Reading(o, 1)'
    BY <1>1, <2>2, <2>3 DEF Reading, Named, Sized, SizeOf
  <2>11. Underway(o, 1)'
    BY <2>4, <2>8, <2>9, <2>10 DEF Underway
  <2> QED
    BY <2>11
<1> QED
  BY <1>7, <1>8 DEF Matched

LEMMA SendSizeMatched ==
  ASSUME Typed, InOrder, Matched, SendSize
  PROVE  Matched'
<1> DEFINE m == Len(sent)
           t == OnTheWay
           n == Len(disk[up.file])
           u == FileSizeBytes(n)
<1>1. /\ up.at = "open" /\ up.out = <<>> /\ up.file = m + 1
      /\ up'.at = "data" /\ up'.out = u /\ up'.file_size = n
      /\ UNCHANGED <<pipe, down, sent, stored>>
  BY DEF SendSize, Upload, InOrder, Typed, TypeOK
<1>2. m \in Nat /\ m + 1 \in 1..Len(Offered) /\ t \in Seq(Byte) /\ Len(t) \in Nat
  BY <1>1, WayType DEF Typed
<1>3. n \in Nat /\ n >= 1
  <2>1. disk[up.file] \in Seq(Byte)
    BY <1>1, <1>2, OfferedType, FileTransferAssumption DEF Typed, TypeOK
  <2>2. disk[up.file] # <<>>
    BY DEF SendSize, Unopenable
  <2> QED
    BY <2>1, <2>2, EmptySeq
<1>4. u \in Seq(Byte) /\ Len(u) = 4 /\ Length(m + 1) \in Nat
  BY <1>2, <1>3, SizeIsFourBytes, OfferedType DEF Length
<1>5. OnTheWay' = t \o u
  BY <1>1, WayLonger
<1> HIDE DEF t, u, m, n
<1>6. Len(t \o u) = Len(t) + Len(u)
  BY <1>2, <1>4, ConcatProperties
<1>7. StoredAsSent' /\ down'.at # "lost" /\ down'.at # "aborted" /\ (DownloadOver' <=> DownloadOver)
  BY <1>1 DEF Matched, StoredAsSent, DownloadOver
<1>8. \A k \in 1..m : SizeOf(k)' = SizeOf(k)
  BY <1>1 DEF SizeOf, m
<1>9. \A k : k = m + 1 => SizeOf(k)' = n
  BY <1>1, <1>2 DEF SizeOf, m
<1>10. ASSUME ~DownloadOver
       PROVE  (\E o, part : Underway(o, part))'
  <2>1. PICK o, part : Underway(o, part)
    BY <1>10 DEF Matched
  <2>2. Placed(o, part, t) /\ Filled(o, part, t) /\ Sending(part) /\ Reading(o, part)
    BY <2>1 DEF Underway, t
  <2>3. part = 1 /\ o[m + 1] + 1 + Length(m + 1) = Len(t) /\ o[m + 1] \in Int
    <3>1. part = 1
      BY <1>1, <2>2 DEF Sending
    <3>2. Begun(1) = 1 + Length(m + 1)
      BY DEF Begun, m
    <3>3. o \in [1..(m + 1) -> Int] /\ Len(t) = o[m + 1] + Begun(part)
      BY <2>2 DEF Placed, m
    <3>4. m + 1 \in 1..(m + 1)
      BY <1>2
    <3>5. o[m + 1] \in Int
      BY <3>3, <3>4
    <3> QED
      BY <1>2, <1>4, <3>1, <3>2, <3>3, <3>5
  <2>4. Placed(o, 2, OnTheWay)'
    <3>1. Len(t \o u) = o[m + 1] + (5 + Length(m + 1))
      BY <1>2, <1>4, <1>6, <2>3
    <3>2. Begun(2)' = 5 + Length(m + 1)
      BY <1>1 DEF Begun, m
    <3> QED
      BY <1>1, <1>2, <1>5, <1>8, <2>2, <3>1, <3>2 DEF Placed, m
  <2>5. Filled(o, 1, t \o u)
    BY <1>2, <1>4, <2>2, <2>3, FilledOn
  <2>6. Carried(t \o u, o[m + 1] + 1 + Length(m + 1), u)
    BY <1>2, <1>4, <2>3, CarriedNow
  <2>7. Filled(o, 2, OnTheWay)'
    <3>1. ASSUME NEW k \in 1..(m + 1), Named(2, k)'
          PROVE  Carried(t \o u, o[k], <<Length(k)>>) /\ Carried(t \o u, o[k] + 1, Offered[k])
      BY <1>1, <2>5, <3>1 DEF Filled, Named, m
    <3>2. ASSUME NEW k \in 1..(m + 1), Sized(2, k)'
          PROVE  Carried(t \o u, o[k] + 1 + Length(k), FileSizeBytes(SizeOf(k)'))
      <4>1. CASE k <= m
        <5>1. SizeOf(k)' = SizeOf(k)
          BY <1>1, <4>1 DEF SizeOf, m
        <5>2. Carried(t \o u, o[k] + 1 + Length(k), FileSizeBytes(SizeOf(k)))
          BY <2>5, <4>1 DEF Filled, Sized, m
        <5> QED
          BY <5>1, <5>2
      <4>2. CASE k = m + 1
        <5>1. FileSizeBytes(SizeOf(k)') = u
          BY <1>9, <4>2 DEF u
        <5> QED
          BY <2>6, <4>2, <5>1
      <4> QED
        BY <1>2, <4>1, <4>2
    <3>3. ASSUME NEW k \in 1..m
          PROVE  Carried(t \o u, o[k] + 5 + Length(k), sent[k].bytes)
      BY <2>5 DEF Filled, m
    <3> QED
      BY <1>1, <1>5, <3>1, <3>2, <3>3 DEF Filled, m
  <2>8. Sending(2)'
    BY <1>1, <1>3 DEF Sending
  <2>9. Reading(o, 2)'
    <3>1. Sized(1, Len(stored) + 1) => Len(stored) + 1 <= m
      BY <1>2, WayType DEF Sized, m
    <3>2. Sized(1, Len(stored) + 1) => SizeOf(Len(stored) + 1)' = SizeOf(Len(stored) + 1)
      BY <1>1, <3>1 DEF SizeOf, m
    <3> QED
      BY <1>1, <2>2, <2>3, <3>2 DEF Reading, Named, Sized
  <2>10. Underway(o, 2)'
    BY <2>4, <2>7, <2>8, <2>9 DEF Underway
  <2> QED
    BY <2>10
<1> QED
  BY <1>1, <1>7, <1>10 DEF Matched
LEMMA SendDataMatched ==
  ASSUME Typed, InOrder, Matched, SendData
  PROVE  Matched'
<1> DEFINE m == Len(sent)
           t == OnTheWay
           u == Buffer
<1>1. /\ up.at = "data" /\ up.out = <<>> /\ up'.at = "name" /\ up'.out = u
      /\ up'.file_size = up.file_size /\ UNCHANGED <<pipe, down, stored>>
  BY DEF SendData, Upload, Typed, TypeOK
<1>2. /\ Len(sent') = m + 1 /\ \A k \in 1..m : sent'[k] = sent[k]
      /\ sent'[m + 1].bytes = u /\ u \in Seq(Byte) /\ Len(u) = up.file_size
  BY SentAppended
<1>3. m \in Nat /\ m + 1 \in 1..Len(Offered) /\ t \in Seq(Byte) /\ Len(t) \in Nat
      /\ up.file_size \in Nat
  BY <1>1, WayType, SentAppended DEF InOrder
<1>4. Length(m + 1) \in Nat
  BY <1>3, OfferedType DEF Length
<1>5. OnTheWay' = t \o u
  BY <1>1, WayLonger
<1> HIDE DEF t, u, m
<1>6. Len(t \o u) = Len(t) + Len(u)
  BY <1>2, <1>3, ConcatProperties
<1>7. StoredAsSent' /\ down'.at # "lost" /\ down'.at # "aborted" /\ (DownloadOver' <=> DownloadOver)
  <2>1. StoredAsSent
    BY DEF Matched
  <2>2. Len(stored) \in Nat
    BY WayType
  <2>3. Len(stored) <= m + 1 /\ \A k \in 1..Len(stored) : k \in 1..m /\ stored[k] = sent[k]
    BY <1>3, <2>1, <2>2 DEF StoredAsSent, m
  <2>4. StoredAsSent'
    BY <1>1, <1>2, <2>3 DEF StoredAsSent
  <2> QED
    BY <1>1, <2>4 DEF Matched, DownloadOver
<1>8. \A k : k \in 1..(m + 1) => SizeOf(k)' = SizeOf(k)
  <2>1. ASSUME NEW k, k \in 1..(m + 1) PROVE SizeOf(k)' = SizeOf(k)
    <3>1. CASE k \in 1..m
      BY <1>2, <1>3, <3>1 DEF SizeOf, m
    <3>2. CASE k = m + 1
      BY <1>2, <1>3, <3>2 DEF SizeOf, m
    <3> QED
      BY <1>3, <2>1, <3>1, <3>2
  <2> QED
    BY <2>1
<1>9. ASSUME ~DownloadOver
      PROVE  (\E o, part : Underway(o, part))'
  <2>1. PICK o, part : Underway(o, part)
    BY <1>9 DEF Matched
  <2>2. Placed(o, part, t) /\ Filled(o, part, t) /\ Sending(part) /\ Reading(o, part)
    BY <2>1 DEF Underway, t
  <2>3. /\ part = 2 /\ o[m + 1] + 5 + Length(m + 1) = Len(t)
        /\ o \in [1..(m + 1) -> Int] /\ o[m + 1] \in Int
    <3>1. part = 2
      BY <1>1, <2>2 DEF Sending
    <3>2. Begun(2) = 5 + Length(m + 1)
      BY DEF Begun, m
    <3>3. o \in [1..(m + 1) -> Int] /\ Len(t) = o[m + 1] + Begun(part)
      BY <2>2 DEF Placed, m
    <3>4. m + 1 \in 1..(m + 1)
      BY <1>3
    <3>5. o[m + 1] \in Int
      BY <3>3, <3>4
    <3> QED
      BY <1>3, <1>4, <3>1, <3>2, <3>3, <3>5
  <2>4. PICK p : /\ p \in [1..(m + 2) -> Int] /\ p[m + 2] = Len(t \o u)
                 /\ \A k \in 1..(m + 1) : p[k] = o[k]
    <3> DEFINE q == [k \in 1..(m + 2) |-> IF k = m + 2 THEN Len(t \o u) ELSE o[k]]
    <3>1. Len(t \o u) \in Int
      BY <1>2, <1>3, <1>6
    <3>2. /\ q \in [1..(m + 2) -> Int] /\ q[m + 2] = Len(t \o u)
          /\ \A k \in 1..(m + 1) : q[k] = o[k]
      BY <1>3, <2>3, <3>1
    <3> QED
      BY <3>2
  <2>5. \A k \in 1..(m + 1) : p[k + 1] = p[k] + 5 + Length(k) + SizeOf(k) /\ p[k + 1] <= p[m + 2]
    <3>1. ASSUME NEW k \in 1..m
          PROVE  p[k + 1] = p[k] + 5 + Length(k) + SizeOf(k) /\ p[k + 1] <= p[m + 2]
      <4>1. o[k + 1] = o[k] + 5 + Length(k) + SizeOf(k) /\ o[k + 1] <= o[m + 1]
        BY <2>2 DEF Placed, m
      <4>2. k \in 1..(m + 1) /\ k + 1 \in 1..(m + 1) /\ o[k + 1] \in Int
        BY <1>3, <2>3
      <4>3. o[m + 1] <= Len(t \o u)
        BY <1>2, <1>3, <1>4, <1>6, <2>3
      <4>4. Len(t \o u) \in Int
        BY <1>2, <1>3, <1>6
      <4>5. o[k + 1] <= Len(t \o u)
        BY <2>3, <4>1, <4>2, <4>3, <4>4
      <4> QED
        BY <2>4, <4>1, <4>2, <4>5
    <3>2. p[m + 2] = p[m + 1] + 5 + Length(m + 1) + SizeOf(m + 1)
      <4>1. SizeOf(m + 1) = Len(u)
        BY <1>2, <1>3 DEF SizeOf, m
      <4>2. m + 1 \in 1..(m + 1)
        BY <1>3
      <4> QED
        BY <1>2, <1>3, <1>4, <1>6, <2>3, <2>4, <4>1, <4>2
    <3>3. (m + 1) + 1 = m + 2 /\ p[m + 2] \in Int /\ m + 2 \in 1..(m + 2)
      BY <1>3, <2>4
    <3>4. p[(m + 1) + 1] = p[m + 1] + 5 + Length(m + 1) + SizeOf(m + 1) /\ p[(m + 1) + 1] <= p[m + 2]
      BY <3>2, <3>3
    <3>5. \A k \in 1..(m + 1) : k \in 1..m \/ k = m + 1
      BY <1>3
    <3> QED
      BY <3>1, <3>4, <3>5
  <2>6. Placed(p, 0, OnTheWay)'
    <3>1. Len(sent') + 1 = m + 2
      BY <1>2, <1>3
    <3>2. Begun(0)' = 0
      BY DEF Begun
    <3>3. Len(OnTheWay') = p[Len(sent') + 1] + 0
      BY <1>2, <1>3, <1>5, <1>6, <2>4, <3>1
    <3>4. \A k \in 1..Len(sent') :
            p[k + 1] = p[k] + 5 + Length(k) + SizeOf(k)' /\ p[k + 1] <= p[Len(sent') + 1]
      BY <1>2, <1>8, <2>5, <3>1
    <3> QED
      BY <2>4, <3>1, <3>2, <3>3, <3>4 DEF Placed
  <2>7. Filled(o, 2, t \o u)
    BY <1>2, <1>3, <2>2, <2>3, FilledOn
  <2>8. Carried(t \o u, o[m + 1] + 5 + Length(m + 1), u)
    BY <1>2, <1>3, <2>3, CarriedNow
  <2>9. Filled(p, 0, OnTheWay)'
    <3>1. ASSUME NEW k \in 1..(m + 2), Named(0, k)'
          PROVE  Carried(t \o u, p[k], <<Length(k)>>) /\ Carried(t \o u, p[k] + 1, Offered[k])
      <4>1. k \in 1..(m + 1) /\ Named(2, k)
        BY <1>2, <1>3, <3>1 DEF Named, m
      <4> QED
        BY <2>4, <2>7, <4>1 DEF Filled, m
    <3>2. ASSUME NEW k \in 1..(m + 2), Sized(0, k)'
          PROVE  Carried(t \o u, p[k] + 1 + Length(k), FileSizeBytes(SizeOf(k)'))
      <4>1. k \in 1..(m + 1) /\ Sized(2, k)
        BY <1>2, <1>3, <3>2 DEF Sized, m
      <4>2. SizeOf(k)' = SizeOf(k)
        BY <1>8, <4>1
      <4>3. Carried(t \o u, o[k] + 1 + Length(k), FileSizeBytes(SizeOf(k)))
        BY <2>7, <4>1 DEF Filled, m
      <4> QED
        BY <2>4, <4>1, <4>2, <4>3
    <3>3. ASSUME NEW k \in 1..(m + 1)
          PROVE  Carried(t \o u, p[k] + 5 + Length(k), sent'[k].bytes)
      <4>1. CASE k \in 1..m
        <5>1. Carried(t \o u, o[k] + 5 + Length(k), sent[k].bytes)
          BY <2>7, <4>1 DEF Filled, m
        <5> QED
          BY <1>2, <2>4, <4>1, <5>1
      <4>2. CASE k = m + 1
        BY <1>2, <2>4, <2>8, <4>2
      <4> QED
        BY <1>3, <4>1, <4>2
    <3>4. Len(sent') + 1 = m + 2
      BY <1>2, <1>3
    <3> QED
      BY <1>2, <1>5, <3>1, <3>2, <3>3, <3>4 DEF Filled
  <2>10. Sending(0)'
    BY <1>1 DEF Sending
  <2>11. Reading(p, 0)'
    <3> DEFINE j == Len(stored) + 1
    <3>1. j \in 1..(m + 1)
      BY <1>3, WayType DEF Matched, StoredAsSent, m
    <3>2. \A k : k \in 1..(m + 1) => (Named(0, k)' <=> Named(2, k)) /\ (Sized(0, k)' <=> Sized(2, k))
      BY <1>2, <1>3 DEF Named, Sized, m
    <3>3. j' = j
      BY <1>1
    <3> HIDE DEF j
    <3>4. p[j] = o[j] /\ (\A k : k = j => SizeOf(k)' = SizeOf(j) /\ (Named(0, k)' <=> Named(2, j))
                                          /\ (Sized(0, k)' <=> Sized(2, j)))
      BY <1>8, <2>4, <3>1, <3>2
    <3>5. SizeOf(j)' = SizeOf(j) /\ (Named(0, j)' <=> Named(2, j)) /\ (Sized(0, j)' <=> Sized(2, j))
      <4>1. SizeOf(j)' = SizeOf(j)
        BY <1>2, <1>3, <3>1, <3>3 DEF SizeOf, m
      <4>2. Named(0, j)' <=> Named(2, j)
        BY <1>2, <1>3, <3>1, <3>3 DEF Named, m
      <4>3. Sized(0, j)' <=> Sized(2, j)
        BY <1>2, <1>3, <3>1, <3>3 DEF Sized, m
      <4> QED
        BY <4>1, <4>2, <4>3
    <3> QED
      BY <1>1, <2>2, <2>3, <3>3, <3>4, <3>5 DEF Reading, j
  <2>12. Underway(p, 0)'
    BY <2>6, <2>9, <2>10, <2>11 DEF Underway
  <2> QED
    BY <2>12
<1> QED
  BY <1>1, <1>7, <1>9 DEF Matched
-----------------------------------------------------------------------------
(* What the downloader takes from the way. *)

\* When ReadFully returns, all that is still on the way moves up.
LEMMA FilledUp ==
  ASSUME Typed, InOrder, NEW o, NEW p, NEW part, NEW b \in Seq(Byte), NEW t \in Seq(Byte),
         Placed(o, part, b \o t), Filled(o, part, b \o t),
         p \in [1..(Len(sent) + 1) -> Int],
         \A k \in 1..(Len(sent) + 1) : p[k] = o[k] - Len(b)
  PROVE  Placed(p, part, t) /\ Filled(p, part, t)
<1> DEFINE m == Len(sent)
<1>1. m \in Nat /\ Len(b) \in Nat /\ Len(t) \in Nat /\ Len(b \o t) = Len(b) + Len(t)
  BY WayType, ConcatProperties, LenProperties
<1>2. /\ o \in [1..(m + 1) -> Int] /\ part \in 0..2
      /\ Len(b \o t) = o[m + 1] + Begun(part) /\ (part >= 1 => m + 1 <= Len(Offered))
      /\ \A k \in 1..m : o[k + 1] = o[k] + 5 + Length(k) + SizeOf(k) /\ o[k + 1] <= o[m + 1]
  BY DEF Placed
<1>3. Placed(p, part, t)
  <2>1. Begun(part) \in Int
    <3>1. part >= 1 => Length(m + 1) \in Nat
      BY <1>1, <1>2, OfferedType DEF Length
    <3> QED
      BY <1>2, <3>1 DEF Begun
  <2>2. m + 1 \in 1..(m + 1)
    BY <1>1
  <2>3. Len(t) = p[m + 1] + Begun(part)
    <3> DEFINE x == o[m + 1]
               y == p[m + 1]
               g == Begun(part)
               v == Len(b)
               w == Len(t)
    <3>1. x \in Int /\ g \in Int /\ v \in Int /\ w \in Int /\ v + w = x + g /\ y = x - v
      BY <1>1, <1>2, <2>1, <2>2
    <3> HIDE DEF x, y, g, v, w
    <3>2. w = y + g
      BY <3>1
    <3> QED
      BY <3>2 DEF w, y, g
  <2>4. ASSUME NEW k \in 1..m
        PROVE  p[k + 1] = p[k] + 5 + Length(k) + SizeOf(k) /\ p[k + 1] <= p[m + 1]
    <3>1. k \in 1..(m + 1) /\ k + 1 \in 1..(m + 1)
      BY <1>1
    <3>2. Length(k) \in Nat /\ SizeOf(k) \in Nat
      <4>1. Named(part, k)
        BY <1>1 DEF Named
      <4> QED
        BY <3>1, <4>1, PartsType
    <3>3. o[k] \in Int /\ o[k + 1] \in Int /\ o[m + 1] \in Int
      BY <1>2, <2>2, <3>1
    <3>4. p[k] = o[k] - Len(b) /\ p[k + 1] = o[k + 1] - Len(b) /\ p[m + 1] = o[m + 1] - Len(b)
      BY <2>2, <3>1
    <3>5. o[k + 1] = o[k] + 5 + Length(k) + SizeOf(k) /\ o[k + 1] <= o[m + 1]
      BY <1>2
    <3> DEFINE x == o[k]
               y == o[k + 1]
               z == o[m + 1]
               l == Length(k)
               s == SizeOf(k)
               w == Len(b)
    <3>6. /\ x \in Int /\ y \in Int /\ z \in Int /\ l \in Int /\ s \in Int /\ w \in Int
          /\ y = x + 5 + l + s /\ y <= z
      BY <1>1, <3>2, <3>3, <3>5
    <3> HIDE DEF x, y, z, l, s, w
    <3>7. y - w = (x - w) + 5 + l + s /\ y - w <= z - w
      BY <3>6
    <3> QED
      BY <3>4, <3>7, Zenon DEF x, y, z, l, s, w
  <2> QED
    BY <1>2, <2>3, <2>4 DEF Placed
<1>4. ASSUME NEW k \in 1..(m + 1), Named(part, k)
      PROVE  Carried(t, p[k], <<Length(k)>>) /\ Carried(t, p[k] + 1, Offered[k])
  <2>1. /\ o[k] \in Int /\ o[k] + 1 \in Int
        /\ <<Length(k)>> \in Seq(Byte) /\ Offered[k] \in Seq(Byte)
    BY <1>4, PartsType
  <2>2. Carried(b \o t, o[k], <<Length(k)>>) /\ Carried(b \o t, o[k] + 1, Offered[k])
    BY <1>4 DEF Filled
  <2>3. Carried(t, o[k] - Len(b), <<Length(k)>>) /\ Carried(t, (o[k] + 1) - Len(b), Offered[k])
    BY <2>1, <2>2, CarriedUp
  <2>4. p[k] = o[k] - Len(b) /\ p[k] + 1 = (o[k] + 1) - Len(b)
    BY <1>1, <2>1
  <2> QED
    BY <2>3, <2>4
<1>5. ASSUME NEW k \in 1..(m + 1), Sized(part, k)
      PROVE  Carried(t, p[k] + 1 + Length(k), FileSizeBytes(SizeOf(k)))
  <2>1. Named(part, k)
    BY <1>5 DEF Named, Sized
  <2>2. /\ o[k] \in Int /\ Length(k) \in Nat /\ o[k] + 1 + Length(k) \in Int
        /\ FileSizeBytes(SizeOf(k)) \in Seq(Byte)
    BY <2>1, PartsType
  <2>3. Carried(b \o t, o[k] + 1 + Length(k), FileSizeBytes(SizeOf(k)))
    BY <1>5 DEF Filled
  <2>4. Carried(t, (o[k] + 1 + Length(k)) - Len(b), FileSizeBytes(SizeOf(k)))
    BY <2>2, <2>3, CarriedUp
  <2>5. p[k] + 1 + Length(k) = (o[k] + 1 + Length(k)) - Len(b)
    <3>1. p[k] = o[k] - Len(b)
      OBVIOUS
    <3> DEFINE x == o[k]
               l == Length(k)
               v == Len(b)
    <3>2. x \in Int /\ l \in Int /\ v \in Int
      BY <1>1, <2>2
    <3> HIDE DEF x, l, v
    <3>3. (x - v) + 1 + l = (x + 1 + l) - v
      BY <3>2
    <3> QED
      BY <3>1, <3>3 DEF x, l, v
  <2> QED
    BY <2>4, <2>5
<1>6. ASSUME NEW k \in 1..m
      PROVE  Carried(t, p[k] + 5 + Length(k), sent[k].bytes)
  <2>1. k \in 1..(m + 1) /\ k <= m /\ Named(part, k)
    BY <1>1 DEF Named
  <2>2. /\ o[k] \in Int /\ Length(k) \in Nat /\ o[k] + 5 + Length(k) \in Int
        /\ sent[k].bytes \in Seq(Byte)
    BY <2>1, PartsType
  <2>3. Carried(b \o t, o[k] + 5 + Length(k), sent[k].bytes)
    BY DEF Filled
  <2>4. Carried(t, (o[k] + 5 + Length(k)) - Len(b), sent[k].bytes)
    BY <2>2, <2>3, CarriedUp
  <2>5. p[k] + 5 + Length(k) = (o[k] + 5 + Length(k)) - Len(b)
    <3>1. p[k] = o[k] - Len(b)
      BY <2>1
    <3> DEFINE x == o[k]
               l == Length(k)
               v == Len(b)
    <3>2. x \in Int /\ l \in Int /\ v \in Int
      BY <1>1, <2>2
    <3> HIDE DEF x, l, v
    <3>3. (x - v) + 5 + l = (x + 5 + l) - v
      BY <3>2
    <3> QED
      BY <3>1, <3>3 DEF x, l, v
  <2> QED
    BY <2>4, <2>5
<1> QED
  BY <1>3, <1>4, <1>5, <1>6 DEF Filled

LEMMA TakenUp ==
  ASSUME Typed, InOrder, NEW o, NEW part, Underway(o, part),
         down'.buf = <<>>, UNCHANGED <<up, pipe, sent>>
  PROVE  \E p : /\ p \in [1..(Len(sent) + 1) -> Int]
                /\ \A k \in 1..(Len(sent) + 1) : p[k] = o[k] - Len(down.buf)
                /\ Placed(p, part, OnTheWay)' /\ Filled(p, part, OnTheWay)' /\ Sending(part)'
<1> DEFINE b == down.buf
           t == pipe \o up.out
           m == Len(sent)
<1>1. b \in Seq(Byte) /\ t \in Seq(Byte) /\ OnTheWay = b \o t /\ m \in Nat /\ Len(b) \in Nat
  BY WayType
<1>2. OnTheWay' = t
  <2>1. <<>> \o pipe = pipe
    BY WayType, ConcatEmptySeq
  <2> QED
    BY <2>1 DEF OnTheWay
<1>3. Placed(o, part, b \o t) /\ Filled(o, part, b \o t) /\ Sending(part)
  BY <1>1 DEF Underway
<1>4. o \in [1..(m + 1) -> Int]
  BY <1>3 DEF Placed
<1> HIDE DEF b, t
<1>5. PICK p : p \in [1..(m + 1) -> Int] /\ \A k \in 1..(m + 1) : p[k] = o[k] - Len(b)
  <2> DEFINE q == [k \in 1..(m + 1) |-> o[k] - Len(b)]
  <2>1. q \in [1..(m + 1) -> Int] /\ \A k \in 1..(m + 1) : q[k] = o[k] - Len(b)
    BY <1>1, <1>4
  <2> QED
    BY <2>1
<1>6. Placed(p, part, t) /\ Filled(p, part, t)
  BY <1>1, <1>3, <1>5, FilledUp
<1>7. Placed(p, part, OnTheWay)'
  BY <1>2, <1>6 DEF Placed, Begun, SizeOf
<1>8. Filled(p, part, OnTheWay)'
  BY <1>2, <1>6 DEF Filled, Named, Sized, SizeOf
<1>9. Sending(part)'
  BY <1>3 DEF Sending
<1> QED
  BY <1>5, <1>7, <1>8, <1>9 DEF b

\* What ReadFully returns is what comes first.
LEMMA ReadIsFirst ==
  ASSUME Typed, NEW s \in Seq(Byte), Carried(OnTheWay, 0, s), Len(down.buf) = Len(s)
  PROVE  down.buf = s
<1> DEFINE b == down.buf
           t == pipe \o up.out
<1>1. b \in Seq(Byte) /\ t \in Seq(Byte) /\ OnTheWay = b \o t
  BY WayType
<1> HIDE DEF b, t
<1>2. Len(b) = Len(s)
  BY DEF b
<1>3. b = s
  BY <1>1, <1>2, CarriedFront
<1> QED
  BY <1>3 DEF b

\* What is on the way, in numbers.
LEMMA WayLength ==
  ASSUME Typed, InOrder, NEW o, NEW part, Underway(o, part)
  PROVE  /\ Len(sent) \in Nat /\ o[Len(sent) + 1] \in Int /\ part \in 0..2
         /\ Len(OnTheWay) = o[Len(sent) + 1] + Begun(part)
         /\ Len(down.buf) \in Nat /\ Len(down.buf) <= o[Len(sent) + 1] + Begun(part)
         /\ part >= 1 => Len(sent) + 1 \in 1..Len(Offered) /\ Length(Len(sent) + 1) \in Nat
         /\ Begun(part) \in Nat
<1>1. Len(sent) \in Nat /\ Len(OnTheWay) >= Len(down.buf) /\ Len(down.buf) \in Nat
  BY WayType
<1>2. /\ o \in [1..(Len(sent) + 1) -> Int] /\ part \in 0..2
      /\ Len(OnTheWay) = o[Len(sent) + 1] + Begun(part)
      /\ part >= 1 => Len(sent) + 1 <= Len(Offered)
  BY DEF Underway, Placed
<1>3. Len(sent) + 1 \in 1..(Len(sent) + 1)
  BY <1>1
<1>4. o[Len(sent) + 1] \in Int
  BY <1>2, <1>3
<1>5. part >= 1 => Len(sent) + 1 \in 1..Len(Offered) /\ Length(Len(sent) + 1) \in Nat
  BY <1>1, <1>2, OfferedType DEF Length
<1>6. Begun(part) \in Nat
  BY <1>2, <1>5 DEF Begun
<1> QED
  BY <1>1, <1>2, <1>4, <1>5, <1>6

\* What is read next is of a file that was sent, at least up to there.
LEMMA ReadWasSent ==
  ASSUME Typed, InOrder, Matched, NEW o, NEW part, Underway(o, part),
         ~DownloadOver, Len(down.buf) = down.count
  PROVE  LET j == Len(stored) + 1
         IN  /\ j \in 1..(Len(sent) + 1)
             /\ down.at \in {"length", "name"} => Named(part, j)
             /\ down.at = "size" => Sized(part, j)
             /\ down.at = "data" => j \in 1..Len(sent)
             /\ down.at # "hash_count"
<1> DEFINE j == Len(stored) + 1
           m == Len(sent)
<1>1. Len(stored) \in Nat /\ Len(stored) <= m /\ m \in Nat
  BY WayType DEF Matched, StoredAsSent
<1>2. j \in 1..(m + 1) /\ (j <= m \/ j = m + 1)
  BY <1>1
<1>3. Sending(part) /\ Reading(o, part)
  BY DEF Underway
<1>4. /\ o[m + 1] \in Int /\ part \in 0..2
      /\ Len(down.buf) \in Nat /\ Len(down.buf) <= o[m + 1] + Begun(part)
      /\ part >= 1 => m + 1 \in 1..Len(Offered) /\ Length(m + 1) \in Nat
  BY WayLength
<1> HIDE DEF j, m
<1>5. CASE down.at = "length"
  <2>1. o[j] = 0 /\ down.count = 1
    BY <1>3, <1>5 DEF Reading, j
  <2>2. j = m + 1 => part # 0
    BY <1>4, <2>1 DEF Begun
  <2> QED
    BY <1>2, <1>4, <1>5, <2>2 DEF Named, j, m
<1>6. CASE down.at = "name"
  BY <1>2, <1>3, <1>6 DEF Reading, j, m
<1>7. CASE down.at = "size"
  <2>1. o[j] = -(1 + Length(j)) /\ down.count = 4 /\ Named(part, j)
    BY <1>3, <1>7 DEF Reading, j
  <2>2. CASE j = m + 1
    <3>1. part >= 1 /\ Length(m + 1) \in Nat
      BY <1>1, <1>4, <2>1, <2>2 DEF Named, m
    <3>2. Begun(1) = 1 + Length(m + 1)
      BY DEF Begun, m
    <3>3. part # 1
      BY <1>4, <2>1, <2>2, <3>1, <3>2
    <3>4. part = 2
      BY <1>4, <3>1, <3>3
    <3> QED
      BY <1>2, <1>7, <2>2, <3>4 DEF Sized, j, m
  <2> QED
    BY <1>2, <1>7, <2>2 DEF Sized, j, m
<1>8. CASE down.at = "data"
  <2>1. o[j] = -(5 + Length(j)) /\ down.count = SizeOf(j) /\ Sized(part, j)
    BY <1>3, <1>8 DEF Reading, j
  <2>2. j # m + 1
    <3>1. SUFFICES ASSUME j = m + 1 PROVE FALSE
      OBVIOUS
    <3>2. part = 2 /\ Length(m + 1) \in Nat
      BY <1>1, <1>4, <2>1, <3>1 DEF Sized, m
    <3>3. SizeOf(m + 1) = up.file_size /\ up.file_size >= 1 /\ up.file_size \in Nat
      BY <1>1, <1>3, <3>2, WayType DEF SizeOf, Sending, m
    <3>4. Begun(2) = 5 + Length(m + 1)
      BY DEF Begun, m
    <3> QED
      BY <1>4, <2>1, <3>1, <3>2, <3>3, <3>4
  <2> QED
    BY <1>1, <1>2, <1>8, <2>2 DEF j, m
<1>9. CASE down.at = "hash_count"
  <2>1. o[j] = 0 /\ down.count = 1 /\ j = Len(Offered) + 1
    BY <1>3, <1>9 DEF Reading, j
  <2>2. m <= Len(Offered) /\ Len(Offered) \in Nat
    BY OfferedType DEF InOrder, m
  <2>3. j = m + 1 /\ m = Len(Offered)
    BY <1>1, <1>2, <2>1, <2>2
  <2>4. part = 0
    BY <1>4, <2>2, <2>3
  <2>5. Begun(0) = 0
    BY DEF Begun
  <2> QED
    BY <1>4, <2>1, <2>3, <2>4, <2>5
<1> QED
  BY <1>5, <1>6, <1>7, <1>8, <1>9 DEF DownloadOver, Typed, TypeOK, j, m
\* The downloader goes on, with what it stores, if that is what was sent.
LEMMA GoesOnMatched ==
  ASSUME Typed, InOrder, Matched, NEW o, NEW part, Underway(o, part),
         down'.buf = <<>>, UNCHANGED <<up, pipe, sent>>, StoredAsSent',
         down'.at \notin {"lost", "aborted", "done"},
         \A p : /\ p \in [1..(Len(sent) + 1) -> Int]
                /\ \A k \in 1..(Len(sent) + 1) : p[k] = o[k] - Len(down.buf)
                => Reading(p, part)'
  PROVE  Matched'
<1>1. PICK p : /\ p \in [1..(Len(sent) + 1) -> Int]
               /\ \A k \in 1..(Len(sent) + 1) : p[k] = o[k] - Len(down.buf)
               /\ Placed(p, part, OnTheWay)' /\ Filled(p, part, OnTheWay)' /\ Sending(part)'
  BY TakenUp
<1>2. Reading(p, part)'
  BY <1>1
<1>3. Underway(p, part)'
  BY <1>1, <1>2 DEF Underway
<1>4. (\E q, r : Underway(q, r))'
  BY <1>3
<1> QED
  BY <1>4 DEF Matched

LEMMA ReceiveLengthMatched ==
  ASSUME Typed, InOrder, Matched, ReceiveLength
  PROVE  Matched'
<1> DEFINE j == Len(stored) + 1
<1>1. /\ down.at = "length" /\ Len(down.buf) = down.count /\ down'.at = "name" /\ down'.buf = <<>>
      /\ down'.count = IF down.buf = <<>> THEN 0 ELSE down.buf[1]
      /\ UNCHANGED <<up, pipe, sent, stored>>
  BY DEF ReceiveLength, Received
<1>2. PICK o, part : Underway(o, part)
  BY <1>1 DEF Matched, DownloadOver
<1>3. j \in 1..(Len(sent) + 1) /\ Named(part, j)
  BY <1>1, <1>2, ReadWasSent DEF DownloadOver
<1>4. Placed(o, part, OnTheWay) /\ Filled(o, part, OnTheWay) /\ o[j] = 0 /\ Len(down.buf) = 1
  BY <1>1, <1>2 DEF Underway, Reading
<1>5. <<Length(j)>> \in Seq(Byte) /\ Len(<<Length(j)>>) = 1
  BY <1>3, <1>4, PartsType
<1>6. down.buf = <<Length(j)>>
  <2>1. Carried(OnTheWay, 0, <<Length(j)>>)
    BY <1>3, <1>4 DEF Filled
  <2> QED
    BY <1>4, <1>5, <2>1, ReadIsFirst
<1>7. down'.count = Length(j)
  BY <1>1, <1>6
<1>8. StoredAsSent'
  BY <1>1 DEF Matched, StoredAsSent
<1>9. ASSUME NEW p, \A k \in 1..(Len(sent) + 1) : p[k] = o[k] - Len(down.buf)
      PROVE  Reading(p, part)'
  <2>1. p[j] = -1
    BY <1>3, <1>4, <1>9
  <2>2. j' = j
    BY <1>1
  <2>3. Named(part, j)'
    BY <1>1, <1>3 DEF Named
  <2> HIDE DEF j
  <2> QED
    BY <1>1, <1>7, <2>1, <2>2, <2>3 DEF Reading, j
<1> QED
  BY <1>1, <1>2, <1>8, <1>9, GoesOnMatched

LEMMA ReceiveNameMatched ==
  ASSUME Typed, InOrder, Matched, ReceiveName
  PROVE  Matched'
<1> DEFINE j == Len(stored) + 1
<1>1. /\ down.at = "name" /\ Len(down.buf) = down.count /\ down'.at = "size" /\ down'.buf = <<>>
      /\ down'.count = 4 /\ down'.name = down.buf
      /\ UNCHANGED <<up, pipe, sent, stored>>
  BY DEF ReceiveName, Received, SizeBytes
<1>2. PICK o, part : Underway(o, part)
  BY <1>1 DEF Matched, DownloadOver
<1>3. j \in 1..(Len(sent) + 1) /\ Named(part, j)
  BY <1>1, <1>2, ReadWasSent DEF DownloadOver
<1>4. /\ Placed(o, part, OnTheWay) /\ Filled(o, part, OnTheWay)
      /\ o[j] = -1 /\ Len(down.buf) = Length(j)
  BY <1>1, <1>2 DEF Underway, Reading
<1>5. Offered[j] \in Seq(Byte) /\ Len(Offered[j]) = Length(j) /\ Length(j) \in Nat
  BY <1>3, <1>4, PartsType
<1>6. down.buf = Offered[j]
  <2>1. Carried(OnTheWay, o[j] + 1, Offered[j])
    BY <1>3, <1>4 DEF Filled
  <2>2. o[j] + 1 = 0
    BY <1>4
  <2> QED
    BY <1>4, <1>5, <2>1, <2>2, ReadIsFirst
<1>7. StoredAsSent'
  BY <1>1 DEF Matched, StoredAsSent
<1>8. ASSUME NEW p, \A k \in 1..(Len(sent) + 1) : p[k] = o[k] - Len(down.buf)
      PROVE  Reading(p, part)'
  <2>1. p[j] = -(1 + Length(j))
    BY <1>3, <1>4, <1>5, <1>8
  <2>2. j' = j
    BY <1>1
  <2>3. Named(part, j)'
    BY <1>1, <1>3 DEF Named
  <2> HIDE DEF j
  <2> QED
    BY <1>1, <1>6, <2>1, <2>2, <2>3 DEF Reading, j
<1> QED
  BY <1>1, <1>2, <1>7, <1>8, GoesOnMatched

LEMMA ReceiveSizeMatched ==
  ASSUME Typed, InOrder, AllFit, Matched, ReceiveSize
  PROVE  Matched'
<1> DEFINE j == Len(stored) + 1
<1>1. /\ down.at = "size" /\ Len(down.buf) = down.count /\ down'.at = "data" /\ down'.buf = <<>>
      /\ down'.count = FileSizeOf(down.buf) /\ down'.name = down.name
      /\ UNCHANGED <<up, pipe, sent, stored>>
  BY DEF ReceiveSize, Received
<1>2. PICK o, part : Underway(o, part)
  BY <1>1 DEF Matched, DownloadOver
<1>3. j \in 1..(Len(sent) + 1) /\ Sized(part, j) /\ Named(part, j)
  BY <1>1, <1>2, ReadWasSent DEF DownloadOver, Named, Sized
<1>4. /\ Placed(o, part, OnTheWay) /\ Filled(o, part, OnTheWay)
      /\ o[j] = -(1 + Length(j)) /\ Len(down.buf) = 4 /\ down.name = Offered[j]
  BY <1>1, <1>2 DEF Underway, Reading
<1>5. /\ FileSizeBytes(SizeOf(j)) \in Seq(Byte) /\ Len(FileSizeBytes(SizeOf(j))) = 4
      /\ SizeOf(j) \in Nat /\ Length(j) \in Nat
  BY <1>3, <1>4, PartsType
<1>6. down.buf = FileSizeBytes(SizeOf(j))
  <2>1. Carried(OnTheWay, o[j] + 1 + Length(j), FileSizeBytes(SizeOf(j)))
    BY <1>3, <1>4 DEF Filled
  <2>2. o[j] + 1 + Length(j) = 0
    BY <1>4, <1>5
  <2> QED
    BY <1>4, <1>5, <2>1, <2>2, ReadIsFirst
<1>7. Fits(SizeOf(j))
  <2>1. DOMAIN sent = 1..Len(sent) /\ Len(sent) \in Nat
    BY LenProperties DEF Typed, TypeOK
  <2> QED
    BY <1>3, <2>1 DEF AllFit, SizeOf
<1>8. down'.count = SizeOf(j)
  BY <1>1, <1>5, <1>6, <1>7, SizeUnderstood
<1>9. StoredAsSent'
  BY <1>1 DEF Matched, StoredAsSent
<1>10. ASSUME NEW p, \A k \in 1..(Len(sent) + 1) : p[k] = o[k] - Len(down.buf)
       PROVE  Reading(p, part)'
  <2>1. p[j] = -(5 + Length(j))
    BY <1>3, <1>4, <1>5, <1>10
  <2>2. j' = j
    BY <1>1
  <2>3. Sized(part, j)' /\ SizeOf(j)' = SizeOf(j)
    BY <1>1, <1>3 DEF Sized, SizeOf
  <2> HIDE DEF j
  <2> QED
    BY <1>1, <1>4, <1>8, <2>1, <2>2, <2>3 DEF Reading, j
<1> QED
  BY <1>1, <1>2, <1>9, <1>10, GoesOnMatched

LEMMA ReceiveDataMatched ==
  ASSUME Typed, InOrder, Matched, ReceiveData
  PROVE  Matched'
<1> DEFINE j == Len(stored) + 1
           R == [name : Seq(Byte), bytes : Seq(Byte)]
<1>1. /\ down.at = "data" /\ Len(down.buf) = down.count /\ down'.buf = <<>>
      /\ down'.at = IF j < Len(Offered) THEN "length" ELSE "hash_count"
      /\ down'.count = 1 /\ stored' = Append(stored, File(down.name, down.buf))
      /\ UNCHANGED <<up, pipe, sent>>
  BY DEF ReceiveData, Received
<1>2. PICK o, part : Underway(o, part)
  BY <1>1 DEF Matched, DownloadOver
<1>3. j \in 1..Len(sent) /\ Len(sent) \in Nat /\ Len(stored) \in Nat
  BY <1>1, <1>2, ReadWasSent, WayType DEF DownloadOver
<1>4. /\ Placed(o, part, OnTheWay) /\ Filled(o, part, OnTheWay)
      /\ o[j] = -(5 + Length(j)) /\ Len(down.buf) = SizeOf(j) /\ down.name = Offered[j]
  BY <1>1, <1>2 DEF Underway, Reading
<1>5. /\ j \in 1..(Len(sent) + 1) /\ Named(part, j)
      /\ j + 1 \in 1..(Len(sent) + 1)
  BY <1>3 DEF Named
<1>6. /\ sent[j].bytes \in Seq(Byte) /\ Len(sent[j].bytes) = SizeOf(j)
      /\ SizeOf(j) \in Nat /\ Length(j) \in Nat /\ j \in 1..Len(Offered)
  <2>1. j <= Len(sent)
    BY <1>3
  <2> HIDE DEF j
  <2> QED
    BY <1>4, <1>5, <2>1, PartsType
<1>7. down.buf = sent[j].bytes
  <2>1. Carried(OnTheWay, o[j] + 5 + Length(j), sent[j].bytes)
    BY <1>3, <1>4 DEF Filled
  <2>2. o[j] + 5 + Length(j) = 0
    BY <1>4, <1>6
  <2> QED
    BY <1>4, <1>6, <2>1, <2>2, ReadIsFirst
<1>8. File(down.name, down.buf) = sent[j]
  <2>1. sent \in Seq(R)
    BY DEF Typed, TypeOK
  <2>2. sent[j] \in R
    BY <1>3, <2>1, ElementOfSeq
  <2>3. sent[j].name = Offered[j]
    BY <1>3 DEF InOrder
  <2>4. sent[j] = [name |-> sent[j].name, bytes |-> sent[j].bytes]
    BY <2>2
  <2> QED
    BY <1>4, <1>7, <2>3, <2>4 DEF File
<1>9. /\ Len(stored') = j /\ stored'[j] = sent[j]
      /\ \A k \in 1..Len(stored) : stored'[k] = stored[k]
  <2>1. stored \in Seq(R)
    BY DEF Typed, TypeOK
  <2>2. sent[j] \in R
    BY <1>3, ElementOfSeq DEF Typed, TypeOK
  <2> HIDE DEF R
  <2>3. stored' = Append(stored, sent[j])
    BY <1>1, <1>8
  <2> QED
    BY <2>1, <2>2, <2>3, AppendProperties
<1>10. StoredAsSent'
  <2>1. \A k \in 1..j : stored'[k] = sent[k]
    <3>1. \A k \in 1..Len(stored) : stored'[k] = sent[k]
      BY <1>9 DEF Matched, StoredAsSent
    <3>2. \A k \in 1..j : k \in 1..Len(stored) \/ k = j
      BY <1>3
    <3> QED
      BY <1>9, <3>1, <3>2
  <2> QED
    BY <1>1, <1>3, <1>9, <2>1 DEF StoredAsSent
<1>11. ASSUME NEW p, \A k \in 1..(Len(sent) + 1) : p[k] = o[k] - Len(down.buf)
       PROVE  Reading(p, part)'
  <2>1. o[j + 1] = o[j] + 5 + Length(j) + SizeOf(j)
    BY <1>3, <1>4 DEF Placed
  <2>2. p[j + 1] = 0
    <3> DEFINE l == Length(j)
               s == SizeOf(j)
               x == o[j]
               y == o[j + 1]
               w == Len(down.buf)
    <3>1. p[j + 1] = y - w
      BY <1>5, <1>11
    <3>2. y = x + 5 + l + s /\ x = -(5 + l) /\ w = s /\ l \in Nat /\ s \in Nat
      BY <1>4, <1>6, <2>1
    <3> HIDE DEF l, s, x, y, w
    <3>3. y - w = 0
      BY <3>2
    <3> QED
      BY <3>1, <3>3
  <2>3. Len(stored') + 1 = j + 1
    BY <1>9
  <2>4. /\ down'.at = "length" => j + 1 <= Len(Offered)
        /\ down'.at = "hash_count" => j + 1 = Len(Offered) + 1
    BY <1>1, <1>6, OfferedType
  <2>5. down'.at \in {"length", "hash_count"}
    BY <1>1
  <2> HIDE DEF j
  <2> QED
    BY <1>1, <2>2, <2>3, <2>4, <2>5 DEF Reading
<1>12. down'.at \notin {"lost", "aborted", "done"}
  BY <1>1
<1> HIDE DEF j
<1> QED
  BY <1>1, <1>2, <1>10, <1>11, <1>12, GoesOnMatched

LEMMA ReadEndMatched ==
  ASSUME Typed, InOrder, Matched, ReadEnd
  PROVE  Matched'
<1> DEFINE j == Len(stored) + 1
           m == Len(sent)
<1>1. /\ up.at \in {"done", "aborted"} /\ pipe = <<>> /\ Len(down.buf) < down.count
      /\ down'.at = IF down.at = "hash_count" THEN "done" ELSE "aborted"
      /\ UNCHANGED <<up, pipe, sent, stored>>
  BY DEF ReadEnd, Closed, Typed, TypeOK
<1>2. StoredAsSent' /\ down'.at # "lost" /\ DownloadOver'
  BY <1>1 DEF Matched, StoredAsSent, DownloadOver
<1>3. ASSUME down.at # "hash_count" PROVE up.at = "aborted"
  <2>1. CASE DownloadOver
    <3>1. Len(down.buf) \in Nat /\ down.at # "done"
      BY <1>1, WayType DEF Typed
    <3> QED
      BY <2>1, <3>1 DEF Matched, DownloadOver
  <2>2. CASE ~DownloadOver
    <3>1. SUFFICES ASSUME up.at = "done" PROVE FALSE
      BY <1>1
    <3>2. PICK o, part : Underway(o, part)
      BY <2>2 DEF Matched
    <3>3. /\ part = 0 /\ Reading(o, part) /\ up.out = <<>> /\ m = Len(Offered)
          /\ Placed(o, part, OnTheWay)
      BY <3>1, <3>2 DEF Underway, Sending, InOrder
    <3>4. OnTheWay = down.buf /\ Len(down.buf) = o[m + 1] + Begun(part)
      <4>1. down.buf \o <<>> = down.buf
        BY WayType, ConcatEmptySeq
      <4>2. OnTheWay = down.buf
        BY <1>1, <3>3, <4>1 DEF OnTheWay
      <4> QED
        BY <3>2, <4>2, WayLength
    <3>5. Begun(part) = 0 /\ o[m + 1] \in Int /\ m \in Nat
      BY <3>2, <3>3, WayLength DEF Begun
    <3>6. j \in 1..m
      <4>1. j <= Len(Offered)
        <5>1. Len(stored) \in Nat /\ Len(stored) <= m
          BY WayType DEF Matched, StoredAsSent
        <5>2. CASE down.at = "length"
          BY <3>3, <5>2 DEF Reading
        <5>3. CASE down.at \in {"name", "size", "data"}
          BY <3>3, <5>1, <5>3 DEF Reading, Named, Sized
        <5> QED
          BY <1>3, <2>2, <5>2, <5>3 DEF DownloadOver, Typed, TypeOK
      <4> QED
        BY <3>3, <4>1, WayType
    <3>7. /\ j \in 1..(m + 1) /\ Named(part, j)
          /\ o[j + 1] = o[j] + 5 + Length(j) + SizeOf(j) /\ o[j + 1] <= o[m + 1]
      BY <3>3, <3>5, <3>6 DEF Named, Placed
    <3>8. o[j] \in Int /\ SizeOf(j) \in Nat /\ Length(j) \in Nat
      BY <3>3, <3>7, PartsType
    <3>9. down.count <= o[j + 1]
      <4>1. \/ o[j] = 0 /\ down.count = 1
            \/ o[j] = -1 /\ down.count = Length(j)
            \/ o[j] = -(1 + Length(j)) /\ down.count = 4
            \/ o[j] = -(5 + Length(j)) /\ down.count = SizeOf(j)
        BY <1>3, <2>2, <3>3 DEF Reading, DownloadOver, Typed, TypeOK
      <4> DEFINE l == Length(j)
                 s == SizeOf(j)
                 x == o[j]
                 y == o[j + 1]
                 c == down.count
      <4>2. /\ l \in Nat /\ s \in Nat /\ y = x + 5 + l + s
            /\ \/ x = 0 /\ c = 1
               \/ x = -1 /\ c = l
               \/ x = -(1 + l) /\ c = 4
               \/ x = -(5 + l) /\ c = s
        BY <3>7, <3>8, <4>1
      <4> HIDE DEF l, s, x, y, c
      <4>3. c <= y
        BY <4>2
      <4> QED
        BY <4>3 DEF c, y
    <3>10. Len(down.buf) \in Nat /\ down.count \in Nat
      BY WayType
    <3>11. o[j + 1] \in Int
      BY <3>7, <3>8
    <3> HIDE DEF j, m
    <3> QED
      BY <1>1, <3>4, <3>5, <3>7, <3>9, <3>10, <3>11
  <2> QED
    BY <2>1, <2>2
<1> QED
  BY <1>1, <1>2, <1>3 DEF Matched

LEMMA ReceiveSurplusNever ==
  ASSUME Typed, InOrder, Matched
  PROVE  ~ReceiveSurplus
<1> SUFFICES ASSUME ReceiveSurplus PROVE FALSE
  OBVIOUS
<1>1. down.at = "hash_count" /\ Len(down.buf) = down.count
  BY DEF ReceiveSurplus, Received
<1>2. PICK o, part : Underway(o, part)
  BY <1>1 DEF Matched, DownloadOver
<1> QED
  BY <1>1, <1>2, ReadWasSent DEF DownloadOver

\* A step keeps the two ends in step as long as sizes fit.
LEMMA NextMatched == Typed /\ InOrder /\ AllFit /\ Matched /\ [Next]_vars => Matched'
<1> SUFFICES ASSUME Typed, InOrder, AllFit, Matched, [Next]_vars PROVE Matched'
  OBVIOUS
<1>1. CASE Uploader
  BY <1>1, WriteMatched, SendNameMatched, SendSizeMatched, SendDataMatched, OtherMatched
     DEF Uploader
<1>2. CASE Downloader
  BY <1>2, ReadMatched, ReceiveLengthMatched, ReceiveNameMatched, ReceiveSizeMatched,
     ReceiveDataMatched, ReceiveSurplusNever, ReadEndMatched DEF Downloader
<1>3. CASE Change \/ Kill \/ Reset \/ Terminated \/ UNCHANGED vars
  BY <1>3, OtherMatched DEF Terminated
<1> QED
  BY <1>1, <1>2, <1>3 DEF Next

LEMMA InStepImpliesCrossInStep == Typed /\ InStep => CrossInStep
<1> SUFFICES ASSUME Typed, InStep, AllFit PROVE IsPrefix(stored, sent) /\ down.at # "lost"
                                          /\ (down.at = "aborted" => up.at = "aborted")
  BY DEF CrossInStep
<1>1. Matched
  BY DEF InStep
<1> DEFINE R == [name : Seq(Byte), bytes : Seq(Byte)]
           s == SubSeq(stored, 1, Len(stored))
           t == SubSeq(sent, 1, Len(stored))
<1>2. stored \in Seq(R) /\ sent \in Seq(R) /\ Len(stored) \in Nat /\ Len(sent) \in Nat
  BY LenProperties DEF Typed, TypeOK
<1>3. Len(stored) <= Len(sent) /\ \A k \in 1..Len(stored) : stored[k] = sent[k]
  BY <1>1 DEF Matched, StoredAsSent
<1> HIDE DEF R
<1>4. /\ s \in Seq(R) /\ Len(s) = Len(stored) /\ t \in Seq(R) /\ Len(t) = Len(stored)
      /\ \A k \in 1..Len(stored) : s[k] = stored[k] /\ t[k] = sent[k]
  <2>1. /\ \A k \in 1..Len(stored) : stored[k] \in R
        /\ \A k \in 1..Len(stored) : sent[k] \in R
    BY <1>2, <1>3, ElementOfSeq
  <2> QED
    BY <1>2, <2>1, SubSeqProperties
<1> HIDE DEF s, t
<1>5. s = t
  BY <1>3, <1>4, SeqEqual
<1>6. IsPrefix(stored, sent)
  BY <1>3, <1>5 DEF IsPrefix, s, t
<1> QED
  BY <1>1, <1>6 DEF Matched

\* However reads and writes are split, wherever the connection ends and whatever
\* becomes of the files meanwhile: for any files, the two ends stay in step and
\* only whole files are stored, as they were sent (CrossInStep).
THEOREM FilesCrossInStep == Spec => []CrossInStep
<1>1. Init => InStep
  BY InitInOrder, InitMatched DEF InStep
<1>2. Typed /\ InStep /\ [Next]_vars => InStep'
  <2> SUFFICES ASSUME Typed, InStep, [Next]_vars PROVE InOrder' /\ (AllFit' => Matched')
    BY DEF InStep
  <2>1. InOrder'
    BY NextInOrder DEF InStep
  <2>2. ASSUME AllFit' PROVE Matched'
    <3>1. AllFit
      BY <2>2, FittedBefore DEF InStep
    <3> QED
      BY <3>1, NextMatched DEF InStep
  <2> QED
    BY <2>1, <2>2
<1>3. Typed /\ InStep => CrossInStep
  BY InStepImpliesCrossInStep
<1> QED
  BY <1>1, <1>2, <1>3, AlwaysTyped, PTL DEF Spec
=============================================================================
