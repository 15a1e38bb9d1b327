--------------------------- MODULE PeerSyncProof ---------------------------
(***************************************************************************)
(* Proofs about PeerSync, for any two peers, any libraries, any sizes of   *)
(* packets, offers and bytes, over DCCP and over TCP.                      *)
(***************************************************************************)
EXTENDS PeerSync, FoundMaskProof, SequenceTheorems

-----------------------------------------------------------------------------
(* Sets of positions, in order. *)

\* How many elements of a set are not behind j.
Rank(S, j) == Cardinality({l \in S : l <= j})

\* Every rank is taken: a set of n positions has an i-th one for each i up to n.
LEMMA RankTaken ==
  ASSUME NEW S \in SUBSET Nat, IsFiniteSet(S)
  PROVE  /\ \A j \in S : Rank(S, j) \in 1..Cardinality(S)
         /\ \A j, k \in S : j < k => Rank(S, j) < Rank(S, k)
         /\ \A i \in 1..Cardinality(S) : \E j \in S : Rank(S, j) = i
<1> DEFINE n == Cardinality(S)
           Upto(j) == {l \in S : l <= j}
           rank == [j \in S |-> Rank(S, j)]
<1>1. n \in Nat
  BY FS_CardinalityType
<1>2. ASSUME NEW j \in S
      PROVE  IsFiniteSet(Upto(j)) /\ Cardinality(Upto(j)) \in 1..n
  <2>1. Upto(j) \in SUBSET S /\ Upto(j) # {}
    OBVIOUS
  <2>2. IsFiniteSet(Upto(j)) /\ Cardinality(Upto(j)) <= n
    BY <2>1, FS_Subset
  <2>3. Cardinality(Upto(j)) \in Nat /\ Cardinality(Upto(j)) # 0
    BY <2>1, <2>2, FS_CardinalityType, FS_EmptySet
  <2> QED
    BY <1>1, <2>2, <2>3
<1>3. ASSUME NEW j \in S, NEW k \in S, j < k
      PROVE  Cardinality(Upto(j)) < Cardinality(Upto(k))
  <2>1. \A l \in S : l \in Nat
    OBVIOUS
  <2>2. \A l \in Upto(j) : l \in Upto(k)
    BY <1>3, <2>1
  <2>3. k \in Upto(k) /\ k \notin Upto(j)
    BY <1>3, <2>1
  <2>4. Upto(j) \in SUBSET Upto(k) /\ k \in Upto(k) /\ k \notin Upto(j)
    BY <2>2, <2>3
  <2>5. Cardinality(Upto(j)) <= Cardinality(Upto(k)) /\ Cardinality(Upto(j)) # Cardinality(Upto(k))
    BY <1>2, <2>4, FS_Subset
  <2> QED
    BY <1>2, <2>5
<1>4. rank \in Injection(S, 1..n)
  <2>1. rank \in [S -> 1..n]
    BY <1>2 DEF Rank
  <2>2. ASSUME NEW j \in S, NEW k \in S, rank[j] = rank[k] PROVE j = k
    <3>1. ~(j < k) /\ ~(k < j)
      BY <1>2, <1>3, <2>2 DEF Rank
    <3> QED
      BY <3>1
  <2> QED
    BY <2>1, <2>2 DEF Injection, IsInjective
<1>5. IsFiniteSet(1..n) /\ Cardinality(1..n) = n
  BY <1>1, FS_Interval
<1>6. rank \in Surjection(S, 1..n)
  BY <1>4, <1>5, FS_Injection
<1>7. \A i \in 1..n : \E j \in S : rank[j] = i
  BY <1>6 DEF Surjection
<1> QED
  BY <1>2, <1>3, <1>7 DEF Rank

\* Ascending lists every element of the set, in order.
LEMMA AscendingLists ==
  ASSUME NEW S \in SUBSET Nat, IsFiniteSet(S)
  PROVE  /\ Ascending(S) \in [1..Cardinality(S) -> S]
         /\ \A i, j \in 1..Cardinality(S) : i < j => Ascending(S)[i] < Ascending(S)[j]
         /\ \A e \in S : \E i \in 1..Cardinality(S) : Ascending(S)[i] = e
<1> DEFINE n == Cardinality(S)
           list == [i \in 1..n |-> CHOOSE j \in S : Rank(S, j) = i]
           P(s) == \A i, j \in DOMAIN s : i < j => s[i] < s[j]
<1>1. \A i \in 1..n : list[i] \in S /\ Rank(S, list[i]) = i
  BY RankTaken
<1>2. list \in [1..n -> S]
  BY <1>1
<1> HIDE DEF list
<1>3. P(list)
  <2> SUFFICES ASSUME NEW i \in 1..n, NEW j \in 1..n, i < j PROVE list[i] < list[j]
    BY <1>2
  <2>1. list[i] \in S /\ list[j] \in S /\ Rank(S, list[i]) = i /\ Rank(S, list[j]) = j
    BY <1>1
  <2>2. list[i] # list[j] /\ ~(list[j] < list[i])
    <3>1. i \in Nat /\ j \in Nat /\ ~(j < i) /\ i # j
      OBVIOUS
    <3> QED
      BY <2>1, <3>1, RankTaken
  <2>3. list[i] \in Nat /\ list[j] \in Nat
    BY <2>1
  <2> QED
    BY <2>2, <2>3
<1>4. Ascending(S) \in [1..n -> S] /\ P(Ascending(S))
  BY <1>2, <1>3 DEF Ascending
<1>5. n \in Nat /\ Cardinality(1..n) = n /\ IsFiniteSet(1..n)
  BY FS_CardinalityType, FS_Interval
<1>6. Ascending(S) \in Injection(1..n, S)
  <2> DEFINE s == Ascending(S)
  <2>1. s \in [1..n -> S] /\ P(s)
    BY <1>4
  <2> HIDE DEF s
  <2>2. ASSUME NEW i \in 1..n, NEW j \in 1..n, s[i] = s[j] PROVE i = j
    <3>1. s[i] \in S
      BY <2>1
    <3>2. s[i] \in Nat
      BY <3>1
    <3>3. i \in Int /\ j \in Int
      BY <1>5
    <3>4. s[i] \in Nat /\ i \in Int /\ j \in Int
      BY <3>2, <3>3
    <3>5. ~(i < j) /\ ~(j < i)
      BY <2>1, <2>2, <3>4
    <3> QED
      BY <3>4, <3>5
  <2>3. s \in Injection(1..n, S)
    BY <2>1, <2>2 DEF Injection, IsInjective
  <2> QED
    BY <2>3 DEF s
<1>7. Ascending(S) \in Surjection(1..n, S)
  BY <1>5, <1>6, FS_Injection
<1> QED
  BY <1>4, <1>7 DEF Surjection

\* A set of positions that is not empty has a first one.
LEMMA FirstOf ==
  ASSUME NEW S \in SUBSET Nat, S # {}
  PROVE  \E m \in S : \A j \in S : m <= j
<1>1. PICK x \in S : x \in Nat
  OBVIOUS
<1> DEFINE T == {l \in S : l <= x}
<1>2. IsFiniteSet(T)
  <2>1. \A l \in S : l \in Nat
    OBVIOUS
  <2>2. \A l \in T : l \in 0..x
    BY <1>1, <2>1
  <2>3. T \in SUBSET (0..x)
    BY <2>2
  <2>4. IsFiniteSet(0..x)
    BY <1>1, FS_Interval
  <2> QED
    BY <2>3, <2>4, FS_Subset
<1>3. T \in SUBSET Nat /\ x \in T
  <2>1. x \in T
    BY <1>1
  <2>2. \A l \in T : l \in Nat
    OBVIOUS
  <2> HIDE DEF T
  <2> QED
    BY <2>1, <2>2
<1>4. Cardinality(T) \in Nat /\ Cardinality(T) # 0
  BY <1>2, <1>3, FS_CardinalityType, FS_EmptySet
<1>5. PICK m \in T : Rank(T, m) = 1
  <2>1. 1 \in 1..Cardinality(T)
    BY <1>4
  <2>2. T \in SUBSET Nat
    BY <1>3
  <2> HIDE DEF T
  <2> QED
    BY <1>2, <2>1, <2>2, RankTaken
<1>6. \A j \in T : ~(j < m)
  <2> SUFFICES ASSUME NEW j \in T, j < m PROVE FALSE
    OBVIOUS
  <2>1. Rank(T, j) < 1 /\ Rank(T, j) \in 1..Cardinality(T)
    BY <1>2, <1>3, <1>5, RankTaken
  <2> QED
    BY <2>1
<1>7. ASSUME NEW j \in S PROVE m <= j
  BY <1>6, <1>5
<1> QED
  BY <1>7
-----------------------------------------------------------------------------
(* Peers and what they hold. *)

\* There are two peers, each the other one of the other.
LEMMA OtherPeer ==
  ASSUME NEW p \in Peers
  PROVE  /\ Other(p) \in Peers /\ Other(p) # p /\ Other(Other(p)) = p
         /\ \A q \in Peers : q = p \/ q = Other(p)
<1>1. IsFiniteSet(Peers \ {p}) /\ Cardinality(Peers \ {p}) = 1
  <2>1. IsFiniteSet(Peers) /\ Cardinality(Peers) = 2
    BY PeerSyncAssumption
  <2> QED
    BY <2>1, FS_RemoveElement
<1>2. PICK o : Peers \ {p} = {o}
  BY <1>1, FS_Singleton
<1>3. o \in Peers /\ o # p /\ \A q \in Peers : q = p \/ q = o
  BY <1>2
<1>4. Other(p) = o
  BY <1>3 DEF Other
<1>5. Other(o) = p
  BY <1>3 DEF Other
<1> QED
  BY <1>3, <1>4, <1>5

\* The entries of a peer are hashes, none of them twice.
LEMMA EntriesType ==
  ASSUME entries \in Libraries, NEW p \in Peers
  PROVE  /\ entries[p] \in Seq(Hash)
         /\ \A i, j \in 1..Len(entries[p]) : entries[p][i] = entries[p][j] => i = j
<1>1. entries \in [Peers -> Seq(Hash)] /\ IsInjective(entries[p])
  BY PeerSyncAssumption
<1> QED
  BY <1>1 DEF IsInjective

-----------------------------------------------------------------------------
(* The scan for the entries to offer. *)

\* The scan goes on from where it was, and stops when the offer is full.
LEMMA ScanEndType ==
  ASSUME TypeOK, NEW p \in Peers
  PROVE  /\ ScanEnd(p) \in uploader[p].processed_entry_count..uploader[p].total_entry_count
         /\ IsFiniteSet(Unconfirmed(p, ScanEnd(p)))
         /\ Cardinality(Unconfirmed(p, ScanEnd(p))) \in 0..OfferMax
<1> DEFINE done == uploader[p].processed_entry_count
           total == uploader[p].total_entry_count
           ahead == (done + 1)..total
           full == {k \in ahead : Cardinality(Unconfirmed(p, k)) = OfferMax}
           all == Unconfirmed(p, total)
<1>1. done \in Nat /\ total \in Nat /\ done <= total
  BY DEF TypeOK, UploaderState
<1>2. OfferMax \in Nat
  BY PeerSyncAssumption
<1>3. ASSUME NEW k \in Nat
      PROVE  IsFiniteSet(Unconfirmed(p, k))
  <2>1. Unconfirmed(p, k) \in SUBSET ((done + 1)..k)
    BY DEF Unconfirmed
  <2>2. IsFiniteSet((done + 1)..k)
    <3>1. done + 1 \in Int /\ k \in Int
      BY <1>1
    <3> QED
      BY <3>1, FS_Interval
  <2> QED
    BY <2>1, <2>2, FS_Subset
<1>4. ScanEnd(p) = IF full = {} THEN total ELSE CHOOSE k \in full : \A j \in full : k <= j
  BY DEF ScanEnd
<1>5. all \in SUBSET ahead
  BY DEF Unconfirmed
<1>6. \A k \in ahead : k \in Nat /\ done <= k /\ k <= total
  BY <1>1
<1>7. CASE full = {}
  <2>1. ~(Cardinality(all) > OfferMax)
    <3> SUFFICES ASSUME Cardinality(all) > OfferMax PROVE FALSE
      OBVIOUS
    <3>1. all \in SUBSET Nat /\ IsFiniteSet(all) /\ Cardinality(all) \in Nat
      BY <1>1, <1>3, <1>5, <1>6, FS_CardinalityType
    <3>2. OfferMax \in 1..Cardinality(all)
      BY <3>1, PeerSyncAssumption
    <3>3. PICK k \in all : Rank(all, k) = OfferMax
      BY <3>1, <3>2, RankTaken
    <3>4. k \in ahead
      BY <1>5
    <3>5. {l \in all : l <= k} = Unconfirmed(p, k)
      BY <1>1, <1>6, <3>4 DEF Unconfirmed
    <3>6. k \in full
      BY <3>3, <3>4, <3>5 DEF Rank
    <3> QED
      BY <1>7, <3>6
  <2>2. ScanEnd(p) = total
    BY <1>4, <1>7
  <2>3. IsFiniteSet(all) /\ Cardinality(all) \in Nat
    BY <1>1, <1>3, FS_CardinalityType
  <2> QED
    BY <1>1, <1>2, <2>1, <2>2, <2>3
<1>8. CASE full # {}
  <2>1. \A k \in full : k \in ahead /\ Cardinality(Unconfirmed(p, k)) = OfferMax
    OBVIOUS
  <2>2. full \in SUBSET Nat
    BY <1>6, <2>1
  <2> HIDE DEF full
  <2>3. \E k \in full : \A j \in full : k <= j
    BY <1>8, <2>2, FirstOf
  <2>4. ScanEnd(p) \in full
    BY <1>4, <1>8, <2>3
  <2>5. ScanEnd(p) \in ahead /\ Cardinality(Unconfirmed(p, ScanEnd(p))) = OfferMax
    BY <2>1, <2>4
  <2>6. ScanEnd(p) \in Nat /\ done <= ScanEnd(p) /\ ScanEnd(p) <= total
    BY <1>6, <2>5
  <2> QED
    BY <1>1, <1>2, <1>3, <2>5, <2>6
<1> QED
  BY <1>7, <1>8

\* What is scanned are the unconfirmed entries, in the order of the list.
LEMMA ScannedEntries ==
  ASSUME TypeOK, NEW p \in Peers
  PROVE  LET positions == Ascending(Unconfirmed(p, ScanEnd(p)))
         IN  /\ Scanned(p) \in Seq(Hash) /\ Len(Scanned(p)) <= OfferMax
             /\ \A i \in 1..Len(Scanned(p)) :
                  /\ positions[i] \in (uploader[p].processed_entry_count + 1)..ScanEnd(p)
                  /\ Scanned(p)[i] = entries[p][positions[i]]
                  /\ Scanned(p)[i] \notin receiver[p].received_hashes
             /\ \A i, j \in 1..Len(Scanned(p)) : i < j => positions[i] < positions[j]
<1> DEFINE done == uploader[p].processed_entry_count
           S == Unconfirmed(p, ScanEnd(p))
           positions == Ascending(S)
           n == Cardinality(S)
<1>1. /\ ScanEnd(p) \in Nat /\ done \in Nat /\ ScanEnd(p) <= Len(entries[p])
      /\ IsFiniteSet(S) /\ n \in Nat /\ n <= OfferMax
  <2>1. entries[p] \in Seq(Hash)
    BY EntriesType DEF TypeOK
  <2>2. /\ uploader[p].total_entry_count \in Nat /\ done \in Nat
        /\ uploader[p].total_entry_count <= downloader[p].hasher_entry_count
        /\ downloader[p].hasher_entry_count \in Nat
        /\ downloader[p].hasher_entry_count <= Len(entries[p])
    BY DEF TypeOK, UploaderState, DownloaderState
  <2>3. OfferMax \in Nat
    BY PeerSyncAssumption
  <2> QED
    BY <2>1, <2>2, <2>3, ScanEndType
<1>2. \A j \in S : /\ j \in (done + 1)..ScanEnd(p)
                   /\ entries[p][j] \notin receiver[p].received_hashes
  BY DEF Unconfirmed
<1>3. \A j \in S : j \in Nat /\ j \in 1..Len(entries[p])
  <2>1. entries[p] \in Seq(Hash)
    BY EntriesType DEF TypeOK
  <2> QED
    BY <1>1, <1>2, <2>1
<1>4. S \in SUBSET Nat
  BY <1>3
<1>5. /\ positions \in [1..n -> S]
      /\ \A i, j \in 1..n : i < j => positions[i] < positions[j]
  BY <1>1, <1>4, AscendingLists
<1>6. Scanned(p) = [i \in 1..n |-> entries[p][positions[i]]]
  BY <1>5 DEF Scanned
<1> HIDE DEF positions, S, n
<1>7. \A i \in 1..n : entries[p][positions[i]] \in Hash
  <2>1. entries[p] \in Seq(Hash)
    BY EntriesType DEF TypeOK
  <2> QED
    BY <1>3, <1>5, <2>1
<1>8. Scanned(p) \in Seq(Hash) /\ Len(Scanned(p)) = n
  BY <1>1, <1>6, <1>7
<1>9. \A i \in 1..n : /\ positions[i] \in (done + 1)..ScanEnd(p)
                      /\ Scanned(p)[i] = entries[p][positions[i]]
                      /\ Scanned(p)[i] \notin receiver[p].received_hashes
  BY <1>2, <1>5, <1>6
<1> QED
  BY <1>1, <1>5, <1>8, <1>9 DEF positions, S, n
-----------------------------------------------------------------------------
(* Type correctness. *)

\* Where a thread is, and what it has still to do there.
ThreadsOK ==
  \A p \in Peers :
    /\ downloader[p].at = "notify" => downloader[p].hasher_entry_count > 0
    /\ downloader[p].at = "files" => downloader[p].missing_hashes > 0
    /\ downloader[p].missing_hashes > 0 => downloader[p].at \in {"files", "astray"}
    /\ uploader[p].at = "files" <=> uploader[p].uploads # {}
    /\ uploader[p].at = "mask" => uploader[p].missing_entries # <<>>

Typed == TypeOK /\ ThreadsOK

\* The bytes of a mask are bytes, and there is at least one.
LEMMA MaskBytesType ==
  ASSUME NEW count \in Nat \ {0}, NEW byte \in Byte
  PROVE  /\ MaskSize(count) \in Nat \ {0}
         /\ MaskBytes(count, byte) \in Seq(Byte)
         /\ Len(MaskBytes(count, byte)) = MaskSize(count)
         /\ MaskBytes(count, byte)[1] = byte
<1> DEFINE bits == count + CharBit - 1
           size == bits \div CharBit
<1>1. CharBit \in Nat /\ CharBit > 0 /\ bits \in Nat /\ bits >= CharBit
  BY CharBitAssumption
<1>2. MaskSize(count) = size
  BY DEF MaskSize
<1> HIDE DEF bits
<1>3. size \in Int /\ bits < CharBit * (size + 1)
  BY <1>1
<1> HIDE DEF size
<1>4. size >= 1
  BY <1>1, <1>3
<1>5. {} \in Byte
  BY DEF Byte
<1>6. MaskSize(count) \in Nat \ {0}
  BY <1>2, <1>3, <1>4
<1> DEFINE m == MaskSize(count)
           bytes == [k \in 1..m |-> IF k = 1 THEN byte ELSE {}]
<1>7. MaskBytes(count, byte) = bytes
  BY DEF MaskBytes
<1>8. m \in Nat /\ m > 0
  BY <1>6
<1> HIDE DEF m
<1>9. \A k \in 1..m : (IF k = 1 THEN byte ELSE {}) \in Byte
  BY <1>5
<1>10. bytes \in Seq(Byte) /\ Len(bytes) = m /\ bytes[1] = byte
  BY <1>8, <1>9
<1> QED
  BY <1>6, <1>7, <1>10 DEF m

\* So is the byte that a downloader sets.
LEMMA MaskIsByte ==
  ASSUME NEW n \in Nat, NEW held \in SUBSET Positions(n)
  PROVE  Mask(held) \in Byte
<1>1. ASSUME NEW i \in held, MissingBefore(held, i) < CharBit
      PROVE  MissingBefore(held, i) \in Positions(CharBit)
  <2>1. i \in Nat
    BY DEF Positions
  <2>2. MissingBefore(held, i) \in 0..i
    BY <2>1, MissingBound
  <2> QED
    BY <1>1, <2>1, <2>2, CharBitAssumption DEF Positions
<1> QED
  BY <1>1 DEF Mask, Byte

\* In the beginning nothing has been sent, received or confirmed.
LEMMA InitTyped == Init => Typed
<1> SUFFICES ASSUME Init PROVE Typed
  OBVIOUS
<1>1. entries \in [Peers -> Seq(Hash)]
  BY PeerSyncAssumption DEF Init
<1>2. OfferMax \in Nat /\ MaxCrashes \in Nat
  BY PeerSyncAssumption
<1>3. Positions(0) = {}
  BY DEF Positions
<1>4. TypeOK
  BY <1>1, <1>2, <1>3 DEF Init, TypeOK, DownloaderState, UploaderState, ReceiverState, DownAt, UpAt
<1>5. ThreadsOK
  BY DEF Init, ThreadsOK
<1> QED
  BY <1>4, <1>5 DEF Typed

-----------------------------------------------------------------------------
(* Which steps change what. *)

\* The steps that change the state of a downloader.
LEMMA DownloaderSteps ==
  ASSUME [Next]_vars
  PROVE  \/ UNCHANGED downloader
         \/ \E p \in Peers :
              \/ GetBatch(p) \/ SendUpdate(p) \/ GetNothing(p) \/ HashingDone(p)
              \/ SendByte(p) \/ ReceiveOffer(p) \/ ReceiveFile(p)
              \/ GoAstray(p) \/ ReadAstray(p) \/ DownloadEnd(p)
<1> USE DEF threads
<1>1. ASSUME NEW p \in Peers, Downloader(p)
      PROVE  \/ UNCHANGED downloader
             \/ GetBatch(p) \/ SendUpdate(p) \/ GetNothing(p) \/ HashingDone(p)
             \/ SendByte(p) \/ ReceiveOffer(p) \/ ReceiveFile(p) \/ GoAstray(p)
             \/ ReadAstray(p) \/ DownloadEnd(p)
  BY <1>1 DEF Downloader, Desync, FailAstray, DownloadCut, Abort
<1>2. ASSUME NEW p \in Peers, Uploader(p)
      PROVE  UNCHANGED downloader
  BY <1>2 DEF Uploader, ReceiveByte, LoadCount, CheckHashing, ScanNothing, SendOffer,
    ReceiveMask, UploadFile, UploadCut, Abort, SendScanned
<1>3. ASSUME NEW p \in Peers, Receiver(p) \/ Exit(p)
      PROVE  UNCHANGED downloader
  BY <1>3 DEF Receiver, ReceiveUpdate, ReceiveLate, EndOfUpdate, ReadClosed, Exit, Abort
<1>4. ASSUME NEW p \in Peers, Environment(p)
      PROVE  UNCHANGED downloader
  BY <1>4 DEF Environment, SpuriousWakeup, Crash, ConnectionReset, UpdateReset, Abort
<1> QED
  BY <1>1, <1>2, <1>3, <1>4 DEF Next, Terminated, vars

\* The steps that change the state of an uploader.
LEMMA UploaderSteps ==
  ASSUME [Next]_vars
  PROVE  \/ UNCHANGED uploader
         \/ \E p \in Peers :
              \/ SendUpdate(p) \/ HashingDone(p)
              \/ ReceiveByte(p) \/ LoadCount(p) \/ CheckHashing(p) \/ SpuriousWakeup(p)
              \/ ScanNothing(p) \/ SendOffer(p) \/ ReceiveMask(p) \/ UploadFile(p)
<1> USE DEF threads
<1>1. ASSUME NEW p \in Peers, Downloader(p)
      PROVE  UNCHANGED uploader \/ SendUpdate(p) \/ HashingDone(p)
  BY <1>1 DEF Downloader, GetBatch, GetNothing, SendByte, ReceiveOffer, ReceiveFile,
    Desync, GoAstray, ReadAstray, FailAstray, DownloadEnd, DownloadCut, Abort
<1>2. ASSUME NEW p \in Peers, Uploader(p)
      PROVE  \/ UNCHANGED uploader
             \/ ReceiveByte(p) \/ LoadCount(p) \/ CheckHashing(p) \/ ScanNothing(p)
             \/ SendOffer(p) \/ ReceiveMask(p) \/ UploadFile(p)
  BY <1>2 DEF Uploader, UploadCut, Abort
<1>3. ASSUME NEW p \in Peers, Receiver(p) \/ Exit(p)
      PROVE  UNCHANGED uploader
  BY <1>3 DEF Receiver, ReceiveUpdate, ReceiveLate, EndOfUpdate, ReadClosed, Exit, Abort
<1>4. ASSUME NEW p \in Peers, Environment(p)
      PROVE  UNCHANGED uploader \/ SpuriousWakeup(p)
  BY <1>4 DEF Environment, Crash, ConnectionReset, UpdateReset, Abort
<1> QED
  BY <1>1, <1>2, <1>3, <1>4 DEF Next, Terminated, vars

\* The steps that change the state of an update receiver.
LEMMA ReceiverSteps ==
  ASSUME [Next]_vars
  PROVE  \/ UNCHANGED receiver
         \/ \E p \in Peers : ReceiveUpdate(p) \/ ReceiveLate(p) \/ EndOfUpdate(p)
<1> USE DEF threads
<1>1. ASSUME NEW p \in Peers, Downloader(p)
      PROVE  UNCHANGED receiver
  BY <1>1 DEF Downloader, GetBatch, SendUpdate, GetNothing, HashingDone, SendByte,
    ReceiveOffer, ReceiveFile, Desync, GoAstray, ReadAstray, FailAstray, DownloadEnd,
    DownloadCut, Abort
<1>2. ASSUME NEW p \in Peers, Uploader(p)
      PROVE  UNCHANGED receiver
  BY <1>2 DEF Uploader, ReceiveByte, LoadCount, CheckHashing, ScanNothing, SendOffer,
    ReceiveMask, UploadFile, UploadCut, Abort, SendScanned
<1>3. ASSUME NEW p \in Peers, Receiver(p) \/ Exit(p)
      PROVE  UNCHANGED receiver \/ ReceiveUpdate(p) \/ ReceiveLate(p) \/ EndOfUpdate(p)
  BY <1>3 DEF Receiver, ReadClosed, Exit, Abort
<1>4. ASSUME NEW p \in Peers, Environment(p)
      PROVE  UNCHANGED receiver
  BY <1>4 DEF Environment, SpuriousWakeup, Crash, ConnectionReset, UpdateReset, Abort
<1> QED
  BY <1>1, <1>2, <1>3, <1>4 DEF Next, Terminated, vars

\* The steps that change the updates on their way.
LEMMA UpdatesSteps ==
  ASSUME [Next]_vars
  PROVE  \/ UNCHANGED updates
         \/ \E p \in Peers : SendUpdate(p) \/ ReceiveUpdate(p) \/ ReceiveLate(p)
<1> USE DEF net
<1>1. ASSUME NEW p \in Peers, Downloader(p)
      PROVE  UNCHANGED updates \/ SendUpdate(p)
  BY <1>1 DEF Downloader, GetBatch, GetNothing, HashingDone, SendByte, ReceiveOffer,
    ReceiveFile, Desync, GoAstray, ReadAstray, FailAstray, DownloadEnd, DownloadCut,
    Abort
<1>2. ASSUME NEW p \in Peers, Uploader(p)
      PROVE  UNCHANGED updates
  BY <1>2 DEF Uploader, ReceiveByte, LoadCount, CheckHashing, ScanNothing, SendOffer,
    ReceiveMask, UploadFile, UploadCut, Abort, SendScanned
<1>3. ASSUME NEW p \in Peers, Receiver(p) \/ Exit(p)
      PROVE  UNCHANGED updates \/ ReceiveUpdate(p) \/ ReceiveLate(p)
  BY <1>3 DEF Receiver, EndOfUpdate, ReadClosed, Exit, Abort
<1>4. ASSUME NEW p \in Peers, Environment(p)
      PROVE  UNCHANGED updates
  BY <1>4 DEF Environment, SpuriousWakeup, Crash, ConnectionReset, UpdateReset, Abort
<1> QED
  BY <1>1, <1>2, <1>3, <1>4 DEF Next, Terminated, vars

\* The steps that change what an uploader has written.
LEMMA StreamSteps ==
  ASSUME [Next]_vars
  PROVE  \/ UNCHANGED stream
         \/ \E p \in Peers :
              \/ ReceiveOffer(p) \/ ReceiveFile(p) \/ ReadAstray(p)
              \/ SendOffer(p) \/ UploadFile(p)
<1> USE DEF net
<1>1. ASSUME NEW p \in Peers, Downloader(p)
      PROVE  \/ UNCHANGED stream
             \/ ReceiveOffer(p) \/ ReceiveFile(p) \/ ReadAstray(p)
  BY <1>1 DEF Downloader, GetBatch, SendUpdate, GetNothing, HashingDone, SendByte,
    Desync, GoAstray, FailAstray, DownloadEnd, DownloadCut, Abort
<1>2. ASSUME NEW p \in Peers, Uploader(p)
      PROVE  UNCHANGED stream \/ SendOffer(p) \/ UploadFile(p)
  BY <1>2 DEF Uploader, ReceiveByte, LoadCount, CheckHashing, ScanNothing, ReceiveMask,
    UploadCut, Abort
<1>3. ASSUME NEW p \in Peers, Receiver(p) \/ Exit(p)
      PROVE  UNCHANGED stream
  BY <1>3 DEF Receiver, ReceiveUpdate, ReceiveLate, EndOfUpdate, ReadClosed, Exit, Abort
<1>4. ASSUME NEW p \in Peers, Environment(p)
      PROVE  UNCHANGED stream
  BY <1>4 DEF Environment, SpuriousWakeup, Crash, ConnectionReset, UpdateReset, Abort
<1> QED
  BY <1>1, <1>2, <1>3, <1>4 DEF Next, Terminated, vars

\* The steps that change what a downloader has written.
LEMMA AcksSteps ==
  ASSUME [Next]_vars
  PROVE  \/ UNCHANGED acks
         \/ \E p \in Peers :
              \/ SendByte(p) \/ ReceiveOffer(p) \/ ReadAstray(p)
              \/ ReceiveByte(p) \/ ReceiveMask(p)
<1> USE DEF net
<1>1. ASSUME NEW p \in Peers, Downloader(p)
      PROVE  \/ UNCHANGED acks
             \/ SendByte(p) \/ ReceiveOffer(p) \/ ReadAstray(p)
  BY <1>1 DEF Downloader, GetBatch, SendUpdate, GetNothing, HashingDone, ReceiveFile,
    Desync, GoAstray, FailAstray, DownloadEnd, DownloadCut, Abort
<1>2. ASSUME NEW p \in Peers, Uploader(p)
      PROVE  UNCHANGED acks \/ ReceiveByte(p) \/ ReceiveMask(p)
  BY <1>2 DEF Uploader, LoadCount, CheckHashing, ScanNothing, SendOffer, UploadFile,
    UploadCut, Abort, SendScanned
<1>3. ASSUME NEW p \in Peers, Receiver(p) \/ Exit(p)
      PROVE  UNCHANGED acks
  BY <1>3 DEF Receiver, ReceiveUpdate, ReceiveLate, EndOfUpdate, ReadClosed, Exit, Abort
<1>4. ASSUME NEW p \in Peers, Environment(p)
      PROVE  UNCHANGED acks
  BY <1>4 DEF Environment, SpuriousWakeup, Crash, ConnectionReset, UpdateReset, Abort
<1> QED
  BY <1>1, <1>2, <1>3, <1>4 DEF Next, Terminated, vars

\* The steps that change the status of a process.
LEMMA StatusSteps ==
  ASSUME [Next]_vars
  PROVE  \/ UNCHANGED status
         \/ \E p \in Peers : Abort(p) \/ ReceiveLate(p) \/ Exit(p) \/ Crash(p)
<1> USE DEF process
<1>1. ASSUME NEW p \in Peers, Downloader(p)
      PROVE  UNCHANGED status \/ Abort(p)
  BY <1>1 DEF Downloader, GetBatch, SendUpdate, GetNothing, HashingDone, SendByte,
    ReceiveOffer, ReceiveFile, Desync, GoAstray, ReadAstray, FailAstray, DownloadEnd,
    DownloadCut
<1>2. ASSUME NEW p \in Peers, Uploader(p)
      PROVE  UNCHANGED status \/ Abort(p)
  BY <1>2 DEF Uploader, ReceiveByte, LoadCount, CheckHashing, ScanNothing, SendOffer,
    ReceiveMask, UploadFile, UploadCut, SendScanned
<1>3. ASSUME NEW p \in Peers, Receiver(p) \/ Exit(p)
      PROVE  UNCHANGED status \/ Abort(p) \/ ReceiveLate(p) \/ Exit(p)
  BY <1>3 DEF Receiver, ReceiveUpdate, EndOfUpdate, ReadClosed
<1>4. ASSUME NEW p \in Peers, Environment(p)
      PROVE  UNCHANGED status \/ Abort(p) \/ Crash(p)
  BY <1>4 DEF Environment, SpuriousWakeup, ConnectionReset, UpdateReset
<1> QED
  BY <1>1, <1>2, <1>3, <1>4 DEF Next, Terminated, vars

\* Only a crash counts as one.
LEMMA CrashesSteps ==
  ASSUME [Next]_vars
  PROVE  UNCHANGED crashes \/ \E p \in Peers : Crash(p)
<1> USE DEF process
<1>1. ASSUME NEW p \in Peers, Downloader(p) PROVE UNCHANGED crashes
  BY <1>1 DEF Downloader, GetBatch, SendUpdate, GetNothing, HashingDone, SendByte,
    ReceiveOffer, ReceiveFile, Desync, GoAstray, ReadAstray, FailAstray, DownloadEnd,
    DownloadCut, Abort
<1>2. ASSUME NEW p \in Peers, Uploader(p) PROVE UNCHANGED crashes
  BY <1>2 DEF Uploader, ReceiveByte, LoadCount, CheckHashing, ScanNothing, SendOffer,
    SendScanned, ReceiveMask, UploadFile, UploadCut, Abort
<1>3. ASSUME NEW p \in Peers, Receiver(p) \/ Exit(p) PROVE UNCHANGED crashes
  BY <1>3 DEF Receiver, ReceiveUpdate, ReceiveLate, EndOfUpdate, ReadClosed, Exit, Abort
<1>4. ASSUME NEW p \in Peers, Environment(p) PROVE UNCHANGED crashes \/ Crash(p)
  BY <1>4 DEF Environment, SpuriousWakeup, ConnectionReset, UpdateReset, Abort
<1> QED
  BY <1>1, <1>2, <1>3, <1>4 DEF Next, Terminated, vars

\* No step changes the libraries.
LEMMA EntriesSteps == [Next]_vars => UNCHANGED entries
<1> USE DEF process
<1>1. ASSUME NEW p \in Peers, Downloader(p) PROVE UNCHANGED entries
  BY <1>1 DEF Downloader, GetBatch, SendUpdate, GetNothing, HashingDone, SendByte,
    ReceiveOffer, ReceiveFile, Desync, GoAstray, ReadAstray, FailAstray, DownloadEnd,
    DownloadCut, Abort
<1>2. ASSUME NEW p \in Peers, Uploader(p) PROVE UNCHANGED entries
  BY <1>2 DEF Uploader, ReceiveByte, LoadCount, CheckHashing, ScanNothing, SendOffer,
    SendScanned, ReceiveMask, UploadFile, UploadCut, Abort
<1>3. ASSUME NEW p \in Peers, Receiver(p) \/ Exit(p) \/ Environment(p) PROVE UNCHANGED entries
  BY <1>3 DEF Receiver, ReceiveUpdate, ReceiveLate, EndOfUpdate, ReadClosed, Exit,
    Environment, SpuriousWakeup, Crash, ConnectionReset, UpdateReset, Abort
<1> QED
  BY <1>1, <1>2, <1>3 DEF Next, Terminated, vars

-----------------------------------------------------------------------------
(* Every step keeps the types. *)

\* What TypeOK and ThreadsOK say of one variable.
DownloaderOK ==
  /\ downloader \in [Peers -> DownloaderState]
  /\ \A p \in Peers :
       /\ downloader[p].hasher_entry_count <= Len(entries[p])
       /\ downloader[p].at = "notify" => downloader[p].hasher_entry_count > 0
       /\ downloader[p].at = "files" => downloader[p].missing_hashes > 0
       /\ downloader[p].missing_hashes > 0 => downloader[p].at \in {"files", "astray"}

UploaderOK ==
  /\ uploader \in [Peers -> UploaderState]
  /\ \A p \in Peers :
       /\ uploader[p].total_entry_count <= downloader[p].hasher_entry_count
       /\ uploader[p].processed_entry_count <= uploader[p].total_entry_count
       /\ uploader[p].uploads \subseteq Positions(Len(uploader[p].missing_entries))
       /\ uploader[p].at = "files" <=> uploader[p].uploads # {}
       /\ uploader[p].at = "mask" => uploader[p].missing_entries # <<>>

\* Types, variable by variable.
LEMMA TypedParts ==
  Typed <=> /\ DownloaderOK /\ UploaderOK
            /\ entries \in Libraries
            /\ receiver \in [Peers -> ReceiverState]
            /\ updates \in [Peers -> Seq(Seq(Hash))]
            /\ stream \in [Peers -> Seq(Token)]
            /\ acks \in [Peers -> Seq(Byte)]
            /\ status \in [Peers -> {"running", "exited", "aborted"}]
            /\ crashes \in 0..MaxCrashes
BY DEF Typed, TypeOK, ThreadsOK, DownloaderOK, UploaderOK

\* An offer read from a stream has at least one hash and at most OfferMax, of
\* which it is then known how many are expected.
LEMMA OfferRead ==
  ASSUME Typed, NEW p \in Peers, Kind(Incoming(p), "offer")
  PROVE  LET hashes == Head(Incoming(p)).hashes
             n == Len(hashes)
             held == Held(p, hashes)
         IN  /\ hashes \in Seq(Hash) /\ n \in 1..OfferMax
             /\ held \in SUBSET Positions(n)
             /\ Cardinality(Expected(n, held)) \in 0..OfferMax
<1> DEFINE hashes == Head(Incoming(p)).hashes
           n == Len(hashes)
           held == Held(p, hashes)
<1>1. Incoming(p) \in Seq(Token) /\ Incoming(p) # <<>> /\ Head(Incoming(p)).kind = "offer"
  BY OtherPeer DEF Typed, TypeOK, Incoming, Kind
<1>2. Head(Incoming(p)) \in Token
  BY <1>1, HeadTailProperties
<1>3. hashes \in Seq(Hash) /\ n \in 1..OfferMax
  BY <1>1, <1>2 DEF Token
<1>4. OfferMax \in Nat
  BY PeerSyncAssumption
<1> HIDE DEF hashes, n
<1>5. held \in SUBSET Positions(n)
  BY DEF Held, n
<1>6. IsFiniteSet(Positions(n)) /\ Cardinality(Positions(n)) = n
  BY <1>3, <1>4, PositionsFinite
<1>7. Expected(n, held) \in SUBSET Positions(n)
  BY DEF Expected
<1>8. Cardinality(Expected(n, held)) \in Nat /\ Cardinality(Expected(n, held)) <= n
  BY <1>6, <1>7, FS_Subset, FS_CardinalityType
<1> QED
  BY <1>3, <1>4, <1>5, <1>8 DEF hashes, n

\* What passes for a hash_count is one.
LEMMA AstrayCount ==
  ASSUME Typed, NEW p \in Peers, GoAstray(p)
  PROVE  NameLength[Head(Incoming(p)).image] \in 0..OfferMax
<1>1. Incoming(p) \in Seq(Token) /\ Incoming(p) # <<>> /\ Head(Incoming(p)).kind = "file"
  BY OtherPeer DEF Typed, TypeOK, Incoming, Kind, GoAstray
<1>2. Head(Incoming(p)) \in Token
  BY <1>1, HeadTailProperties
<1>3. Head(Incoming(p)).image \in Hash
  BY <1>1, <1>2 DEF Token
<1>4. NameLength[Head(Incoming(p)).image] \in Nat \ {0} /\ OfferMax \in Nat
  BY <1>3, PeerSyncAssumption
<1> QED
  BY <1>4 DEF GoAstray

\* It is enough to look at the one downloader that a step changes.
LEMMA DownloaderSet ==
  ASSUME DownloaderOK, UNCHANGED entries, NEW p \in Peers, NEW d \in DownloaderState,
         downloader' = [downloader EXCEPT ![p] = d],
         d.hasher_entry_count <= Len(entries[p]),
         d.at = "notify" => d.hasher_entry_count > 0,
         d.at = "files" => d.missing_hashes > 0,
         d.missing_hashes > 0 => d.at \in {"files", "astray"}
  PROVE  DownloaderOK'
BY DEF DownloaderOK

\* Every step keeps the types of the downloaders.
LEMMA DownloaderTyped ==
  ASSUME Typed, [Next]_vars
  PROVE  DownloaderOK'
<1>1. DownloaderOK /\ UNCHANGED entries
  BY TypedParts, EntriesSteps
<1>2. OfferMax \in Nat \ {0} /\ UpdateMax \in Nat \ {0}
  BY PeerSyncAssumption
<1>3. \A p \in Peers : entries[p] \in Seq(Hash) /\ Len(entries[p]) \in Nat
  BY EntriesType DEF Typed, TypeOK
<1>4. CASE UNCHANGED downloader
  BY <1>1, <1>4 DEF DownloaderOK
<1>5. ASSUME NEW p \in Peers, GetBatch(p) PROVE DownloaderOK'
  <2> DEFINE count == downloader[p].hasher_entry_count + BatchSize(p)
             d == [downloader[p] EXCEPT !.hasher_entry_count = count, !.at = "notify"]
  <2>1. /\ downloader[p] \in DownloaderState /\ downloader[p].at = "get"
        /\ downloader[p].hasher_entry_count \in Nat /\ Unhashed(p) > 0
        /\ ~(downloader[p].missing_hashes > 0)
    BY <1>1, <1>5 DEF GetBatch, Downloads, DownloaderOK, DownloaderState
  <2>2. count \in Nat /\ count > 0 /\ count <= Len(entries[p])
    BY <1>2, <1>3, <2>1 DEF BatchSize, Unhashed
  <2>3. downloader' = [downloader EXCEPT ![p] = d]
    BY <1>1, <1>5 DEF GetBatch, DownloaderOK
  <2> HIDE DEF count
  <2>4. /\ d \in DownloaderState /\ d.hasher_entry_count = count
        /\ d.at = "notify" /\ d.missing_hashes = downloader[p].missing_hashes
    BY <2>1, <2>2 DEF DownloaderState, DownAt
  <2> HIDE DEF d
  <2> QED
    BY <1>1, <2>1, <2>2, <2>3, <2>4, DownloaderSet
<1>6. ASSUME NEW p \in Peers, SendUpdate(p) PROVE DownloaderOK'
  BY <1>1, <1>2, <1>6
  DEF SendUpdate, DownloaderOK, DownloaderState, DownAt, Downloads
<1>7. ASSUME NEW p \in Peers, GetNothing(p) PROVE DownloaderOK'
  BY <1>1, <1>2, <1>7
  DEF GetNothing, DownloaderOK, DownloaderState, DownAt, Downloads
<1>8. ASSUME NEW p \in Peers, HashingDone(p) PROVE DownloaderOK'
  BY <1>1, <1>2, <1>8
  DEF HashingDone, DownloaderOK, DownloaderState, DownAt, Downloads
<1>9. ASSUME NEW p \in Peers, SendByte(p) PROVE DownloaderOK'
  BY <1>1, <1>2, <1>9
  DEF SendByte, DownloaderOK, DownloaderState, DownAt, Downloads
<1>10. ASSUME NEW p \in Peers, ReceiveOffer(p) PROVE DownloaderOK'
  <2>1. PICK count \in 0..OfferMax : Expecting(p, count)
    BY <1>10, OfferRead DEF ReceiveOffer
  <2>2. PICK place \in DownAt : place = IF count = 0 THEN "offers" ELSE "files"
    BY DEF DownAt
  <2> DEFINE d == [downloader[p] EXCEPT !.missing_hashes = count, !.at = place]
  <2>3. downloader' = [downloader EXCEPT ![p] = d]
    BY <1>1, <2>1, <2>2 DEF Expecting, DownloaderOK
  <2>4. downloader[p] \in DownloaderState /\ downloader[p].hasher_entry_count <= Len(entries[p])
    BY <1>1 DEF DownloaderOK
  <2>5. d \in DownloaderState
    BY <2>4 DEF DownloaderState
  <2>6. /\ d.hasher_entry_count = downloader[p].hasher_entry_count
        /\ d.at = place /\ d.missing_hashes = count
    BY <2>4 DEF DownloaderState
  <2>7. place # "notify" /\ (place = "files" <=> count > 0)
    BY <1>2, <2>2
  <2> HIDE DEF d
  <2> QED
    BY <1>1, <2>3, <2>4, <2>5, <2>6, <2>7, DownloaderSet
<1>11. ASSUME NEW p \in Peers, ReceiveFile(p) PROVE DownloaderOK'
  <2>1. Incoming(p) \in Seq(Token) /\ Incoming(p) # <<>> /\ Head(Incoming(p)).kind = "file"
    BY <1>11, OtherPeer DEF Typed, TypeOK, Incoming, Kind, ReceiveFile
  <2>2. Head(Incoming(p)) \in Token
    BY <2>1, HeadTailProperties
  <2>3. Head(Incoming(p)).image \in Hash
    BY <2>1, <2>2 DEF Token
  <2>4. /\ downloader[p] \in DownloaderState
        /\ downloader[p].hasher_entry_count <= Len(entries[p])
    BY <1>1 DEF DownloaderOK
  <2>5. downloader[p].at = "files" /\ downloader[p].missing_hashes > 0
    BY <1>1, <1>11 DEF ReceiveFile, Downloads, DownloaderOK
  <2>6. downloader[p].store \in Seq(Hash) /\ downloader[p].missing_hashes \in 0..OfferMax
    BY <2>4 DEF DownloaderState
  <2>7. PICK count \in 0..OfferMax : count = downloader[p].missing_hashes - 1
    BY <1>2, <2>5, <2>6
  <2>8. PICK place \in DownAt : place = IF count = 0 THEN "offers" ELSE "files"
    BY DEF DownAt
  <2>9. PICK store \in Seq(Hash) : store = Append(downloader[p].store, Head(Incoming(p)).image)
    BY <2>3, <2>6, AppendProperties
  <2> DEFINE d == [downloader[p] EXCEPT !.store = store, !.missing_hashes = count, !.at = place]
  <2>10. downloader' = [downloader EXCEPT ![p] = d]
    BY <1>1, <1>11, <2>7, <2>8, <2>9 DEF ReceiveFile, DownloaderOK
  <2>11. d \in DownloaderState
    BY <2>4 DEF DownloaderState
  <2>12. /\ d.hasher_entry_count = downloader[p].hasher_entry_count
         /\ d.at = place /\ d.missing_hashes = count
    BY <2>4 DEF DownloaderState
  <2>13. place # "notify" /\ (place = "files" <=> count > 0)
    BY <1>2, <2>8
  <2> HIDE DEF d
  <2> QED
    BY <1>1, <2>4, <2>10, <2>11, <2>12, <2>13, DownloaderSet
<1>12. ASSUME NEW p \in Peers, NEW count \in 0..OfferMax,
              downloader' = [downloader EXCEPT ![p].missing_hashes = count, ![p].at = "astray"]
       PROVE  DownloaderOK'
  <2> DEFINE d == [downloader[p] EXCEPT !.missing_hashes = count, !.at = "astray"]
  <2>1. downloader[p] \in DownloaderState /\ downloader[p].hasher_entry_count <= Len(entries[p])
    BY <1>1 DEF DownloaderOK
  <2>2. downloader' = [downloader EXCEPT ![p] = d]
    BY <1>1, <1>12 DEF DownloaderOK
  <2>3. /\ d \in DownloaderState /\ d.hasher_entry_count = downloader[p].hasher_entry_count
        /\ d.at = "astray" /\ d.missing_hashes = count
    BY <1>12, <2>1 DEF DownloaderState, DownAt
  <2> HIDE DEF d
  <2> QED
    BY <1>1, <2>1, <2>2, <2>3, DownloaderSet
<1>13. ASSUME NEW p \in Peers, GoAstray(p) \/ ReadAstray(p) PROVE DownloaderOK'
  <2>1. CASE GoAstray(p)
    BY <1>12, <2>1, AstrayCount DEF GoAstray
  <2>2. CASE ReadAstray(p)
    <3>1. PICK count \in 0..OfferMax :
            downloader' = [downloader EXCEPT ![p].missing_hashes = count]
      BY <2>2 DEF ReadAstray
    <3>2. downloader[p] \in DownloaderState /\ downloader[p].at = "astray"
      BY <1>1, <2>2 DEF ReadAstray, Downloads, DownloaderOK
    <3>3. [downloader[p] EXCEPT !.missing_hashes = count]
            = [downloader[p] EXCEPT !.missing_hashes = count, !.at = "astray"]
      BY <3>2 DEF DownloaderState
    <3>4. downloader' = [downloader EXCEPT ![p].missing_hashes = count, ![p].at = "astray"]
      BY <1>1, <3>1, <3>3 DEF DownloaderOK
    <3> QED
      BY <1>12, <3>4
  <2> QED
    BY <1>13, <2>1, <2>2
<1>14. ASSUME NEW p \in Peers, DownloadEnd(p) PROVE DownloaderOK'
  <2> DEFINE d == [downloader[p] EXCEPT !.at = "done"]
  <2>1. /\ downloader[p] \in DownloaderState
        /\ downloader[p].hasher_entry_count <= Len(entries[p])
    BY <1>1 DEF DownloaderOK
  <2>2. downloader' = [downloader EXCEPT ![p] = d] /\ downloader[p].missing_hashes = 0
    BY <1>1, <1>14 DEF DownloadEnd, DownloaderOK
  <2>3. /\ d \in DownloaderState /\ d.hasher_entry_count = downloader[p].hasher_entry_count
        /\ d.at = "done" /\ d.missing_hashes = downloader[p].missing_hashes
    BY <2>1 DEF DownloaderState, DownAt
  <2> HIDE DEF d
  <2>4. d.at \notin {"notify", "files"} /\ ~(d.missing_hashes > 0)
    BY <2>2, <2>3
  <2>5. d.hasher_entry_count <= Len(entries[p])
    BY <2>1, <2>3
  <2> QED
    BY <1>1, <2>2, <2>3, <2>4, <2>5, DownloaderSet
<1> QED
  BY <1>4, <1>5, <1>6, <1>7, <1>8, <1>9, <1>10, <1>11, <1>13, <1>14, DownloaderSteps
\* The count of a hasher never goes back.
LEMMA CountsGrow ==
  ASSUME Typed, [Next]_vars, NEW p \in Peers
  PROVE  /\ downloader[p].hasher_entry_count \in Nat
         /\ downloader'[p].hasher_entry_count \in Nat
         /\ downloader[p].hasher_entry_count <= downloader'[p].hasher_entry_count
<1>1. DownloaderOK /\ DownloaderOK'
  BY TypedParts, DownloaderTyped
<1>2. UpdateMax \in Nat \ {0}
  BY PeerSyncAssumption
<1>3. entries[p] \in Seq(Hash) /\ Len(entries[p]) \in Nat
  BY EntriesType DEF Typed, TypeOK
<1>4. downloader[p].hasher_entry_count \in Nat /\ downloader'[p].hasher_entry_count \in Nat
  BY <1>1 DEF DownloaderOK, DownloaderState
<1>5. ASSUME NEW q \in Peers, GetBatch(q)
      PROVE  downloader[p].hasher_entry_count <= downloader'[p].hasher_entry_count
  <2>1. downloader'[p].hasher_entry_count =
          downloader[p].hasher_entry_count + (IF q = p THEN BatchSize(p) ELSE 0)
    BY <1>1, <1>4, <1>5 DEF GetBatch, DownloaderOK, DownloaderState
  <2>2. q = p => BatchSize(p) \in Nat
    BY <1>2, <1>3, <1>4, <1>5 DEF GetBatch, Unhashed, BatchSize
  <2> QED
    BY <1>4, <2>1, <2>2
<1> DEFINE Same == downloader[p].hasher_entry_count = downloader'[p].hasher_entry_count
<1> DEFINE typed == downloader \in [Peers -> DownloaderState]
<1>6. typed
  BY <1>1 DEF DownloaderOK
<1>7. ASSUME NEW q \in Peers, NEW value,
             \/ downloader' = [downloader EXCEPT ![q].missing_hashes = value]
             \/ downloader' = [downloader EXCEPT ![q].at = value]
      PROVE  Same
  <2>1. downloader[p] \in DownloaderState
    BY <1>6
  <2>2. CASE downloader' = [downloader EXCEPT ![q].missing_hashes = value]
    BY <1>6, <2>1, <2>2 DEF DownloaderState
  <2>3. CASE downloader' = [downloader EXCEPT ![q].at = value]
    BY <1>6, <2>1, <2>3 DEF DownloaderState
  <2> QED
    BY <1>7, <2>2, <2>3
<1>8. ASSUME NEW q \in Peers, SendUpdate(q) \/ GetNothing(q) \/ HashingDone(q) PROVE Same
  BY <1>7, <1>8 DEF SendUpdate, GetNothing, HashingDone
<1>9. ASSUME NEW q \in Peers, NEW count, Expecting(q, count) \/ GoAstray(q) PROVE Same
  <2>1. PICK n, place : downloader' = [downloader EXCEPT ![q].missing_hashes = n, ![q].at = place]
    BY <1>9 DEF Expecting, GoAstray
  <2> QED
    BY <1>6, <2>1 DEF DownloaderState
<1>10. ASSUME NEW q \in Peers, ReceiveFile(q) PROVE Same
  <2>1. PICK store, count, place :
          downloader' = [downloader EXCEPT ![q].store = store, ![q].missing_hashes = count,
                                           ![q].at = place]
    <3> DEFINE store == Append(downloader[q].store, Head(Incoming(q)).image)
               count == downloader[q].missing_hashes - 1
               place == IF count = 0 THEN "offers" ELSE "files"
    <3>1. downloader' = [downloader EXCEPT ![q].store = store, ![q].missing_hashes = count,
                                           ![q].at = place]
      BY <1>10 DEF ReceiveFile
    <3> QED
      BY <3>1
  <2> QED
    BY <1>6, <2>1 DEF DownloaderState
<1>11. ASSUME NEW q \in Peers,
              \/ SendByte(q) \/ ReceiveOffer(q) \/ GoAstray(q) \/ ReadAstray(q) \/ DownloadEnd(q)
       PROVE  Same
  BY <1>9, <1>7, <1>11
  DEF SendByte, ReceiveOffer, GoAstray, ReadAstray, DownloadEnd
<1>12. CASE UNCHANGED downloader
  BY <1>4, <1>12
<1> QED
  BY <1>4, <1>5, <1>8, <1>10, <1>11, <1>12, DownloaderSteps

\* It is enough to look at the one uploader that a step changes.
LEMMA UploaderSet ==
  ASSUME Typed, [Next]_vars, NEW p \in Peers, NEW u \in UploaderState,
         uploader' = [uploader EXCEPT ![p] = u],
         u.total_entry_count <= downloader[p].hasher_entry_count,
         u.processed_entry_count <= u.total_entry_count,
         u.uploads \subseteq Positions(Len(u.missing_entries)),
         u.at = "files" <=> u.uploads # {},
         u.at = "mask" => u.missing_entries # <<>>
  PROVE  UploaderOK'
<1>1. UploaderOK
  BY TypedParts
<1>2. uploader' \in [Peers -> UploaderState]
  BY <1>1 DEF UploaderOK
<1>3. ASSUME NEW q \in Peers
      PROVE  uploader'[q].total_entry_count <= downloader'[q].hasher_entry_count
  <2>1. uploader'[q].total_entry_count <= downloader[q].hasher_entry_count
    BY <1>1 DEF UploaderOK
  <2>2. uploader'[q].total_entry_count \in Nat
    BY <1>2 DEF UploaderState
  <2> QED
    BY <2>1, <2>2, CountsGrow
<1>4. ASSUME NEW q \in Peers
      PROVE  /\ uploader'[q].processed_entry_count <= uploader'[q].total_entry_count
             /\ uploader'[q].uploads \subseteq Positions(Len(uploader'[q].missing_entries))
             /\ uploader'[q].at = "files" <=> uploader'[q].uploads # {}
             /\ uploader'[q].at = "mask" => uploader'[q].missing_entries # <<>>
  <2>1. uploader'[q] = IF q = p THEN u ELSE uploader[q]
    BY <1>1 DEF UploaderOK
  <2> QED
    BY <1>1, <2>1 DEF UploaderOK
<1> QED
  BY <1>2, <1>3, <1>4 DEF UploaderOK

\* What is known of an uploader before a step.
LEMMA UploaderFacts ==
  ASSUME Typed, NEW p \in Peers
  PROVE  /\ uploader \in [Peers -> UploaderState] /\ uploader[p] \in UploaderState
         /\ uploader[p].total_entry_count \in Nat /\ uploader[p].processed_entry_count \in Nat
         /\ downloader[p].hasher_entry_count \in Nat
         /\ uploader[p].total_entry_count <= downloader[p].hasher_entry_count
         /\ uploader[p].processed_entry_count <= uploader[p].total_entry_count
         /\ uploader[p].missing_entries \in Seq(Hash)
         /\ uploader[p].uploads \subseteq Positions(Len(uploader[p].missing_entries))
         /\ uploader[p].at = "files" <=> uploader[p].uploads # {}
         /\ uploader[p].at = "mask" => uploader[p].missing_entries # <<>>
         /\ uploader[p].offers \in Seq(Seq(Hash))
BY TypedParts DEF UploaderOK, UploaderState, DownloaderOK, DownloaderState

\* A step that only moves an uploader, to a place where it has nothing to send.
LEMMA UploaderMoves ==
  ASSUME Typed, [Next]_vars, NEW p \in Peers, NEW place \in UpAt \ {"files", "mask"},
         uploader[p].at # "files", uploader' = [uploader EXCEPT ![p].at = place]
  PROVE  UploaderOK'
<1> DEFINE u == [uploader[p] EXCEPT !.at = place]
<1>1. uploader' = [uploader EXCEPT ![p] = u]
  BY UploaderFacts
<1>2. u \in UploaderState
  BY UploaderFacts DEF UploaderState
<1>3. /\ u.at = place /\ u.total_entry_count = uploader[p].total_entry_count
      /\ u.processed_entry_count = uploader[p].processed_entry_count
      /\ u.missing_entries = uploader[p].missing_entries /\ u.uploads = uploader[p].uploads
  BY UploaderFacts DEF UploaderState
<1> HIDE DEF u
<1>4. uploader[p].uploads = {} /\ place # "files" /\ place # "mask"
  BY UploaderFacts
<1>5. /\ u.total_entry_count <= downloader[p].hasher_entry_count
      /\ u.processed_entry_count <= u.total_entry_count
      /\ u.uploads \subseteq Positions(Len(u.missing_entries))
      /\ u.uploads = {}
  BY <1>3, <1>4, UploaderFacts
<1> QED
  BY <1>1, <1>2, <1>3, <1>4, <1>5, UploaderSet

\* Every step keeps the types of the uploaders.
LEMMA UploaderTyped ==
  ASSUME Typed, [Next]_vars
  PROVE  UploaderOK'
<1>1. UploaderOK
  BY TypedParts
<1>2. OfferMax \in Nat \ {0}
  BY PeerSyncAssumption
<1>3. CASE UNCHANGED uploader
  <2> SUFFICES ASSUME NEW q \in Peers
               PROVE  uploader[q].total_entry_count <= downloader'[q].hasher_entry_count
    BY <1>1, <1>3 DEF UploaderOK
  <2> QED
    BY UploaderFacts, CountsGrow
<1>4. ASSUME NEW p \in Peers, NotifyProgress(p) PROVE UploaderOK'
  <2>1. CASE uploader[p].at = "wait"
    <3>1. uploader' = [uploader EXCEPT ![p].at = "load"]
      BY <1>4, <2>1 DEF NotifyProgress
    <3>2. "load" \in UpAt \ {"files", "mask"}
      BY DEF UpAt
    <3> QED
      BY <2>1, <3>1, <3>2, UploaderMoves
  <2>2. CASE uploader[p].at # "wait"
    BY <1>3, <1>4, <2>2 DEF NotifyProgress
  <2> QED
    BY <2>1, <2>2
<1>5. ASSUME NEW p \in Peers, SendUpdate(p) \/ HashingDone(p) PROVE UploaderOK'
  BY <1>4, <1>5 DEF SendUpdate, HashingDone
<1>6. ASSUME NEW p \in Peers, ReceiveByte(p) \/ SpuriousWakeup(p) PROVE UploaderOK'
  <2>1. "load" \in UpAt \ {"files", "mask"}
    BY DEF UpAt
  <2>2. uploader[p].at # "files" /\ uploader' = [uploader EXCEPT ![p].at = "load"]
    BY <1>6 DEF ReceiveByte, SpuriousWakeup, Uploads
  <2> QED
    BY <2>1, <2>2, UploaderMoves
<1>7. ASSUME NEW p \in Peers, LoadCount(p) PROVE UploaderOK'
  <2>1. PICK count \in Nat : count = downloader[p].hasher_entry_count
    BY UploaderFacts
  <2>2. PICK place \in UpAt \ {"files", "mask"} :
          place = IF uploader[p].processed_entry_count = count THEN "check" ELSE "scan"
    BY DEF UpAt
  <2> DEFINE u == [uploader[p] EXCEPT !.total_entry_count = count, !.at = place]
  <2>3. uploader' = [uploader EXCEPT ![p] = u] /\ uploader[p].at = "load"
    BY <1>7, <2>1, <2>2, UploaderFacts DEF LoadCount, Uploads
  <2>4. u \in UploaderState
    BY UploaderFacts DEF UploaderState
  <2>5. /\ u.at = place /\ u.total_entry_count = count
        /\ u.processed_entry_count = uploader[p].processed_entry_count
        /\ u.missing_entries = uploader[p].missing_entries /\ u.uploads = uploader[p].uploads
    BY UploaderFacts DEF UploaderState
  <2> HIDE DEF u
  <2>6. uploader[p].processed_entry_count <= count /\ count <= downloader[p].hasher_entry_count
    BY <2>1, UploaderFacts
  <2> QED
    BY <2>3, <2>4, <2>5, <2>6, UploaderFacts, UploaderSet
<1>8. ASSUME NEW p \in Peers, CheckHashing(p) PROVE UploaderOK'
  <2>1. PICK place \in UpAt \ {"files", "mask"} :
          place = IF Hashing(p) THEN "wait" ELSE "done"
    BY DEF UpAt
  <2>2. uploader[p].at # "files" /\ uploader' = [uploader EXCEPT ![p].at = place]
    BY <1>8, <2>1 DEF CheckHashing, Uploads
  <2> QED
    BY <2>2, UploaderMoves
<1>9. ASSUME NEW p \in Peers, ScanNothing(p) PROVE UploaderOK'
  <2>1. PICK k \in Nat : k = ScanEnd(p) /\ k <= uploader[p].total_entry_count
    BY UploaderFacts, ScanEndType DEF Typed
  <2> DEFINE u == [uploader[p] EXCEPT !.at = "load", !.processed_entry_count = k,
                                      !.missing_entries = <<>>]
  <2>2. uploader' = [uploader EXCEPT ![p] = u] /\ uploader[p].at = "scan"
    BY <1>9, <2>1, UploaderFacts DEF ScanNothing, Uploads
  <2>3. <<>> \in Seq(Hash) /\ "load" \in UpAt
    BY DEF UpAt
  <2>4. u \in UploaderState
    BY <2>3, UploaderFacts DEF UploaderState
  <2>5. /\ u.at = "load" /\ u.total_entry_count = uploader[p].total_entry_count
        /\ u.processed_entry_count = k
        /\ u.missing_entries = <<>> /\ u.uploads = uploader[p].uploads
    BY UploaderFacts DEF UploaderState
  <2> HIDE DEF u
  <2>6. uploader[p].uploads = {}
    BY <2>2, UploaderFacts
  <2> QED
    BY <2>1, <2>2, <2>4, <2>5, <2>6, UploaderFacts, UploaderSet
<1>10. ASSUME NEW p \in Peers, SendOffer(p) PROVE UploaderOK'
  <2>1. PICK k \in Nat : k = ScanEnd(p) /\ k <= uploader[p].total_entry_count
    BY UploaderFacts, ScanEndType DEF Typed
  <2>2. PICK hashes \in Seq(Hash) : hashes = Scanned(p)
    BY ScannedEntries DEF Typed
  <2>3. PICK offers \in Seq(Seq(Hash)) : offers = Append(uploader[p].offers, hashes)
    <3>1. uploader[p].offers \in Seq(Seq(Hash))
      BY UploaderFacts
    <3> QED
      BY <3>1, AppendProperties
  <2> DEFINE u == [uploader[p] EXCEPT !.at = "mask", !.processed_entry_count = k,
                                      !.missing_entries = hashes, !.offers = offers]
  <2>4. uploader' = [uploader EXCEPT ![p] = u] /\ uploader[p].at = "scan" /\ hashes # <<>>
    BY <1>10, <2>1, <2>2, <2>3, UploaderFacts DEF SendOffer, SendScanned, Uploads
  <2>5. u \in UploaderState
    BY UploaderFacts DEF UploaderState, UpAt
  <2>6. /\ u.at = "mask" /\ u.total_entry_count = uploader[p].total_entry_count
        /\ u.processed_entry_count = k
        /\ u.missing_entries = hashes /\ u.uploads = uploader[p].uploads
    BY UploaderFacts DEF UploaderState
  <2> HIDE DEF u
  <2>7. uploader[p].uploads = {}
    BY <2>4, UploaderFacts
  <2> QED
    BY <2>1, <2>4, <2>5, <2>6, <2>7, UploaderFacts, UploaderSet
<1>11. ASSUME NEW p \in Peers, uploader[p].at \in {"mask", "files"},
              NEW rest \in SUBSET Positions(Len(uploader[p].missing_entries)),
              Sending(p, rest)
       PROVE  UploaderOK'
  <2>1. PICK place \in UpAt : place = IF rest = {} THEN "load" ELSE "files"
    BY DEF UpAt
  <2> DEFINE u == [uploader[p] EXCEPT !.uploads = rest, !.at = place]
  <2>2. uploader' = [uploader EXCEPT ![p] = u]
    BY <1>11, <2>1, UploaderFacts DEF Sending
  <2>3. rest \in SUBSET Nat
    BY DEF Positions
  <2>4. u \in UploaderState
    BY <2>3, UploaderFacts DEF UploaderState
  <2>5. /\ u.at = place /\ u.total_entry_count = uploader[p].total_entry_count
        /\ u.processed_entry_count = uploader[p].processed_entry_count
        /\ u.missing_entries = uploader[p].missing_entries /\ u.uploads = rest
    BY UploaderFacts DEF UploaderState
  <2> HIDE DEF u
  <2> QED
    BY <2>1, <2>2, <2>4, <2>5, UploaderFacts, UploaderSet
<1>12. ASSUME NEW p \in Peers, ReceiveMask(p) PROVE UploaderOK'
  <2>1. Uploaded(Len(uploader[p].missing_entries), Head(acks[p]))
          \in SUBSET Positions(Len(uploader[p].missing_entries))
    BY DEF Uploaded
  <2> QED
    BY <1>11, <1>12, <2>1 DEF ReceiveMask, Uploads
<1>13. ASSUME NEW p \in Peers, UploadFile(p) PROVE UploaderOK'
  <2>1. PICK k \in uploader[p].uploads :
          uploader[p].at = "files" /\ Sending(p, uploader[p].uploads \ {k})
    BY <1>13 DEF UploadFile, Uploads
  <2>2. uploader[p].uploads \ {k} \in SUBSET Positions(Len(uploader[p].missing_entries))
    BY UploaderFacts
  <2> QED
    BY <1>11, <2>1, <2>2
<1> QED
  BY <1>3, <1>5, <1>6, <1>7, <1>8, <1>9, <1>10, <1>12, <1>13, UploaderSteps

\* A quotient of natural numbers is one.
LEMMA QuotientType ==
  ASSUME NEW a \in Nat, NEW b \in Nat, b > 0
  PROVE  a \div b \in Nat
OBVIOUS

\* The batch of an update holds hashes of the peer.
LEMMA BatchType ==
  ASSUME NEW p \in Peers, entries[p] \in Seq(Hash),
         downloader[p].hasher_entry_count \in Nat \ {0},
         downloader[p].hasher_entry_count <= Len(entries[p])
  PROVE  Batch(p) \in Seq(Hash)
<1> DEFINE last == downloader[p].hasher_entry_count
           from == UpdateMax * ((last - 1) \div UpdateMax) + 1
<1>1. UpdateMax \in Nat /\ UpdateMax > 0 /\ last - 1 \in Nat /\ last \in Nat
  BY PeerSyncAssumption
<1>2. (last - 1) \div UpdateMax \in Nat
  BY <1>1, QuotientType
<1>3. from \in Nat /\ from >= 1
  BY <1>1, <1>2
<1>4. Batch(p) = SubSeq(entries[p], from, last)
  BY DEF Batch
<1> HIDE DEF last, from
<1>5. SubSeq(entries[p], from, last) \in Seq(Hash)
  BY <1>1, <1>3 DEF last
<1> QED
  BY <1>4, <1>5

\* A mask that an uploader waits for has at least one byte.
LEMMA AwaitedMask ==
  ASSUME Typed, NEW p \in Peers, uploader[p].at = "mask"
  PROVE  /\ Awaited(p) = MaskSize(Len(uploader[p].missing_entries))
         /\ Awaited(p) \in Nat \ {0}
         /\ Len(uploader[p].missing_entries) \in Nat \ {0}
<1>1. uploader[p].missing_entries \in Seq(Hash) /\ uploader[p].missing_entries # <<>>
  BY UploaderFacts
<1>2. Len(uploader[p].missing_entries) \in Nat \ {0}
  BY <1>1, EmptySeq
<1>3. {} \in Byte
  BY DEF Byte
<1>4. MaskSize(Len(uploader[p].missing_entries)) \in Nat \ {0}
  BY <1>2, <1>3, MaskBytesType
<1> QED
  BY <1>2, <1>4 DEF Awaited

\* Every step keeps the types of the update receivers.
LEMMA ReceiverTyped ==
  ASSUME Typed, [Next]_vars
  PROVE  receiver' \in [Peers -> ReceiverState]
<1>1. receiver \in [Peers -> ReceiverState] /\ updates \in [Peers -> Seq(Seq(Hash))]
  BY TypedParts
<1>2. ASSUME NEW p \in Peers, ReceiveUpdate(p) PROVE receiver' \in [Peers -> ReceiverState]
  <2>1. PICK k \in DOMAIN updates[Other(p)] :
          receiver' = [receiver EXCEPT
            ![p].received_hashes = @ \cup Taken(p, updates[Other(p)][k]),
            ![p].at = IF Updated(p) THEN "done" ELSE "reading"]
    BY <1>2 DEF ReceiveUpdate
  <2>2. updates[Other(p)][k] \in Seq(Hash)
    BY <1>1, OtherPeer
  <2>3. Taken(p, updates[Other(p)][k]) \in SUBSET Hash
    BY <2>2 DEF Taken, ToSet
  <2>4. PICK place \in {"reading", "done"} : place = IF Updated(p) THEN "done" ELSE "reading"
    OBVIOUS
  <2>5. receiver[p] \in ReceiverState
    BY <1>1
  <2>6. PICK hashes \in SUBSET Hash :
          hashes = receiver[p].received_hashes \cup Taken(p, updates[Other(p)][k])
    BY <2>3, <2>5 DEF ReceiverState
  <2>7. receiver' = [receiver EXCEPT ![p] = [@ EXCEPT !.received_hashes = hashes, !.at = place]]
    BY <1>1, <2>1, <2>4, <2>6
  <2>8. [receiver[p] EXCEPT !.received_hashes = hashes, !.at = place] \in ReceiverState
    BY <2>5 DEF ReceiverState
  <2> QED
    BY <1>1, <2>7, <2>8
<1>3. ASSUME NEW p \in Peers, ReceiveLate(p) \/ EndOfUpdate(p)
      PROVE  receiver' \in [Peers -> ReceiverState]
  BY <1>1, <1>3 DEF ReceiveLate, EndOfUpdate, ReceiverState
<1> QED
  BY <1>1, <1>2, <1>3, ReceiverSteps

\* Without one of its elements a sequence is one of the same elements.
LEMMA RemoveAtType ==
  ASSUME NEW T, NEW s \in Seq(T), NEW k \in DOMAIN s
  PROVE  RemoveAt(s, k) \in Seq(T)
BY DEF RemoveAt

\* Every step keeps the types of the updates.
LEMMA UpdatesTyped ==
  ASSUME Typed, [Next]_vars
  PROVE  updates' \in [Peers -> Seq(Seq(Hash))]
<1>1. updates \in [Peers -> Seq(Seq(Hash))]
  BY TypedParts
<1>2. ASSUME NEW p \in Peers, SendUpdate(p) PROVE updates' \in [Peers -> Seq(Seq(Hash))]
  <2>1. entries[p] \in Seq(Hash)
    BY EntriesType DEF Typed, TypeOK
  <2>2. downloader[p].hasher_entry_count \in Nat \ {0}
    <3>1. downloader[p].hasher_entry_count \in Nat
      BY UploaderFacts
    <3>2. downloader[p].hasher_entry_count > 0
      BY <1>2, TypedParts DEF SendUpdate, Downloads, DownloaderOK
    <3> QED
      BY <3>1, <3>2
  <2>3. downloader[p].hasher_entry_count <= Len(entries[p])
    BY TypedParts DEF DownloaderOK
  <2>4. Batch(p) \in Seq(Hash)
    BY <2>1, <2>2, <2>3, BatchType
  <2>5. Append(updates[p], Batch(p)) \in Seq(Seq(Hash))
    BY <1>1, <2>4, AppendProperties
  <2>6. updates' = [updates EXCEPT ![p] = Append(updates[p], Batch(p))]
    BY <1>2 DEF SendUpdate
  <2> QED
    BY <1>1, <2>5, <2>6
<1>3. ASSUME NEW p \in Peers, ReceiveUpdate(p) \/ ReceiveLate(p)
      PROVE  updates' \in [Peers -> Seq(Seq(Hash))]
  <2>1. PICK k \in DOMAIN updates[Other(p)] :
          updates' = [updates EXCEPT ![Other(p)] = RemoveAt(@, k)]
    BY <1>3 DEF ReceiveUpdate, ReceiveLate
  <2>2. RemoveAt(updates[Other(p)], k) \in Seq(Seq(Hash))
    BY <1>1, OtherPeer, RemoveAtType
  <2> QED
    BY <1>1, <2>1, <2>2
<1> QED
  BY <1>1, <1>2, <1>3, UpdatesSteps

\* Every step keeps the types of what uploaders write.
LEMMA StreamTyped ==
  ASSUME Typed, [Next]_vars
  PROVE  stream' \in [Peers -> Seq(Token)]
<1>1. stream \in [Peers -> Seq(Token)]
  BY TypedParts
<1>2. ASSUME NEW p \in Peers, Incoming(p) # <<>>, Read(p) PROVE stream' \in [Peers -> Seq(Token)]
  <2>1. stream[Other(p)] \in Seq(Token) /\ stream[Other(p)] # <<>>
    BY <1>1, <1>2, OtherPeer DEF Incoming
  <2>2. Tail(stream[Other(p)]) \in Seq(Token)
    BY <2>1, HeadTailProperties
  <2> QED
    BY <1>1, <1>2, <2>2 DEF Read
<1>3. ASSUME NEW p \in Peers,
             ReceiveOffer(p) \/ ReceiveFile(p) \/ ReadAstray(p)
      PROVE  stream' \in [Peers -> Seq(Token)]
  BY <1>2, <1>3 DEF ReceiveOffer, ReceiveFile, ReadAstray, Kind
<1>4. ASSUME NEW p \in Peers, NEW token \in Token,
             stream' = [stream EXCEPT ![p] = Append(@, token)]
      PROVE  stream' \in [Peers -> Seq(Token)]
  <2>1. Append(stream[p], token) \in Seq(Token)
    BY <1>1, AppendProperties
  <2> QED
    BY <1>1, <1>4, <2>1
<1>5. ASSUME NEW p \in Peers, SendOffer(p) PROVE stream' \in [Peers -> Seq(Token)]
  <2>1. Scanned(p) \in Seq(Hash) /\ Len(Scanned(p)) \in 1..OfferMax
    <3>1. Scanned(p) \in Seq(Hash) /\ Len(Scanned(p)) <= OfferMax
      BY ScannedEntries DEF Typed
    <3>2. Scanned(p) # <<>>
      BY <1>5 DEF SendOffer, SendScanned
    <3>3. OfferMax \in Nat
      BY PeerSyncAssumption
    <3> QED
      BY <3>1, <3>2, <3>3, EmptySeq
  <2>2. OfferOf(Scanned(p)) \in Token
    BY <2>1 DEF OfferOf, Token
  <2> QED
    BY <1>4, <1>5, <2>2 DEF SendOffer, SendScanned
<1>6. ASSUME NEW p \in Peers, UploadFile(p) PROVE stream' \in [Peers -> Seq(Token)]
  <2>1. PICK k \in uploader[p].uploads : stream' =
          [stream EXCEPT ![p] = Append(@, FileOf(uploader[p].missing_entries[k + 1]))]
    BY <1>6 DEF UploadFile
  <2>2. uploader[p].missing_entries \in Seq(Hash) /\ k \in Positions(Len(uploader[p].missing_entries))
    BY UploaderFacts
  <2>3. uploader[p].missing_entries[k + 1] \in Hash
    BY <2>2 DEF Positions
  <2>4. FileOf(uploader[p].missing_entries[k + 1]) \in Token
    BY <2>3 DEF FileOf, Token
  <2> QED
    BY <1>4, <2>1, <2>4
<1> QED
  BY <1>1, <1>3, <1>5, <1>6, StreamSteps

\* Every step keeps the types of what downloaders write.
LEMMA AcksTyped ==
  ASSUME Typed, [Next]_vars
  PROVE  acks' \in [Peers -> Seq(Byte)]
<1>1. acks \in [Peers -> Seq(Byte)]
  BY TypedParts
<1>2. OfferMax \in Nat \ {0} /\ \A h \in Hash : NameLength[h] \in Nat \ {0}
  BY PeerSyncAssumption
<1>3. ASSUME NEW p \in Peers, NEW byte \in Byte, NEW n \in Nat \ {0},
             acks' = [acks EXCEPT ![Other(p)] = @ \o MaskBytes(n, byte)]
      PROVE  acks' \in [Peers -> Seq(Byte)]
  <2>1. acks[Other(p)] \in Seq(Byte) /\ MaskBytes(n, byte) \in Seq(Byte)
    BY <1>1, OtherPeer, MaskBytesType
  <2>2. acks[Other(p)] \o MaskBytes(n, byte) \in Seq(Byte)
    BY <2>1, ConcatProperties
  <2> QED
    BY <1>1, <1>3, <2>2
<1>4. ASSUME NEW p \in Peers, SendByte(p) PROVE acks' \in [Peers -> Seq(Byte)]
  <2>1. PICK byte \in Byte : acks' = [acks EXCEPT ![Other(p)] = Append(@, byte)]
    BY <1>4 DEF SendByte
  <2>2. Append(acks[Other(p)], byte) \in Seq(Byte)
    BY <1>1, OtherPeer, AppendProperties
  <2> QED
    BY <1>1, <2>1, <2>2
<1>5. ASSUME NEW p \in Peers, ReceiveOffer(p) PROVE acks' \in [Peers -> Seq(Byte)]
  <2> DEFINE n == Len(Head(Incoming(p)).hashes)
             held == Held(p, Head(Incoming(p)).hashes)
  <2>1. n \in 1..OfferMax /\ held \in SUBSET Positions(n)
    BY <1>5, OfferRead DEF ReceiveOffer
  <2>2. acks' = [acks EXCEPT ![Other(p)] = @ \o MaskBytes(n, Mask(held))]
    BY <1>5 DEF ReceiveOffer
  <2> HIDE DEF n, held
  <2>3. n \in Nat \ {0}
    BY <1>2, <2>1
  <2>4. Mask(held) \in Byte
    BY <2>1, <2>3, MaskIsByte
  <2> QED
    BY <1>3, <2>2, <2>3, <2>4
<1>6. ASSUME NEW p \in Peers, ReadAstray(p) PROVE acks' \in [Peers -> Seq(Byte)]
  <2>1. CASE UNCHANGED acks
    BY <1>1, <2>1
  <2>2. CASE \E n \in 1..OfferMax, byte \in Byte :
               acks' = [acks EXCEPT ![Other(p)] = @ \o MaskBytes(n, byte)]
    <3>1. PICK n \in 1..OfferMax, byte \in Byte :
            acks' = [acks EXCEPT ![Other(p)] = @ \o MaskBytes(n, byte)]
      BY <2>2
    <3>2. n \in Nat \ {0}
      BY <1>2
    <3> QED
      BY <1>3, <3>1, <3>2
  <2> QED
    BY <1>6, <2>1, <2>2 DEF ReadAstray
<1>7. ASSUME NEW p \in Peers, ReceiveByte(p) PROVE acks' \in [Peers -> Seq(Byte)]
  <2>1. acks[p] # <<>> /\ acks' = [acks EXCEPT ![p] = Tail(acks[p])]
    BY <1>7 DEF ReceiveByte
  <2>2. Tail(acks[p]) \in Seq(Byte)
    BY <1>1, <2>1, HeadTailProperties
  <2> QED
    BY <1>1, <2>1, <2>2
<1>8. ASSUME NEW p \in Peers, ReceiveMask(p) PROVE acks' \in [Peers -> Seq(Byte)]
  <2> DEFINE m == Awaited(p)
  <2>1. Uploads(p, "mask") /\ acks' = [acks EXCEPT ![p] = SubSeq(acks[p], m + 1, Len(acks[p]))]
    BY <1>8 DEF ReceiveMask
  <2>2. m \in Nat \ {0}
    BY <2>1, AwaitedMask DEF Uploads
  <2> HIDE DEF m
  <2>3. acks[p] \in Seq(Byte)
    BY <1>1
  <2>4. SubSeq(acks[p], m + 1, Len(acks[p])) \in Seq(Byte)
    BY <2>2, <2>3
  <2> QED
    BY <1>1, <2>1, <2>4
<1> QED
  BY <1>1, <1>4, <1>5, <1>6, <1>7, <1>8, AcksSteps

\* Every step keeps the types of the statuses.
LEMMA StatusTyped ==
  ASSUME Typed, [Next]_vars
  PROVE  /\ status' \in [Peers -> {"running", "exited", "aborted"}]
         /\ crashes' \in 0..MaxCrashes
<1>1. status \in [Peers -> {"running", "exited", "aborted"}] /\ crashes \in 0..MaxCrashes
  BY TypedParts
<1>2. status' \in [Peers -> {"running", "exited", "aborted"}]
  BY <1>1, StatusSteps DEF Abort, ReceiveLate, Exit, Crash
<1>3. MaxCrashes \in Nat
  BY PeerSyncAssumption
<1>4. crashes' \in 0..MaxCrashes
  BY <1>1, <1>3, CrashesSteps DEF Crash
<1> QED
  BY <1>2, <1>4

\* Every step keeps all the types.
LEMMA NextTyped == Typed /\ [Next]_vars => Typed'
<1> SUFFICES ASSUME Typed, [Next]_vars PROVE Typed'
  OBVIOUS
<1>1. entries \in Libraries /\ UNCHANGED entries
  BY TypedParts, EntriesSteps
<1>2. DownloaderOK' /\ UploaderOK'
  BY DownloaderTyped, UploaderTyped
<1>3. /\ receiver' \in [Peers -> ReceiverState]
      /\ updates' \in [Peers -> Seq(Seq(Hash))]
      /\ stream' \in [Peers -> Seq(Token)]
      /\ acks' \in [Peers -> Seq(Byte)]
      /\ status' \in [Peers -> {"running", "exited", "aborted"}]
      /\ crashes' \in 0..MaxCrashes
  BY ReceiverTyped, UpdatesTyped, StreamTyped, AcksTyped, StatusTyped
<1> QED
  BY <1>1, <1>2, <1>3 DEF Typed, TypeOK, ThreadsOK, DownloaderOK, UploaderOK

\* The types hold throughout.
LEMMA AlwaysTyped == Spec => []Typed
BY InitTyped, NextTyped, PTL DEF Spec

\* Threads and messages keep to their types; in particular no count runs ahead
\* of what the hasher has found, and an offer never exceeds a packet.
THEOREM TypeCorrect == Spec => []TypeOK
<1>1. Typed => TypeOK
  BY DEF Typed
<1> QED
  BY <1>1, AlwaysTyped, PTL
-----------------------------------------------------------------------------
(* What is offered. *)

\* Before the end of the update nothing is offered, and nothing is confirmed
\* after it.
OffersOK ==
  /\ \A p \in Peers : uploader[p].at = "byte" => uploader[p].offers = <<>>
  /\ OffersAvoidUpdate

\* The offers of a peer grow by what is scanned, and by nothing else; a thread
\* that has seen the end of the update has seen it for good.
LEMMA OffersStep ==
  ASSUME Typed, [Next]_vars, NEW p \in Peers
  PROVE  /\ \/ uploader'[p].offers = uploader[p].offers
            \/ /\ uploader[p].at = "scan" /\ uploader'[p].at = "mask"
               /\ uploader'[p].offers = Append(uploader[p].offers, Scanned(p))
               /\ UNCHANGED receiver
         /\ uploader'[p].at = "byte" => uploader[p].at = "byte"
<1>1. uploader \in [Peers -> UploaderState]
  BY UploaderFacts
<1> DEFINE Kept == /\ uploader'[p].offers = uploader[p].offers
                   /\ uploader'[p].at = "byte" => uploader[p].at = "byte"
<1>2. CASE UNCHANGED uploader
  BY <1>2
<1>3. ASSUME NEW q \in Peers, NEW place \in UpAt \ {"byte"},
             uploader' = [uploader EXCEPT ![q].at = place]
      PROVE  Kept
  BY <1>1, <1>3 DEF UploaderState
<1>4. "load" \in UpAt \ {"byte"}
  BY DEF UpAt
<1>5. ASSUME NEW q \in Peers, SendUpdate(q) \/ HashingDone(q) \/ ReceiveByte(q) \/ SpuriousWakeup(q)
      PROVE  Kept
  BY <1>2, <1>3, <1>4, <1>5 DEF SendUpdate, HashingDone, NotifyProgress, ReceiveByte, SpuriousWakeup
<1>6. ASSUME NEW q \in Peers, CheckHashing(q) PROVE Kept
  <2>1. PICK place \in UpAt \ {"byte"} : place = IF Hashing(q) THEN "wait" ELSE "done"
    BY DEF UpAt
  <2> QED
    BY <1>3, <1>6, <2>1 DEF CheckHashing
<1>7. ASSUME NEW q \in Peers, LoadCount(q) PROVE Kept
  <2>1. PICK place, count :
          /\ place \in UpAt \ {"byte"}
          /\ uploader' = [uploader EXCEPT ![q].total_entry_count = count, ![q].at = place]
    <3>1. PICK place \in UpAt \ {"byte"} :
            place = IF uploader[q].processed_entry_count = downloader[q].hasher_entry_count
                    THEN "check" ELSE "scan"
      BY DEF UpAt
    <3> QED
      BY <1>7, <3>1 DEF LoadCount
  <2> QED
    BY <1>1, <2>1 DEF UploaderState
<1>8. ASSUME NEW q \in Peers, ScanNothing(q) PROVE Kept
  <2>1. PICK k : uploader' = [uploader EXCEPT ![q].at = "load", ![q].processed_entry_count = k,
                                              ![q].missing_entries = <<>>]
    BY <1>8 DEF ScanNothing
  <2> QED
    BY <1>1, <2>1 DEF UploaderState
<1>9. ASSUME NEW q \in Peers, NEW rest, Sending(q, rest) PROVE Kept
  <2>1. PICK place \in UpAt \ {"byte"} : place = IF rest = {} THEN "load" ELSE "files"
    BY DEF UpAt
  <2>2. uploader' = [uploader EXCEPT ![q].uploads = rest, ![q].at = place]
    BY <1>9, <2>1 DEF Sending
  <2> QED
    BY <1>1, <2>1, <2>2 DEF UploaderState
<1>10. ASSUME NEW q \in Peers, ReceiveMask(q) \/ UploadFile(q) PROVE Kept
  BY <1>9, <1>10 DEF ReceiveMask, UploadFile
<1>11. ASSUME NEW q \in Peers, SendOffer(q)
       PROVE  \/ Kept
              \/ /\ uploader[p].at = "scan" /\ uploader'[p].at = "mask"
                 /\ uploader'[p].offers = Append(uploader[p].offers, Scanned(p))
                 /\ UNCHANGED receiver
  <2>1. PICK k, hashes, offers :
          /\ hashes = Scanned(q) /\ offers = Append(uploader[q].offers, hashes)
          /\ uploader' = [uploader EXCEPT ![q].at = "mask", ![q].processed_entry_count = k,
                                          ![q].missing_entries = hashes, ![q].offers = offers]
    BY <1>11 DEF SendOffer, SendScanned
  <2>2. UNCHANGED receiver /\ uploader[q].at = "scan"
    BY <1>11 DEF SendOffer, SendScanned, Uploads
  <2>3. CASE q = p
    BY <1>1, <2>1, <2>2, <2>3 DEF UploaderState
  <2>4. CASE q # p
    BY <1>1, <2>1, <2>4
  <2> QED
    BY <2>3, <2>4
<1> QED
  BY <1>2, <1>5, <1>6, <1>7, <1>8, <1>10, <1>11, UploaderSteps

\* A receiver takes hashes only while its uploader waits for the end of the update.
LEMMA HashesStep ==
  ASSUME Typed, [Next]_vars, NEW p \in Peers
  PROVE  \/ receiver'[p].received_hashes = receiver[p].received_hashes
         \/ /\ uploader[p].at = "byte" /\ UNCHANGED uploader
            /\ \E k \in DOMAIN updates[Other(p)] :
                 receiver'[p].received_hashes =
                   receiver[p].received_hashes \cup ToSet(updates[Other(p)][k])
<1>1. receiver \in [Peers -> ReceiverState]
  BY TypedParts
<1>2. ASSUME NEW q \in Peers, ReceiveUpdate(q)
      PROVE  \/ receiver'[p].received_hashes = receiver[p].received_hashes
             \/ /\ uploader[p].at = "byte" /\ UNCHANGED uploader
                /\ \E k \in DOMAIN updates[Other(p)] :
                     receiver'[p].received_hashes =
                       receiver[p].received_hashes \cup ToSet(updates[Other(p)][k])
  <2>1. PICK k, hashes, place :
          /\ k \in DOMAIN updates[Other(q)]
          /\ hashes = receiver[q].received_hashes \cup Taken(q, updates[Other(q)][k])
          /\ receiver' = [receiver EXCEPT ![q].received_hashes = hashes, ![q].at = place]
    <3>1. PICK k \in DOMAIN updates[Other(q)] : receiver' = [receiver EXCEPT
            ![q].received_hashes = @ \cup Taken(q, updates[Other(q)][k]),
            ![q].at = IF Updated(q) THEN "done" ELSE "reading"]
      BY <1>2 DEF ReceiveUpdate
    <3>2. PICK place : place = IF Updated(q) THEN "done" ELSE "reading"
      OBVIOUS
    <3> QED
      BY <3>1, <3>2
  <2>2. UNCHANGED uploader
    BY <1>2 DEF ReceiveUpdate
  <2>3. CASE q = p
    <3>1. receiver'[p].received_hashes = hashes
      BY <1>1, <2>1, <2>3 DEF ReceiverState
    <3>2. CASE Updated(p)
      BY <2>1, <2>3, <3>1, <3>2 DEF Taken
    <3>3. CASE ~Updated(p)
      BY <2>1, <2>2, <2>3, <3>1, <3>3 DEF Taken, Updated
    <3> QED
      BY <3>2, <3>3
  <2>4. CASE q # p
    BY <1>1, <2>1, <2>4
  <2> QED
    BY <2>3, <2>4
<1>3. ASSUME NEW q \in Peers, ReceiveLate(q) \/ EndOfUpdate(q)
      PROVE  receiver'[p].received_hashes = receiver[p].received_hashes
  BY <1>1, <1>3 DEF ReceiveLate, EndOfUpdate, ReceiverState
<1> QED
  BY <1>2, <1>3, ReceiverSteps

\* Every step keeps the offers and what has been confirmed apart.
LEMMA OffersOKStep ==
  ASSUME Typed, OffersOK, [Next]_vars
  PROVE  OffersOK'
<1>1. ASSUME NEW p \in Peers, uploader'[p].at = "byte" PROVE uploader'[p].offers = <<>>
  BY <1>1, OffersStep DEF OffersOK
<1>2. ASSUME NEW p \in Peers, NEW k \in DOMAIN uploader'[p].offers
      PROVE  ToSet(uploader'[p].offers[k]) \cap receiver'[p].received_hashes = {}
  <2>1. CASE uploader'[p].offers = uploader[p].offers
    <3>1. ToSet(uploader[p].offers[k]) \cap receiver[p].received_hashes = {}
      BY <1>2, <2>1 DEF OffersOK, OffersAvoidUpdate
    <3>2. receiver'[p].received_hashes = receiver[p].received_hashes
      <4> SUFFICES ASSUME uploader[p].at = "byte" PROVE FALSE
        BY HashesStep
      <4>1. uploader[p].offers = <<>>
        BY DEF OffersOK
      <4> QED
        BY <1>2, <2>1, <4>1
    <3> QED
      BY <2>1, <3>1, <3>2
  <2>2. CASE /\ uploader'[p].offers = Append(uploader[p].offers, Scanned(p))
             /\ UNCHANGED receiver
    <3>1. uploader[p].offers \in Seq(Seq(Hash)) /\ Scanned(p) \in Seq(Hash)
      BY UploaderFacts, ScannedEntries DEF Typed
    <3>2. CASE k = Len(uploader[p].offers) + 1
      <4>1. uploader'[p].offers[k] = Scanned(p)
        BY <2>2, <3>1, <3>2, AppendProperties
      <4>2. \A i \in DOMAIN Scanned(p) : Scanned(p)[i] \notin receiver[p].received_hashes
        BY <3>1, ScannedEntries DEF Typed
      <4> QED
        BY <2>2, <4>1, <4>2 DEF ToSet
    <3>3. CASE k # Len(uploader[p].offers) + 1
      <4>1. k \in DOMAIN uploader[p].offers /\ uploader'[p].offers[k] = uploader[p].offers[k]
        <5>1. k \in 1..(Len(uploader[p].offers) + 1)
          BY <1>2, <2>2, <3>1, AppendProperties
        <5>2. k \in 1..Len(uploader[p].offers)
          BY <3>1, <3>3, <5>1
        <5> QED
          BY <2>2, <3>1, <5>2, AppendProperties
      <4> QED
        BY <2>2, <4>1 DEF OffersOK, OffersAvoidUpdate
    <3> QED
      BY <3>2, <3>3
  <2> QED
    BY <2>1, <2>2, OffersStep
<1> QED
  BY <1>1, <1>2 DEF OffersOK, OffersAvoidUpdate

\* What the update has confirmed is never offered, nor confirmed once offered.
THEOREM OffersAvoid == Spec => []OffersAvoidUpdate
<1>1. Init => OffersOK
  BY DEF Init, OffersOK, OffersAvoidUpdate
<1>2. Typed /\ OffersOK /\ [Next]_vars => OffersOK'
  BY OffersOKStep
<1>3. OffersOK => OffersAvoidUpdate
  BY DEF OffersOK
<1> QED
  BY <1>1, <1>2, <1>3, AlwaysTyped, PTL DEF Spec
-----------------------------------------------------------------------------
(* What holds between the uploader of a peer p and the downloader of the   *)
(* other one, and what is on its way from the one to the other and back.   *)

\* Before the downloader reads its first offer.
Early == {"get", "notify", "last", "byte"}

\* The one that the uploader of p serves, and the offer it was made last.
Taker(p) == downloader[Other(p)]
Current(p) == uploader[p].missing_entries
HeldNow(p) == Held(Other(p), Current(p))

\* Up to the n-th, the tokens are files.
FilesUpto(tokens, n) == \A k \in 1..n : tokens[k].kind = "file"

\* The last thing sent is the current offer, and nothing has come back.
Offering(p) ==
  /\ stream[p] # <<>> /\ stream[p][Len(stream[p])] = OfferOf(Current(p))
  /\ FilesUpto(stream[p], Len(stream[p]) - 1)
  /\ acks[p] = <<>>

\* The current offer has been read, and its mask is all that is on its way.
Answered(p) ==
  /\ stream[p] = <<>>
  /\ acks[p] = MaskBytes(Len(Current(p)), Mask(HeldNow(p)))

\* How uploader and downloader follow each other, as long as the downloader has
\* not gone astray: there is one offer at a time.
Phase(p) ==
  /\ uploader[p].at = "byte" =>
       /\ stream[p] = <<>> /\ Taker(p).missing_hashes = 0
       /\ IF Taker(p).at \in Early THEN acks[p] = <<>> ELSE Len(acks[p]) = 1
  /\ uploader[p].at # "byte" => Taker(p).at \notin Early
  /\ uploader[p].at = "mask" => Offering(p) \/ Answered(p)
  /\ uploader[p].at \notin {"byte", "mask"} =>
       FilesUpto(stream[p], Len(stream[p])) /\ acks[p] = <<>>

\* How many files will come before the next offer.
Coming(p) ==
  IF uploader[p].at # "mask" THEN Len(stream[p]) + Cardinality(uploader[p].uploads)
  ELSE IF stream[p] # <<>> THEN Len(stream[p]) - 1
  ELSE Cardinality(Uploaded(Len(Current(p)), Mask(HeldNow(p))))

Enough(p) == Taker(p).missing_hashes <= Coming(p)
Exact(p) == Taker(p).missing_hashes = Coming(p)

\* Nothing that the taker has found is or will be given to it.
NothingTwice(p) ==
  LET found == ToSet(entries[Other(p)]) IN
  /\ ToSet(Taker(p).store) \cap found = {}
  /\ \A k \in DOMAIN stream[p] : stream[p][k].kind = "file" => stream[p][k].image \notin found
  /\ \A k \in uploader[p].uploads : Current(p)[k + 1] \notin found

\* A downloader that is done has read all there ever was.
Ended(p) ==
  Taker(p).at = "done" => stream[p] = <<>> /\ (uploader[p].at = "done" \/ ~Running(p))

\* The offers that have been read by the downloader.
OffersRead(p) ==
  IF uploader[p].at = "mask" /\ OfferOnItsWay(p)
  THEN Len(uploader[p].offers) - 1 ELSE Len(uploader[p].offers)

MisreadBefore(p) == \E k \in 1..OffersRead(p) : Misread(p, k)

\* Some file name of p can be taken for an offer.
ShortName(p) == \E h \in ToSet(entries[p]) : NameLength[h] <= OfferMax

InTouch(p) ==
  \/ Taker(p).at \in {"astray", "done"} /\ MisreadBefore(p) /\ ShortName(p)
  \/ Taker(p).at # "astray" /\ Phase(p) /\ Enough(p)

InStep(p) ==
  \/ MisreadBefore(p)
  \/ Taker(p).at # "astray" /\ Phase(p) /\ Exact(p) /\ NothingTwice(p)

CurrentOffered(p) ==
  uploader[p].at = "mask" =>
    /\ uploader[p].offers # <<>>
    /\ uploader[p].offers[Len(uploader[p].offers)] = Current(p)

\* Where an image is in a directory.
Place(e, h) == CHOOSE k \in DOMAIN e : e[k] = h

\* It is there, among the first n.
Passed(e, n, h) == h \in ToSet(e) /\ Place(e, h) <= n

Before(e, g, h) == Place(e, g) < Place(e, h)

Files(tokens) == {k \in DOMAIN tokens : tokens[k].kind = "file"}

\* Images of e follow each other in the order of e: those that are stored, those
\* in a stream, and the pending ones of an offer; all are among the first n.
Ordered(e, n, store, tokens, offer, pending) ==
  /\ \A i \in DOMAIN store : Passed(e, n, store[i])
  /\ \A k \in Files(tokens) : Passed(e, n, tokens[k].image)
  /\ \A k \in DOMAIN offer : Passed(e, n, offer[k])
  /\ \A i \in DOMAIN store, k \in Files(tokens) : Before(e, store[i], tokens[k].image)
  /\ \A i \in DOMAIN store, k \in pending : Before(e, store[i], offer[k + 1])
  /\ \A k, l \in Files(tokens) : k < l => Before(e, tokens[k].image, tokens[l].image)
  /\ \A l \in Files(tokens), k \in pending : Before(e, tokens[l].image, offer[k + 1])
  /\ \A k, l \in DOMAIN offer : k < l => Before(e, offer[k], offer[l])

\* The positions of its current offer that the uploader of p may still send.
Pending(p) ==
  IF uploader[p].at = "mask" THEN Positions(Len(Current(p))) ELSE uploader[p].uploads

InOrder(p) ==
  Ordered(entries[p], uploader[p].processed_entry_count,
          Taker(p).store, stream[p], Current(p), Pending(p))

\* Stored by the taker, or on the way to it.
OnWay(p, h) ==
  \/ h \in ToSet(Taker(p).store)
  \/ \E k \in DOMAIN stream[p] : stream[p][k].kind = "file" /\ stream[p][k].image = h
  \/ \E j \in uploader[p].uploads : Current(p)[j + 1] = h

\* How many answers the uploader has read, and what became of those offers.
AnswersRead(p) ==
  IF uploader[p].at = "mask" THEN Len(uploader[p].offers) - 1 ELSE Len(uploader[p].offers)

Accounted(p) ==
  \A k \in 1..AnswersRead(p) : WrongAnswer(p, k) \/
    \A h \in ToSet(uploader[p].offers[k]) : h \in ToSet(entries[Other(p)]) \/ OnWay(p, h)

\* The offers before the first misread one are done with.
Settled(p) ==
  \A k \in DOMAIN uploader[p].offers : (\A j \in 1..k : ~Misread(p, j)) =>
    \A h \in ToSet(uploader[p].offers[k]) :
      h \in ToSet(entries[Other(p)]) \cup ToSet(Taker(p).store)

\* What was processed is there, or was offered.
Covered(p) ==
  \A i \in 1..uploader[p].processed_entry_count :
    \/ entries[p][i] \in ToSet(entries[Other(p)])
    \/ \E k \in DOMAIN uploader[p].offers : entries[p][i] \in ToSet(uploader[p].offers[k])

\* The update of p tells of entries of p.
UpdatesTrue(p) ==
  /\ \A k \in DOMAIN updates[p] : ToSet(updates[p][k]) \subseteq ToSet(entries[p])
  /\ receiver[Other(p)].received_hashes \subseteq ToSet(entries[p])
-----------------------------------------------------------------------------
(* What a step does to one direction, from the uploader of p to its taker. *)

SameUploader(p) == uploader'[p] = uploader[p]
SameTaker(p) == downloader'[Other(p)] = downloader[Other(p)]
SameStream(p) == stream'[p] = stream[p]
SameAcks(p) == acks'[p] = acks[p]

\* The taker goes from one place to another, and knows and holds the same.
TakerGoes(p, from, to) ==
  /\ Taker(p).at \in from /\ downloader'[Other(p)].at \in to
  /\ downloader'[Other(p)].missing_hashes = Taker(p).missing_hashes
  /\ downloader'[Other(p)].store = Taker(p).store

\* So does the uploader.
UploaderGoes(p, from, to) ==
  /\ Running(p) /\ uploader[p].at \in from /\ uploader'[p].at \in to
  /\ uploader'[p].processed_entry_count = uploader[p].processed_entry_count
  /\ uploader'[p].missing_entries = uploader[p].missing_entries
  /\ uploader'[p].uploads = uploader[p].uploads
  /\ uploader'[p].offers = uploader[p].offers

Still(p) == SameUploader(p) /\ SameTaker(p) /\ SameStream(p) /\ SameAcks(p)

HashesOn(p) ==
  /\ TakerGoes(p, {"get", "notify", "last"}, Early)
  /\ SameUploader(p) /\ SameStream(p) /\ SameAcks(p)

ByteSent(p) ==
  /\ TakerGoes(p, {"byte"}, {"offers"})
  /\ \E byte \in Byte : acks'[p] = Append(acks[p], byte)
  /\ SameUploader(p) /\ SameStream(p)

OfferAnswered(p) ==
  LET hashes == Head(stream[p]).hashes
      held == Held(Other(p), hashes)
      count == Cardinality(Expected(Len(hashes), held))
  IN
  /\ Kind(stream[p], "offer") /\ stream'[p] = Tail(stream[p])
  /\ acks'[p] = acks[p] \o MaskBytes(Len(hashes), Mask(held))
  /\ Taker(p).at = "offers"
  /\ downloader'[Other(p)].at = IF count = 0 THEN "offers" ELSE "files"
  /\ downloader'[Other(p)].missing_hashes = count
  /\ downloader'[Other(p)].store = Taker(p).store
  /\ SameUploader(p)

FileStored(p) ==
  /\ Kind(stream[p], "file") /\ stream'[p] = Tail(stream[p])
  /\ Taker(p).at = "files"
  /\ downloader'[Other(p)].at \in {"offers", "files"}
  /\ downloader'[Other(p)].missing_hashes = Taker(p).missing_hashes - 1
  /\ downloader'[Other(p)].store = Append(Taker(p).store, Head(stream[p]).image)
  /\ SameUploader(p) /\ SameAcks(p)

WentAstray(p) ==
  /\ Kind(stream[p], "file") /\ NameLength[Head(stream[p]).image] <= OfferMax
  /\ Taker(p).at = "offers" /\ downloader'[Other(p)].at = "astray"
  /\ downloader'[Other(p)].store = Taker(p).store
  /\ SameUploader(p) /\ SameStream(p) /\ SameAcks(p)

StrayedOn(p) ==
  /\ stream[p] # <<>> /\ stream'[p] = Tail(stream[p])
  /\ Taker(p).at = "astray" /\ downloader'[Other(p)].at = "astray"
  /\ downloader'[Other(p)].store = Taker(p).store
  /\ SameUploader(p)

TakerDone(p) ==
  /\ EndOfStream(p) /\ Taker(p).missing_hashes = 0
  /\ TakerGoes(p, {"offers", "astray"}, {"done"})
  /\ SameUploader(p) /\ SameStream(p) /\ SameAcks(p)

Looked(p) ==
  /\ UploaderGoes(p, {"wait", "load", "check"}, {"load", "check", "scan", "wait", "done"})
  /\ SameTaker(p) /\ SameStream(p) /\ SameAcks(p)

ByteReceived(p) ==
  /\ UploaderGoes(p, {"byte"}, {"load"})
  /\ acks[p] # <<>> /\ acks'[p] = Tail(acks[p])
  /\ SameTaker(p) /\ SameStream(p)

\* A scan, whatever comes of it.
ScannedOn(p) ==
  /\ Running(p) /\ uploader[p].at = "scan"
  /\ uploader'[p].processed_entry_count = ScanEnd(p)
  /\ uploader'[p].missing_entries = Scanned(p)
  /\ uploader'[p].uploads = uploader[p].uploads
  /\ SameTaker(p) /\ SameAcks(p)

NothingScanned(p) ==
  /\ ScannedOn(p) /\ Scanned(p) = <<>>
  /\ uploader'[p].at = "load" /\ uploader'[p].offers = uploader[p].offers
  /\ SameStream(p)

OfferSent(p) ==
  /\ ScannedOn(p) /\ Scanned(p) # <<>>
  /\ uploader'[p].at = "mask" /\ uploader'[p].offers = Append(uploader[p].offers, Scanned(p))
  /\ stream'[p] = Append(stream[p], OfferOf(Scanned(p)))

\* What is left to send after a step that is part of an upload.
UploadsOn(p, rest) ==
  /\ Running(p)
  /\ uploader'[p].uploads = rest
  /\ uploader'[p].at = IF rest = {} THEN "load" ELSE "files"
  /\ uploader'[p].processed_entry_count = uploader[p].processed_entry_count
  /\ uploader'[p].missing_entries = uploader[p].missing_entries
  /\ uploader'[p].offers = uploader[p].offers
  /\ SameTaker(p)

MaskReceived(p) ==
  /\ uploader[p].at = "mask"
  /\ Len(acks[p]) >= Awaited(p)
  /\ acks'[p] = SubSeq(acks[p], Awaited(p) + 1, Len(acks[p]))
  /\ UploadsOn(p, Uploaded(Len(Current(p)), Head(acks[p])))
  /\ SameStream(p)

FileSent(p) ==
  /\ uploader[p].at = "files"
  /\ \E k \in uploader[p].uploads :
       /\ \A j \in uploader[p].uploads : k <= j
       /\ stream'[p] = Append(stream[p], FileOf(Current(p)[k + 1]))
       /\ UploadsOn(p, uploader[p].uploads \ {k})
  /\ SameAcks(p)

DirectionStep(p) ==
  \/ Still(p)
  \/ HashesOn(p) \/ ByteSent(p) \/ OfferAnswered(p) \/ FileStored(p)
  \/ WentAstray(p) \/ StrayedOn(p) \/ TakerDone(p)
  \/ Looked(p) \/ ByteReceived(p) \/ NothingScanned(p) \/ OfferSent(p)
  \/ MaskReceived(p) \/ FileSent(p)

\* Which steps touch a direction at all.
LEMMA TouchingSteps ==
  ASSUME [Next]_vars
  PROVE  \/ UNCHANGED <<downloader, uploader, stream, acks>>
         \/ \E r \in Peers :
              \/ GetBatch(r) \/ SendUpdate(r) \/ GetNothing(r) \/ HashingDone(r)
              \/ SendByte(r) \/ ReceiveOffer(r) \/ ReceiveFile(r)
              \/ GoAstray(r) \/ ReadAstray(r) \/ DownloadEnd(r)
              \/ ReceiveByte(r) \/ LoadCount(r) \/ CheckHashing(r) \/ SpuriousWakeup(r)
              \/ ScanNothing(r) \/ SendOffer(r) \/ ReceiveMask(r) \/ UploadFile(r)
<1> USE DEF threads, net
<1>1. ASSUME NEW p \in Peers, Downloader(p)
      PROVE  \/ UNCHANGED <<downloader, uploader, stream, acks>>
             \/ GetBatch(p) \/ SendUpdate(p) \/ GetNothing(p) \/ HashingDone(p)
             \/ SendByte(p) \/ ReceiveOffer(p) \/ ReceiveFile(p) \/ GoAstray(p)
             \/ ReadAstray(p) \/ DownloadEnd(p)
  BY <1>1 DEF Downloader, Desync, FailAstray, DownloadCut, Abort
<1>2. ASSUME NEW p \in Peers, Uploader(p)
      PROVE  \/ UNCHANGED <<downloader, uploader, stream, acks>>
             \/ ReceiveByte(p) \/ LoadCount(p) \/ CheckHashing(p) \/ ScanNothing(p)
             \/ SendOffer(p) \/ ReceiveMask(p) \/ UploadFile(p)
  BY <1>2 DEF Uploader, UploadCut, Abort
<1>3. ASSUME NEW p \in Peers, Receiver(p) \/ Exit(p)
      PROVE  UNCHANGED <<downloader, uploader, stream, acks>>
  BY <1>3 DEF Receiver, ReceiveUpdate, ReceiveLate, EndOfUpdate, ReadClosed, Exit, Abort
<1>4. ASSUME NEW p \in Peers, Environment(p)
      PROVE  UNCHANGED <<downloader, uploader, stream, acks>> \/ SpuriousWakeup(p)
  BY <1>4 DEF Environment, Crash, ConnectionReset, UpdateReset, Abort
<1> QED
  BY <1>1, <1>2, <1>3, <1>4 DEF Next, Terminated, vars

\* What is known of a direction before a step.
LEMMA DirectionFacts ==
  ASSUME Typed, NEW p \in Peers
  PROVE  /\ Other(p) \in Peers /\ Other(p) # p /\ Other(Other(p)) = p
         /\ uploader \in [Peers -> UploaderState] /\ downloader \in [Peers -> DownloaderState]
         /\ stream \in [Peers -> Seq(Token)] /\ acks \in [Peers -> Seq(Byte)]
         /\ uploader[p] \in UploaderState /\ Taker(p) \in DownloaderState
         /\ stream[p] \in Seq(Token) /\ acks[p] \in Seq(Byte)
BY OtherPeer, TypedParts DEF UploaderOK, DownloaderOK, Taker

\* A downloader goes from one place to another.
LEMMA TakerMoves ==
  ASSUME Typed, NEW p \in Peers, NEW place,
         downloader' = [downloader EXCEPT ![Other(p)].at = place],
         NEW from, Taker(p).at \in from
  PROVE  TakerGoes(p, from, {place})
<1>1. downloader \in [Peers -> DownloaderState] /\ Other(p) \in Peers
  BY DirectionFacts
<1> QED
  BY <1>1 DEF TakerGoes, Taker, DownloaderState

\* What a step of a downloader does to the direction that it takes from.
LEMMA DownloaderDirection ==
  ASSUME Typed, NEW p \in Peers,
         LET q == Other(p) IN
           \/ GetBatch(q) \/ SendUpdate(q) \/ GetNothing(q) \/ HashingDone(q)
           \/ SendByte(q) \/ ReceiveOffer(q) \/ ReceiveFile(q)
           \/ GoAstray(q) \/ ReadAstray(q) \/ DownloadEnd(q)
  PROVE  DirectionStep(p)
<1> DEFINE q == Other(p)
<1>1. /\ q \in Peers /\ q # p /\ Other(q) = p
      /\ uploader \in [Peers -> UploaderState] /\ downloader \in [Peers -> DownloaderState]
      /\ stream \in [Peers -> Seq(Token)] /\ acks \in [Peers -> Seq(Byte)]
      /\ Taker(p) = downloader[q] /\ Incoming(q) = stream[p]
      /\ Taker(p) \in DownloaderState
  BY DirectionFacts DEF Taker, Incoming
<1>2. ASSUME UNCHANGED uploader \/ NotifyProgress(q) PROVE SameUploader(p)
  BY <1>1, <1>2 DEF SameUploader, NotifyProgress
<1>3. ASSUME GetBatch(q) PROVE HashesOn(p)
  <2>1. PICK count : downloader' =
          [downloader EXCEPT ![q].at = "notify", ![q].hasher_entry_count = count]
    BY <1>3 DEF GetBatch
  <2>2. TakerGoes(p, {"get", "notify", "last"}, Early)
    BY <1>1, <1>3, <2>1 DEF GetBatch, Downloads, TakerGoes, Early, DownloaderState
  <2> QED
    BY <1>2, <1>3, <2>2 DEF GetBatch, net, HashesOn, SameStream, SameAcks
<1>4. ASSUME SendUpdate(q) PROVE HashesOn(p)
  <2>1. TakerGoes(p, {"get", "notify", "last"}, {"get"})
    BY <1>1, <1>4, TakerMoves DEF SendUpdate, Downloads
  <2>2. TakerGoes(p, {"get", "notify", "last"}, Early)
    BY <2>1 DEF TakerGoes, Early
  <2> QED
    BY <1>2, <1>4, <2>2 DEF SendUpdate, HashesOn, SameStream, SameAcks
<1>5. ASSUME GetNothing(q) PROVE HashesOn(p)
  <2>1. TakerGoes(p, {"get", "notify", "last"}, {"last"})
    BY <1>1, <1>5, TakerMoves DEF GetNothing, Downloads
  <2>2. TakerGoes(p, {"get", "notify", "last"}, Early)
    BY <2>1 DEF TakerGoes, Early
  <2> QED
    BY <1>2, <1>5, <2>2 DEF GetNothing, net, HashesOn, SameStream, SameAcks
<1>6. ASSUME HashingDone(q) PROVE HashesOn(p)
  <2>1. TakerGoes(p, {"get", "notify", "last"}, {"byte"})
    BY <1>1, <1>6, TakerMoves DEF HashingDone, Downloads
  <2>2. TakerGoes(p, {"get", "notify", "last"}, Early)
    BY <2>1 DEF TakerGoes, Early
  <2> QED
    BY <1>2, <1>6, <2>2 DEF HashingDone, net, HashesOn, SameStream, SameAcks
<1>7. ASSUME SendByte(q) PROVE ByteSent(p)
  <2>1. TakerGoes(p, {"byte"}, {"offers"})
    BY <1>1, <1>7, TakerMoves DEF SendByte, Downloads
  <2> QED
    BY <1>1, <1>2, <1>7, <2>1 DEF SendByte, ByteSent, SameStream
<1>8. ASSUME Read(q) PROVE stream'[p] = Tail(stream[p])
  BY <1>1, <1>8 DEF Read
<1>9. ASSUME ReceiveOffer(q) PROVE OfferAnswered(p)
  <2> DEFINE hashes == Head(stream[p]).hashes
             held == Held(q, hashes)
             count == Cardinality(Expected(Len(hashes), held))
  <2>1. /\ Kind(stream[p], "offer") /\ Read(q) /\ Taker(p).at = "offers"
        /\ acks' = [acks EXCEPT ![p] = @ \o MaskBytes(Len(hashes), Mask(held))]
        /\ Expecting(q, count) /\ UNCHANGED uploader
    BY <1>1, <1>9 DEF ReceiveOffer, Downloads
  <2>2. PICK n, place : /\ n = count /\ place = IF n = 0 THEN "offers" ELSE "files"
                        /\ downloader' = [downloader EXCEPT ![q].missing_hashes = n,
                                                            ![q].at = place]
    BY <2>1 DEF Expecting
  <2>3. downloader'[q].missing_hashes = n /\ downloader'[q].at = place
        /\ downloader'[q].store = Taker(p).store
    BY <1>1, <2>2 DEF DownloaderState
  <2>4. acks'[p] = acks[p] \o MaskBytes(Len(hashes), Mask(held))
    BY <1>1, <2>1
  <2> QED
    BY <1>2, <1>8, <2>1, <2>2, <2>3, <2>4 DEF OfferAnswered
<1>10. ASSUME ReceiveFile(q) PROVE FileStored(p)
  <2>1. /\ Kind(stream[p], "file") /\ Read(q) /\ Taker(p).at = "files"
        /\ UNCHANGED <<uploader, acks>>
    BY <1>1, <1>10 DEF ReceiveFile, Downloads
  <2>2. PICK store, count, place :
          /\ store = Append(downloader[q].store, Head(stream[p]).image)
          /\ count = downloader[q].missing_hashes - 1
          /\ place = IF count = 0 THEN "offers" ELSE "files"
          /\ downloader' = [downloader EXCEPT ![q].store = store, ![q].missing_hashes = count,
                                              ![q].at = place]
    <3> DEFINE store == Append(downloader[q].store, Head(stream[p]).image)
               count == downloader[q].missing_hashes - 1
               place == IF count = 0 THEN "offers" ELSE "files"
    <3>1. downloader' = [downloader EXCEPT ![q].store = store, ![q].missing_hashes = count,
                                           ![q].at = place]
      BY <1>1, <1>10 DEF ReceiveFile
    <3> QED
      BY <3>1
  <2>3. /\ downloader'[q].missing_hashes = count /\ downloader'[q].at = place
        /\ downloader'[q].store = store
    BY <1>1, <2>2 DEF DownloaderState
  <2>4. place \in {"offers", "files"}
    BY <2>2
  <2> QED
    BY <1>1, <1>2, <1>8, <2>1, <2>2, <2>3, <2>4 DEF FileStored, SameAcks
<1>11. ASSUME GoAstray(q) PROVE WentAstray(p)
  <2>1. PICK count : downloader' =
          [downloader EXCEPT ![q].missing_hashes = count, ![q].at = "astray"]
    BY <1>11 DEF GoAstray
  <2>2. downloader'[q].at = "astray" /\ downloader'[q].store = Taker(p).store
    BY <1>1, <2>1 DEF DownloaderState
  <2> QED
    BY <1>1, <1>2, <1>11, <2>2 DEF GoAstray, Downloads, net, WentAstray, SameStream, SameAcks
<1>12. ASSUME ReadAstray(q) PROVE StrayedOn(p)
  <2>1. PICK count : downloader' = [downloader EXCEPT ![q].missing_hashes = count]
    BY <1>12 DEF ReadAstray
  <2>2. downloader'[q].at = Taker(p).at /\ downloader'[q].store = Taker(p).store
    BY <1>1, <2>1 DEF DownloaderState
  <2> QED
    BY <1>1, <1>2, <1>8, <1>12, <2>2 DEF ReadAstray, Downloads, StrayedOn
<1>13. ASSUME DownloadEnd(q) PROVE TakerDone(p)
  <2>1. TakerGoes(p, {"offers", "astray"}, {"done"})
    BY <1>1, <1>13, TakerMoves DEF DownloadEnd, Downloads
  <2> QED
    BY <1>1, <1>2, <1>13, <2>1 DEF DownloadEnd, net, TakerDone, SameStream, SameAcks
<1> QED
  BY <1>3, <1>4, <1>5, <1>6, <1>7, <1>9, <1>10, <1>11, <1>12, <1>13 DEF DirectionStep

\* An uploader goes from one place to another.
LEMMA UploaderGoing ==
  ASSUME Typed, NEW p \in Peers, Running(p), NEW place,
         uploader' = [uploader EXCEPT ![p].at = place],
         NEW from, uploader[p].at \in from, NEW to, place \in to
  PROVE  UploaderGoes(p, from, to)
<1>1. uploader \in [Peers -> UploaderState]
  BY DirectionFacts
<1> QED
  BY <1>1 DEF UploaderGoes, UploaderState

\* What a step of an uploader does to the direction that it serves.
LEMMA UploaderDirection ==
  ASSUME Typed, NEW p \in Peers,
         \/ ReceiveByte(p) \/ LoadCount(p) \/ CheckHashing(p) \/ SpuriousWakeup(p)
         \/ ScanNothing(p) \/ SendOffer(p) \/ ReceiveMask(p) \/ UploadFile(p)
  PROVE  DirectionStep(p)
<1>1. /\ uploader \in [Peers -> UploaderState] /\ uploader[p] \in UploaderState
      /\ stream \in [Peers -> Seq(Token)] /\ acks \in [Peers -> Seq(Byte)]
  BY DirectionFacts
<1> DEFINE Awake == {"wait", "load", "check"}
           Ahead == {"load", "check", "scan", "wait", "done"}
<1>2. ASSUME ReceiveByte(p) PROVE ByteReceived(p)
  <2>1. UploaderGoes(p, {"byte"}, {"load"})
    BY <1>2, UploaderGoing DEF ReceiveByte, Uploads
  <2> QED
    BY <1>1, <1>2, <2>1 DEF ReceiveByte, ByteReceived, SameTaker, SameStream
<1>3. ASSUME LoadCount(p) PROVE Looked(p)
  <2>1. PICK count, place :
          /\ place \in Ahead
          /\ uploader' = [uploader EXCEPT ![p].total_entry_count = count, ![p].at = place]
    <3>1. PICK place : /\ place \in Ahead
                       /\ place = IF uploader[p].processed_entry_count
                                       = downloader[p].hasher_entry_count
                                  THEN "check" ELSE "scan"
      OBVIOUS
    <3> QED
      BY <1>3, <3>1 DEF LoadCount
  <2>2. UploaderGoes(p, Awake, Ahead)
    BY <1>1, <1>3, <2>1 DEF LoadCount, Uploads, UploaderGoes, UploaderState
  <2> QED
    BY <1>3, <2>2 DEF LoadCount, net, Looked, SameTaker, SameStream, SameAcks
<1>4. ASSUME CheckHashing(p) PROVE Looked(p)
  <2>1. PICK place : place \in Ahead /\ place = IF Hashing(p) THEN "wait" ELSE "done"
    OBVIOUS
  <2>2. UploaderGoes(p, Awake, Ahead)
    BY <1>4, <2>1, UploaderGoing DEF CheckHashing, Uploads
  <2> QED
    BY <1>4, <2>2 DEF CheckHashing, net, Looked, SameTaker, SameStream, SameAcks
<1>5. ASSUME SpuriousWakeup(p) PROVE Looked(p)
  <2>1. UploaderGoes(p, Awake, Ahead)
    BY <1>5, UploaderGoing DEF SpuriousWakeup, Uploads
  <2> QED
    BY <1>5, <2>1 DEF SpuriousWakeup, net, Looked, SameTaker, SameStream, SameAcks
<1>6. ASSUME ScanNothing(p) PROVE NothingScanned(p)
  <2>1. PICK k : k = ScanEnd(p) /\ uploader' =
          [uploader EXCEPT ![p].at = "load", ![p].processed_entry_count = k,
                           ![p].missing_entries = <<>>]
    BY <1>6 DEF ScanNothing
  <2>2. /\ uploader'[p].at = "load" /\ uploader'[p].processed_entry_count = k
        /\ uploader'[p].missing_entries = <<>>
        /\ uploader'[p].uploads = uploader[p].uploads
        /\ uploader'[p].offers = uploader[p].offers
    BY <1>1, <2>1 DEF UploaderState
  <2> QED
    BY <1>6, <2>1, <2>2
    DEF ScanNothing, Uploads, net, NothingScanned, ScannedOn, SameTaker, SameStream, SameAcks
<1>7. ASSUME SendOffer(p) PROVE OfferSent(p)
  <2>1. PICK k, hashes, offers :
          /\ k = ScanEnd(p) /\ hashes = Scanned(p) /\ offers = Append(uploader[p].offers, hashes)
          /\ uploader' = [uploader EXCEPT ![p].at = "mask", ![p].processed_entry_count = k,
                                          ![p].missing_entries = hashes, ![p].offers = offers]
    BY <1>7 DEF SendOffer, SendScanned
  <2>2. /\ uploader'[p].at = "mask" /\ uploader'[p].processed_entry_count = k
        /\ uploader'[p].missing_entries = hashes
        /\ uploader'[p].uploads = uploader[p].uploads
        /\ uploader'[p].offers = offers
    BY <1>1, <2>1 DEF UploaderState
  <2>3. /\ stream' = [stream EXCEPT ![p] = Append(@, OfferOf(Scanned(p)))]
        /\ Scanned(p) # <<>> /\ Uploads(p, "scan") /\ UNCHANGED <<downloader, acks>>
    BY <1>7 DEF SendOffer, SendScanned
  <2>4. stream'[p] = Append(stream[p], OfferOf(Scanned(p)))
    BY <1>1, <2>3
  <2> QED
    BY <2>1, <2>2, <2>3, <2>4 DEF Uploads, OfferSent, ScannedOn, SameTaker, SameAcks
<1>8. ASSUME NEW rest, Sending(p, rest), Running(p), UNCHANGED downloader
      PROVE  UploadsOn(p, rest)
  <2>1. PICK place : /\ place = IF rest = {} THEN "load" ELSE "files"
                     /\ uploader' = [uploader EXCEPT ![p].uploads = rest, ![p].at = place]
    BY <1>8 DEF Sending
  <2>2. /\ uploader'[p].at = place
        /\ uploader'[p].processed_entry_count = uploader[p].processed_entry_count
        /\ uploader'[p].missing_entries = uploader[p].missing_entries
        /\ uploader'[p].uploads = rest
        /\ uploader'[p].offers = uploader[p].offers
    BY <1>1, <2>1 DEF UploaderState
  <2> QED
    BY <1>8, <2>1, <2>2 DEF UploadsOn, SameTaker
<1>9. ASSUME ReceiveMask(p) PROVE MaskReceived(p)
  <2>1. UploadsOn(p, Uploaded(Len(Current(p)), Head(acks[p])))
    BY <1>8, <1>9 DEF ReceiveMask, Uploads, Current
  <2> QED
    BY <1>1, <1>9, <2>1 DEF ReceiveMask, Uploads, MaskReceived, SameStream
<1>10. ASSUME UploadFile(p) PROVE FileSent(p)
  <2>1. PICK k \in uploader[p].uploads :
          /\ Uploads(p, "files")
          /\ \A j \in uploader[p].uploads : k <= j
          /\ stream' = [stream EXCEPT
               ![p] = Append(@, FileOf(uploader[p].missing_entries[k + 1]))]
          /\ Sending(p, uploader[p].uploads \ {k})
          /\ UNCHANGED <<downloader, acks>>
    BY <1>10 DEF UploadFile
  <2>2. UploadsOn(p, uploader[p].uploads \ {k})
    BY <1>8, <2>1 DEF Uploads
  <2>3. stream'[p] = Append(stream[p], FileOf(Current(p)[k + 1]))
    BY <1>1, <2>1 DEF Current
  <2> QED
    BY <2>1, <2>2, <2>3 DEF Uploads, FileSent, SameAcks
<1> QED
  BY <1>2, <1>3, <1>4, <1>5, <1>6, <1>7, <1>9, <1>10 DEF DirectionStep

\* The threads of this direction are left alone by those of the other one, but
\* for the notification of the uploader.
LEMMA OtherDirection ==
  ASSUME Typed, NEW p \in Peers,
         LET q == Other(p) IN
           \/ GetBatch(p) \/ SendUpdate(p) \/ GetNothing(p) \/ HashingDone(p)
           \/ SendByte(p) \/ ReceiveOffer(p) \/ ReceiveFile(p)
           \/ GoAstray(p) \/ ReadAstray(p) \/ DownloadEnd(p)
           \/ ReceiveByte(q) \/ LoadCount(q) \/ CheckHashing(q) \/ SpuriousWakeup(q)
           \/ ScanNothing(q) \/ SendOffer(q) \/ ReceiveMask(q) \/ UploadFile(q)
  PROVE  DirectionStep(p)
<1> DEFINE q == Other(p)
<1>1. /\ q \in Peers /\ q # p /\ Other(q) = p
      /\ uploader \in [Peers -> UploaderState] /\ downloader \in [Peers -> DownloaderState]
      /\ stream \in [Peers -> Seq(Token)] /\ acks \in [Peers -> Seq(Byte)]
  BY DirectionFacts
<1>2. ASSUME SendUpdate(p) \/ HashingDone(p) PROVE DirectionStep(p)
  <2>1. SameTaker(p) /\ SameStream(p) /\ SameAcks(p) /\ NotifyProgress(p) /\ Running(p)
    BY <1>1, <1>2
    DEF SendUpdate, HashingDone, Downloads, net, SameTaker, SameStream, SameAcks
  <2>2. CASE uploader[p].at = "wait"
    <3>1. uploader' = [uploader EXCEPT ![p].at = "load"]
      BY <2>1, <2>2 DEF NotifyProgress
    <3>2. UploaderGoes(p, {"wait", "load", "check"}, {"load", "check", "scan", "wait", "done"})
      BY <2>1, <2>2, <3>1, UploaderGoing
    <3> QED
      BY <2>1, <3>2 DEF Looked, DirectionStep
  <2>3. CASE uploader[p].at # "wait"
    BY <2>1, <2>3 DEF NotifyProgress, SameUploader, Still, DirectionStep
  <2> QED
    BY <2>2, <2>3
<1>3. ASSUME GetBatch(p) \/ GetNothing(p) \/ DownloadEnd(p) PROVE Still(p)
  BY <1>1, <1>3
  DEF GetBatch, GetNothing, DownloadEnd, net, Still, SameUploader, SameTaker, SameStream, SameAcks
<1>4. ASSUME SendByte(p) PROVE Still(p)
  BY <1>1, <1>4 DEF SendByte, Still, SameUploader, SameTaker, SameStream, SameAcks
<1>5. ASSUME ReceiveOffer(p) PROVE Still(p)
  BY <1>1, <1>5
  DEF ReceiveOffer, Expecting, Read, Still, SameUploader, SameTaker, SameStream, SameAcks
<1>6. ASSUME ReceiveFile(p) PROVE Still(p)
  BY <1>1, <1>6 DEF ReceiveFile, Read, Still, SameUploader, SameTaker, SameStream, SameAcks
<1>7. ASSUME GoAstray(p) PROVE Still(p)
  BY <1>1, <1>7 DEF GoAstray, net, Still, SameUploader, SameTaker, SameStream, SameAcks
<1>8. ASSUME ReadAstray(p) PROVE Still(p)
  BY <1>1, <1>8 DEF ReadAstray, Read, Still, SameUploader, SameTaker, SameStream, SameAcks
<1>9. ASSUME ReceiveByte(q) \/ LoadCount(q) \/ CheckHashing(q) \/ SpuriousWakeup(q) PROVE Still(p)
  BY <1>1, <1>9
  DEF ReceiveByte, LoadCount, CheckHashing, SpuriousWakeup, net, Still, SameUploader,
      SameTaker, SameStream, SameAcks
<1>10. ASSUME ScanNothing(q) \/ SendOffer(q) PROVE Still(p)
  BY <1>1, <1>10
  DEF ScanNothing, SendOffer, SendScanned, net, Still, SameUploader, SameTaker, SameStream, SameAcks
<1>11. ASSUME ReceiveMask(q) PROVE Still(p)
  BY <1>1, <1>11
  DEF ReceiveMask, Sending, Still, SameUploader, SameTaker, SameStream, SameAcks
<1>12. ASSUME UploadFile(q) PROVE Still(p)
  BY <1>1, <1>12
  DEF UploadFile, Sending, Still, SameUploader, SameTaker, SameStream, SameAcks
<1> QED
  BY <1>2, <1>3, <1>4, <1>5, <1>6, <1>7, <1>8, <1>9, <1>10, <1>11, <1>12 DEF DirectionStep

\* Every step does one of these things to a direction.
LEMMA DirectionSteps ==
  ASSUME Typed, [Next]_vars, NEW p \in Peers
  PROVE  DirectionStep(p)
<1>1. \A r \in Peers : r = p \/ r = Other(p)
  BY OtherPeer
<1>2. CASE UNCHANGED <<downloader, uploader, stream, acks>>
  BY <1>2 DEF DirectionStep, Still, SameUploader, SameTaker, SameStream, SameAcks
<1>3. ASSUME NEW r \in Peers,
              \/ GetBatch(r) \/ SendUpdate(r) \/ GetNothing(r) \/ HashingDone(r)
              \/ SendByte(r) \/ ReceiveOffer(r) \/ ReceiveFile(r)
              \/ GoAstray(r) \/ ReadAstray(r) \/ DownloadEnd(r)
      PROVE  DirectionStep(p)
  BY <1>1, <1>3, DownloaderDirection, OtherDirection
<1>4. ASSUME NEW r \in Peers,
              \/ ReceiveByte(r) \/ LoadCount(r) \/ CheckHashing(r) \/ SpuriousWakeup(r)
              \/ ScanNothing(r) \/ SendOffer(r) \/ ReceiveMask(r) \/ UploadFile(r)
      PROVE  DirectionStep(p)
  BY <1>1, <1>4, UploaderDirection, OtherDirection
<1> QED
  BY <1>2, <1>3, <1>4, TouchingSteps

\* A process that has ended has ended for good.
LEMMA EndedStays ==
  ASSUME Typed, [Next]_vars, NEW p \in Peers
  PROVE  ~Running(p) => status'[p] = status[p]
<1>1. status \in [Peers -> {"running", "exited", "aborted"}]
  BY TypedParts
<1>2. ASSUME NEW q \in Peers, Downloader(q) \/ Uploader(q)
      PROVE  UNCHANGED status \/ (Running(q) /\ Abort(q))
  BY <1>2
  DEF Downloader, Uploader, process, GetBatch, SendUpdate, GetNothing, HashingDone, SendByte,
      ReceiveOffer, ReceiveFile, Desync, GoAstray, ReadAstray, FailAstray, DownloadEnd,
      DownloadCut, ReceiveByte, LoadCount, CheckHashing, ScanNothing, SendOffer, SendScanned,
      ReceiveMask, UploadFile, UploadCut, Downloads
<1>3. ASSUME NEW q \in Peers, Receiver(q) \/ Exit(q) \/ Environment(q)
      PROVE  UNCHANGED status \/ (Running(q) /\ \E s : status' = [status EXCEPT ![q] = s])
  BY <1>3
  DEF Receiver, Exit, Environment, process, ReceiveUpdate, ReceiveLate, EndOfUpdate, ReadClosed,
      SpuriousWakeup, Crash, ConnectionReset, UpdateReset, Abort, Receives, Downloads
<1>4. ASSUME NEW q \in Peers, Running(q), NEW s, status' = [status EXCEPT ![q] = s]
      PROVE  ~Running(p) => status'[p] = status[p]
  BY <1>1, <1>4 DEF Running
<1>5. CASE UNCHANGED status
  BY <1>5
<1>6. CASE Terminated \/ UNCHANGED vars
  BY <1>6 DEF Terminated, vars, process
<1> QED
  BY <1>2, <1>3, <1>4, <1>5, <1>6 DEF Next, Abort
-----------------------------------------------------------------------------
(* The order in which images are given. *)

\* The place of the k-th image is k, for no image is in a directory twice.
LEMMA PlaceOf ==
  ASSUME NEW e \in Seq(Hash),
         \A i, j \in 1..Len(e) : e[i] = e[j] => i = j
  PROVE  /\ \A k \in 1..Len(e) : Place(e, e[k]) = k
         /\ \A h \in ToSet(e) : Place(e, h) \in 1..Len(e) /\ e[Place(e, h)] = h
<1>1. DOMAIN e = 1..Len(e)
  OBVIOUS
<1>2. ASSUME NEW k \in 1..Len(e) PROVE Place(e, e[k]) = k
  <2>1. \A j \in DOMAIN e : e[j] = e[k] <=> j = k
    BY <1>1
  <2> QED
    BY <1>1, <2>1 DEF Place
<1>3. \A h \in ToSet(e) : \E k \in 1..Len(e) : e[k] = h
  BY <1>1 DEF ToSet
<1> QED
  BY <1>2, <1>3

\* The rest of a stream is a stream.
LEMMA TailTokens ==
  ASSUME NEW T, NEW s \in Seq(T), s # <<>>
  PROVE  /\ Tail(s) \in Seq(T) /\ Head(s) = s[1]
         /\ Len(s) \in Nat \ {0} /\ Len(Tail(s)) = Len(s) - 1
         /\ \A k \in DOMAIN Tail(s) : k + 1 \in DOMAIN s /\ Tail(s)[k] = s[k + 1]
         /\ 1 \in DOMAIN s
<1>1. /\ Head(s) = s[1] /\ Tail(s) \in Seq(T) /\ Len(Tail(s)) = Len(s) - 1
      /\ \A i \in 1..Len(Tail(s)) : Tail(s)[i] = s[i + 1]
  BY HeadTailProperties
<1>2. Len(s) \in Nat \ {0} /\ DOMAIN s = 1..Len(s)
  BY EmptySeq
<1>3. DOMAIN Tail(s) = 1..Len(Tail(s))
  BY <1>1
<1> QED
  BY <1>1, <1>2, <1>3

\* What is appended comes last.
LEMMA AppendTokens ==
  ASSUME NEW T, NEW s \in Seq(T), NEW t
  PROVE  /\ Len(Append(s, t)) = Len(s) + 1 /\ Len(s) \in Nat
         /\ Append(s, t)[Len(s) + 1] = t
         /\ DOMAIN Append(s, t) = DOMAIN s \cup {Len(s) + 1}
         /\ \A k \in DOMAIN s : Append(s, t)[k] = s[k] /\ k < Len(s) + 1 /\ k \in Nat
<1>1. Len(s) \in Nat /\ DOMAIN s = 1..Len(s)
  OBVIOUS
<1>2. s \in Seq(T \cup {t}) /\ t \in T \cup {t}
  OBVIOUS
<1>3. /\ Len(Append(s, t)) = Len(s) + 1
      /\ Append(s, t) \in Seq(T \cup {t})
      /\ Append(s, t)[Len(s) + 1] = t
      /\ \A i \in 1..Len(s) : Append(s, t)[i] = s[i]
  BY <1>2, AppendProperties
<1>4. DOMAIN Append(s, t) = 1..(Len(s) + 1)
  BY <1>3
<1>5. 1..(Len(s) + 1) = 1..Len(s) \cup {Len(s) + 1}
  BY <1>1
<1> QED
  BY <1>1, <1>3, <1>4, <1>5

\* The first token of a stream is read, and what it holds is stored or not.
LEMMA OrderedTail ==
  ASSUME NEW e, NEW n, NEW store \in Seq(Hash), NEW tokens \in Seq(Token), NEW offer,
         NEW pending, Ordered(e, n, store, tokens, offer, pending), tokens # <<>>
  PROVE  /\ Ordered(e, n, store, Tail(tokens), offer, pending)
         /\ Head(tokens).kind = "file" =>
              Ordered(e, n, Append(store, Head(tokens).image), Tail(tokens), offer, pending)
<1> DEFINE rest == Tail(tokens)
           image == Head(tokens).image
           stored == Append(store, image)
<1>1. /\ \A k \in Files(rest) : /\ k + 1 \in Files(tokens) /\ k \in Nat
                                /\ rest[k] = tokens[k + 1]
      /\ Head(tokens) = tokens[1]
      /\ Head(tokens).kind = "file" => 1 \in Files(tokens)
  <2>1. rest \in Seq(Token) /\ DOMAIN rest = 1..Len(rest)
    BY TailTokens
  <2> QED
    BY <2>1, TailTokens DEF Files
<1>2. \A k, l \in Files(rest) : k < l => k + 1 < l + 1
  BY <1>1
<1>3. Ordered(e, n, store, rest, offer, pending)
  BY <1>1, <1>2 DEF Ordered
<1>4. ASSUME Head(tokens).kind = "file"
      PROVE  Ordered(e, n, stored, rest, offer, pending)
  <2>1. \A i \in DOMAIN stored : \/ stored[i] = image
                                 \/ i \in DOMAIN store /\ stored[i] = store[i]
    BY AppendTokens
  <2>2. Passed(e, n, image) /\ \A k \in pending : Before(e, image, offer[k + 1])
    BY <1>1, <1>4 DEF Ordered
  <2>3. \A k \in Files(rest) : Before(e, image, rest[k].image)
    <3> SUFFICES ASSUME NEW k \in Files(rest) PROVE Before(e, image, tokens[k + 1].image)
      BY <1>1
    <3>1. 1 \in Files(tokens) /\ k + 1 \in Files(tokens) /\ 1 < k + 1
      <4>1. k \in DOMAIN rest /\ rest \in Seq(Token)
        BY TailTokens DEF Files
      <4>2. k >= 1 /\ k \in Nat
        BY <4>1
      <4> QED
        BY <1>1, <1>4, <4>2
    <3> QED
      BY <1>1, <3>1 DEF Ordered
  <2> HIDE DEF rest, stored, image
  <2>4. \A i \in DOMAIN stored :
          /\ Passed(e, n, stored[i])
          /\ \A k \in Files(rest) : Before(e, stored[i], rest[k].image)
          /\ \A k \in pending : Before(e, stored[i], offer[k + 1])
    BY <1>3, <2>1, <2>2, <2>3 DEF Ordered
  <2> QED
    BY <1>3, <2>4 DEF Ordered
<1> QED
  BY <1>3, <1>4

\* Fewer are pending than before.
LEMMA OrderedFewer ==
  ASSUME NEW e, NEW n, NEW store, NEW tokens, NEW offer, NEW pending, NEW fewer,
         fewer \subseteq pending, Ordered(e, n, store, tokens, offer, pending)
  PROVE  Ordered(e, n, store, tokens, offer, fewer)
BY DEF Ordered

\* The first pending image is sent.
LEMMA OrderedSend ==
  ASSUME NEW e, NEW n, NEW store, NEW tokens \in Seq(Token), NEW offer \in Seq(Hash),
         NEW pending \in SUBSET Positions(Len(offer)),
         Ordered(e, n, store, tokens, offer, pending),
         NEW k \in pending, \A j \in pending : k <= j
  PROVE  Ordered(e, n, store, Append(tokens, FileOf(offer[k + 1])), offer, pending \ {k})
<1> DEFINE image == offer[k + 1]
           longer == Append(tokens, FileOf(image))
           rest == pending \ {k}
<1>1. Len(offer) \in Nat /\ k \in Nat /\ k + 1 \in DOMAIN offer
  <2>1. Len(offer) \in Nat /\ DOMAIN offer = 1..Len(offer)
    OBVIOUS
  <2> QED
    BY <2>1 DEF Positions
<1>2. \A j \in rest : Before(e, image, offer[j + 1])
  <2> SUFFICES ASSUME NEW j \in rest PROVE Before(e, image, offer[j + 1])
    OBVIOUS
  <2>1. j \in Nat /\ j + 1 \in DOMAIN offer
    BY <1>1 DEF Positions
  <2>2. k + 1 < j + 1
    BY <1>1, <2>1
  <2> QED
    BY <1>1, <2>1, <2>2 DEF Ordered
<1>3. \A l \in Files(longer) : \/ l = Len(tokens) + 1 /\ longer[l].image = image
                               \/ l \in Files(tokens) /\ longer[l] = tokens[l] /\ l < Len(tokens) + 1
  BY AppendTokens DEF Files, FileOf
<1>4. Passed(e, n, image) /\ \A i \in DOMAIN store : Before(e, store[i], image)
  BY <1>1 DEF Ordered
<1>5. \A l \in Files(tokens) : Before(e, tokens[l].image, image)
  BY DEF Ordered
<1>6. Len(tokens) \in Nat /\ \A l \in Files(tokens) : l \in Nat
  BY AppendTokens DEF Files
<1> HIDE DEF longer, image
<1>7. \A l, m \in Files(longer) : l < m => Before(e, longer[l].image, longer[m].image)
  <2> SUFFICES ASSUME NEW l \in Files(longer), NEW m \in Files(longer), l < m
               PROVE  Before(e, longer[l].image, longer[m].image)
    OBVIOUS
  <2>1. l \in Files(tokens) /\ longer[l] = tokens[l]
    BY <1>3, <1>6
  <2>2. CASE m = Len(tokens) + 1
    BY <1>3, <1>5, <1>6, <2>1, <2>2
  <2>3. CASE m # Len(tokens) + 1
    BY <1>3, <2>1, <2>3 DEF Ordered
  <2> QED
    BY <2>2, <2>3
<1>8. \A l \in Files(longer) :
        /\ Passed(e, n, longer[l].image)
        /\ \A i \in DOMAIN store : Before(e, store[i], longer[l].image)
        /\ \A j \in rest : Before(e, longer[l].image, offer[j + 1])
  BY <1>2, <1>3, <1>4 DEF Ordered
<1>9. \A i \in DOMAIN store, j \in rest : Before(e, store[i], offer[j + 1])
  BY DEF Ordered
<1> QED
  BY <1>7, <1>8, <1>9 DEF Ordered, longer, image

\* A new offer is made of what comes behind the first n.
LEMMA OrderedOffer ==
  ASSUME NEW e \in Seq(Hash), \A i, j \in 1..Len(e) : e[i] = e[j] => i = j,
         NEW n \in Nat, NEW m \in Nat, n <= m, NEW store \in Seq(Hash), NEW tokens \in Seq(Token),
         NEW former, Ordered(e, n, store, tokens, former, {}),
         NEW offer \in Seq(Hash),
         \A k \in DOMAIN offer : offer[k] \in ToSet(e) /\ Place(e, offer[k]) \in (n + 1)..m,
         \A k, l \in DOMAIN offer : k < l => Before(e, offer[k], offer[l])
  PROVE  /\ Ordered(e, m, store, tokens, offer, {})
         /\ Ordered(e, m, store, Append(tokens, OfferOf(offer)), offer, Positions(Len(offer)))
<1>1. DOMAIN offer = 1..Len(offer) /\ Len(offer) \in Nat
  OBVIOUS
<1>2. \A k \in DOMAIN offer : /\ Place(e, offer[k]) \in Nat /\ offer[k] \in ToSet(e)
                              /\ n < Place(e, offer[k]) /\ Place(e, offer[k]) <= m
  OBVIOUS
<1>3. \A h : Passed(e, n, h) => Passed(e, m, h) /\ Place(e, h) \in Nat /\ Place(e, h) <= n
  BY PlaceOf DEF Passed
<1>4. \A k \in DOMAIN offer : Passed(e, m, offer[k])
  BY <1>2 DEF Passed
<1>5. \A k, l \in DOMAIN offer : k < l => Before(e, offer[k], offer[l])
  OBVIOUS
<1>6. \A h : Passed(e, n, h) => \A k \in DOMAIN offer : Before(e, h, offer[k])
  BY <1>2, <1>3 DEF Before
<1>7. Ordered(e, m, store, tokens, offer, {})
  BY <1>3, <1>4, <1>5 DEF Ordered
<1> DEFINE longer == Append(tokens, OfferOf(offer))
<1>8. Files(longer) = Files(tokens) /\ \A l \in Files(tokens) : longer[l] = tokens[l]
  BY AppendTokens DEF Files, OfferOf
<1>9. \A k \in Positions(Len(offer)) : k + 1 \in DOMAIN offer
  BY <1>1 DEF Positions
<1> HIDE DEF longer
<1>10. \A l \in Files(longer), k \in Positions(Len(offer)) :
         Before(e, longer[l].image, offer[k + 1])
  BY <1>6, <1>8, <1>9 DEF Ordered
<1>11. \A i \in DOMAIN store, k \in Positions(Len(offer)) : Before(e, store[i], offer[k + 1])
  BY <1>6, <1>9 DEF Ordered
<1>12. Ordered(e, m, store, longer, offer, Positions(Len(offer)))
  BY <1>7, <1>8, <1>10, <1>11 DEF Ordered
<1> QED
  BY <1>7, <1>12 DEF longer

\* Images stay in order, whatever happens to the rest.
LEMMA InOrderStep ==
  ASSUME Typed, [Next]_vars, NEW p \in Peers, InOrder(p)
  PROVE  InOrder(p)'
<1> DEFINE e == entries[p]
           n == uploader[p].processed_entry_count
           store == Taker(p).store
<1>1. entries' = entries
  BY EntriesSteps
<1>2. e \in Seq(Hash) /\ \A i, j \in 1..Len(e) : e[i] = e[j] => i = j
  BY EntriesType DEF Typed, TypeOK
<1>3. /\ stream[p] \in Seq(Token) /\ store \in Seq(Hash)
      /\ Current(p) \in Seq(Hash) /\ n \in Nat
      /\ uploader[p].uploads \in SUBSET Positions(Len(Current(p)))
      /\ uploader[p].at \notin {"files"} => uploader[p].uploads = {}
  BY DirectionFacts, UploaderFacts DEF DownloaderState, Current
<1>4. Ordered(e, n, store, stream[p], Current(p), Pending(p))
  BY DEF InOrder
<1>5. InOrder(p)' <=>
        Ordered(e, uploader'[p].processed_entry_count, downloader'[Other(p)].store,
                stream'[p], uploader'[p].missing_entries, Pending(p)')
  BY <1>1 DEF InOrder, Taker, Current
<1> DEFINE SamePending == /\ uploader'[p].processed_entry_count = n
                          /\ uploader'[p].missing_entries = Current(p)
                          /\ Pending(p)' = Pending(p)
<1>6. ASSUME SameUploader(p) PROVE SamePending
  BY <1>6 DEF SameUploader, Pending, Current
<1>7. ASSUME NEW from, NEW to, UploaderGoes(p, from, to), "mask" \notin from, "mask" \notin to
      PROVE  SamePending
  BY <1>7 DEF UploaderGoes, Pending, Current
<1>8. CASE Still(p) \/ HashesOn(p) \/ ByteSent(p) \/ WentAstray(p) \/ TakerDone(p)
  <2>1. downloader'[Other(p)].store = store /\ stream'[p] = stream[p] /\ SameUploader(p)
    BY <1>8
    DEF Still, HashesOn, ByteSent, WentAstray, TakerDone, TakerGoes, SameTaker, SameStream, Taker
  <2> QED
    BY <1>4, <1>5, <1>6, <2>1
<1>9. CASE Looked(p) \/ ByteReceived(p)
  <2>1. downloader'[Other(p)].store = store /\ stream'[p] = stream[p]
    BY <1>9 DEF Looked, ByteReceived, SameTaker, SameStream, Taker
  <2>2. SamePending
    BY <1>7, <1>9 DEF Looked, ByteReceived
  <2> QED
    BY <1>4, <1>5, <2>1, <2>2
<1>10. CASE OfferAnswered(p) \/ FileStored(p) \/ StrayedOn(p)
  <2>1. /\ stream[p] # <<>> /\ stream'[p] = Tail(stream[p]) /\ SameUploader(p)
        /\ \/ downloader'[Other(p)].store = store
           \/ /\ Head(stream[p]).kind = "file"
              /\ downloader'[Other(p)].store = Append(store, Head(stream[p]).image)
    BY <1>10 DEF OfferAnswered, FileStored, StrayedOn, Kind, Taker
  <2>2. SamePending
    BY <1>6, <2>1
  <2> HIDE DEF store
  <2>3. Ordered(e, n, store, Tail(stream[p]), Current(p), Pending(p))
    BY <1>3, <1>4, <2>1, OrderedTail
  <2>4. ASSUME Head(stream[p]).kind = "file"
        PROVE  Ordered(e, n, Append(store, Head(stream[p]).image), Tail(stream[p]),
                       Current(p), Pending(p))
    BY <1>3, <1>4, <2>1, <2>4, OrderedTail
  <2> QED
    BY <1>5, <2>1, <2>2, <2>3, <2>4
<1>11. CASE NothingScanned(p) \/ OfferSent(p)
  <2>1. /\ ScannedOn(p)
        /\ \/ stream'[p] = stream[p] /\ uploader'[p].at = "load"
           \/ stream'[p] = Append(stream[p], OfferOf(Scanned(p))) /\ uploader'[p].at = "mask"
    BY <1>11 DEF NothingScanned, OfferSent, SameStream
  <2>2. /\ downloader'[Other(p)].store = store /\ uploader[p].uploads = {}
        /\ uploader'[p].processed_entry_count = ScanEnd(p)
        /\ uploader'[p].missing_entries = Scanned(p)
        /\ Pending(p) = {}
        /\ Pending(p)' = IF uploader'[p].at = "mask" THEN Positions(Len(Scanned(p))) ELSE {}
    BY <1>3, <2>1 DEF ScannedOn, SameTaker, Taker, Pending, Current
  <2> DEFINE positions == Ascending(Unconfirmed(p, ScanEnd(p)))
  <2>3. /\ ScanEnd(p) \in Nat /\ n <= ScanEnd(p) /\ ScanEnd(p) <= Len(e)
    <3>1. /\ uploader[p].total_entry_count <= downloader[p].hasher_entry_count
          /\ uploader[p].total_entry_count \in Nat /\ downloader[p].hasher_entry_count \in Nat
          /\ downloader[p].hasher_entry_count <= Len(e)
      BY UploaderFacts, TypedParts DEF DownloaderOK
    <3>2. ScanEnd(p) \in n..uploader[p].total_entry_count
      BY ScanEndType DEF Typed
    <3> QED
      BY <1>2, <1>3, <3>1, <3>2
  <2>4. /\ Scanned(p) \in Seq(Hash)
        /\ \A i \in 1..Len(Scanned(p)) : /\ positions[i] \in (n + 1)..ScanEnd(p)
                                         /\ Scanned(p)[i] = e[positions[i]]
        /\ \A i, j \in 1..Len(Scanned(p)) : i < j => positions[i] < positions[j]
    BY ScannedEntries DEF Typed
  <2> HIDE DEF positions, e, n, store
  <2>5. \A i \in 1..Len(Scanned(p)) : positions[i] \in 1..Len(e)
    BY <1>2, <1>3, <2>3, <2>4
  <2>6. \A i \in DOMAIN Scanned(p) : /\ Place(e, Scanned(p)[i]) = positions[i]
                                     /\ Scanned(p)[i] \in ToSet(e)
    <3>1. \A i \in DOMAIN Scanned(p) : i \in 1..Len(Scanned(p))
      BY <2>4
    <3> QED
      BY <1>2, <2>4, <2>5, <3>1, PlaceOf DEF ToSet
  <2>7. \A i \in DOMAIN Scanned(p) : /\ Scanned(p)[i] \in ToSet(e)
                                     /\ Place(e, Scanned(p)[i]) \in (n + 1)..ScanEnd(p)
    BY <2>4, <2>6
  <2>8. \A i, j \in DOMAIN Scanned(p) : i < j => Before(e, Scanned(p)[i], Scanned(p)[j])
    <3>1. \A i \in DOMAIN Scanned(p) : i \in 1..Len(Scanned(p))
      BY <2>4
    <3> QED
      BY <2>4, <2>6, <3>1 DEF Before
  <2>9. Ordered(e, n, store, stream[p], Current(p), {})
    BY <1>4, <2>2
  <2>10. /\ Ordered(e, ScanEnd(p), store, stream[p], Scanned(p), {})
        /\ Ordered(e, ScanEnd(p), store, Append(stream[p], OfferOf(Scanned(p))), Scanned(p),
                   Positions(Len(Scanned(p))))
    BY <1>2, <1>3, <2>3, <2>4, <2>7, <2>8, <2>9, OrderedOffer
  <2> QED
    BY <1>5, <2>1, <2>2, <2>10
<1>12. CASE MaskReceived(p)
  <2>1. /\ downloader'[Other(p)].store = store /\ stream'[p] = stream[p]
        /\ uploader'[p].processed_entry_count = n
        /\ uploader'[p].missing_entries = Current(p)
        /\ Pending(p) = Positions(Len(Current(p)))
        /\ Pending(p)' \subseteq Pending(p)
    BY <1>12 DEF MaskReceived, UploadsOn, SameTaker, SameStream, Taker, Pending, Current, Uploaded
  <2>2. Ordered(e, n, store, stream[p], Current(p), Pending(p)')
    BY <1>4, <2>1, OrderedFewer
  <2> QED
    BY <1>5, <2>1, <2>2
<1>13. CASE FileSent(p)
  <2>1. PICK k \in uploader[p].uploads :
          /\ \A j \in uploader[p].uploads : k <= j
          /\ stream'[p] = Append(stream[p], FileOf(Current(p)[k + 1]))
          /\ UploadsOn(p, uploader[p].uploads \ {k})
    BY <1>13 DEF FileSent
  <2>2. /\ downloader'[Other(p)].store = store
        /\ uploader'[p].processed_entry_count = n
        /\ uploader'[p].missing_entries = Current(p)
        /\ Pending(p) = uploader[p].uploads
        /\ Pending(p)' = uploader[p].uploads \ {k}
    BY <1>13, <2>1 DEF FileSent, UploadsOn, SameTaker, Taker, Pending, Current
  <2> HIDE DEF e, n, store
  <2>3. Ordered(e, n, store, stream[p], Current(p), uploader[p].uploads)
    BY <1>4, <2>2
  <2>4. Ordered(e, n, store, Append(stream[p], FileOf(Current(p)[k + 1])), Current(p),
                uploader[p].uploads \ {k})
    BY <1>3, <2>1, <2>3, OrderedSend
  <2> QED
    BY <1>5, <2>1, <2>2, <2>4
<1> QED
  BY <1>8, <1>9, <1>10, <1>11, <1>12, <1>13, DirectionSteps DEF DirectionStep

\* In the beginning nothing has been offered.
LEMMA InOrderInit ==
  ASSUME Init, NEW p \in Peers
  PROVE  InOrder(p)
BY OtherPeer DEF Init, InOrder, Ordered, Files, Pending, Current, Taker
-----------------------------------------------------------------------------
(* Uploader and taker follow each other. *)

\* What is counted is finite, and the mask of the current offer is a byte.
LEMMA Counts ==
  ASSUME Typed, NEW p \in Peers
  PROVE  LET n == Len(Current(p)) IN
         /\ Current(p) \in Seq(Hash) /\ n \in Nat
         /\ uploader[p].uploads \in SUBSET Positions(n)
         /\ IsFiniteSet(uploader[p].uploads) /\ Cardinality(uploader[p].uploads) \in Nat
         /\ HeldNow(p) \in SUBSET Positions(n) /\ Mask(HeldNow(p)) \in Byte
         /\ \A mask : Cardinality(Uploaded(n, mask)) \in Nat
         /\ Cardinality(Expected(n, HeldNow(p))) \in Nat
         /\ Len(stream[p]) \in Nat /\ Taker(p).missing_hashes \in Nat
         /\ Taker(p).at = "files" => Taker(p).missing_hashes > 0
         /\ Taker(p).missing_hashes > 0 => Taker(p).at \in {"files", "astray"}
<1> DEFINE n == Len(Current(p))
<1>1. /\ Current(p) \in Seq(Hash) /\ n \in Nat
      /\ uploader[p].uploads \in SUBSET Positions(n)
  BY UploaderFacts DEF Current
<1>2. IsFiniteSet(Positions(n))
  BY <1>1, PositionsFinite
<1>3. \A S \in SUBSET Positions(n) : IsFiniteSet(S) /\ Cardinality(S) \in Nat
  BY <1>2, FS_Subset, FS_CardinalityType
<1>4. /\ HeldNow(p) \in SUBSET Positions(n) /\ Expected(n, HeldNow(p)) \in SUBSET Positions(n)
      /\ \A mask : Uploaded(n, mask) \in SUBSET Positions(n)
  BY DEF HeldNow, Held, Expected, Uploaded
<1>5. Mask(HeldNow(p)) \in Byte
  BY <1>1, <1>4, MaskIsByte
<1>6. Len(stream[p]) \in Nat
  BY DirectionFacts
<1>7. /\ Taker(p).missing_hashes \in Nat
      /\ Taker(p).at = "files" => Taker(p).missing_hashes > 0
      /\ Taker(p).missing_hashes > 0 => Taker(p).at \in {"files", "astray"}
  <2>1. downloader[Other(p)] \in DownloaderState
    BY DirectionFacts DEF Taker
  <2>2. OfferMax \in Nat
    BY PeerSyncAssumption
  <2>3. downloader[Other(p)].missing_hashes \in 0..OfferMax
    BY <2>1 DEF DownloaderState
  <2> QED
    BY <2>2, <2>3, OtherPeer, TypedParts DEF DownloaderOK, Taker
<1> QED
  BY <1>1, <1>3, <1>4, <1>5, <1>6, <1>7

\* The bytes of the answer are those the uploader waits for, and the first one
\* is the mask.
LEMMA AnswerRead ==
  ASSUME Typed, NEW p \in Peers, uploader[p].at = "mask", Answered(p)
  PROVE  /\ Len(acks[p]) = Awaited(p) /\ acks[p] \in Seq(Byte) /\ acks[p] # <<>>
         /\ Head(acks[p]) = Mask(HeldNow(p))
         /\ SubSeq(acks[p], Awaited(p) + 1, Len(acks[p])) = <<>>
<1>1. Len(Current(p)) \in Nat \ {0} /\ Awaited(p) = MaskSize(Len(Current(p)))
  BY AwaitedMask DEF Current
<1>2. Mask(HeldNow(p)) \in Byte
  BY Counts
<1>3. /\ acks[p] \in Seq(Byte) /\ Len(acks[p]) = Awaited(p) /\ Awaited(p) \in Nat \ {0}
      /\ acks[p][1] = Mask(HeldNow(p))
  BY <1>1, <1>2, MaskBytesType DEF Answered
<1>4. acks[p] # <<>> /\ Head(acks[p]) = acks[p][1]
  BY <1>3
<1>5. SubSeq(acks[p], Awaited(p) + 1, Len(acks[p])) = <<>>
  BY <1>3
<1> QED
  BY <1>3, <1>4, <1>5

\* Appended to the stream, a file leaves it a stream of files.
LEMMA FilesAppend ==
  ASSUME NEW tokens \in Seq(Token), FilesUpto(tokens, Len(tokens)), NEW t
  PROVE  /\ FilesUpto(Append(tokens, t), Len(tokens))
         /\ t.kind = "file" => FilesUpto(Append(tokens, t), Len(Append(tokens, t)))
<1>1. DOMAIN tokens = 1..Len(tokens)
  OBVIOUS
<1>2. 1..(Len(tokens) + 1) = 1..Len(tokens) \cup {Len(tokens) + 1}
  BY AppendTokens
<1> QED
  BY <1>1, <1>2, AppendTokens DEF FilesUpto

\* Its tail is one of files, too, or the offer that is all there was.
LEMMA FilesTail ==
  ASSUME NEW tokens \in Seq(Token), tokens # <<>>
  PROVE  /\ FilesUpto(tokens, Len(tokens)) => FilesUpto(Tail(tokens), Len(Tail(tokens)))
         /\ FilesUpto(tokens, Len(tokens) - 1) => FilesUpto(Tail(tokens), Len(Tail(tokens)) - 1)
         /\ FilesUpto(tokens, Len(tokens) - 1) /\ Head(tokens).kind # "file" => Len(tokens) = 1
         /\ FilesUpto(tokens, Len(tokens)) => Head(tokens).kind = "file"
         /\ Len(tokens) # 1 => /\ Tail(tokens) # <<>>
                               /\ Tail(tokens)[Len(Tail(tokens))] = tokens[Len(tokens)]
<1>1. /\ Len(tokens) \in Nat \ {0} /\ Len(Tail(tokens)) = Len(tokens) - 1
      /\ Head(tokens) = tokens[1] /\ Tail(tokens) \in Seq(Token)
      /\ \A k \in DOMAIN Tail(tokens) : Tail(tokens)[k] = tokens[k + 1]
  BY TailTokens
<1>2. DOMAIN Tail(tokens) = 1..Len(Tail(tokens))
  BY <1>1
<1>3. ASSUME NEW m \in {Len(tokens), Len(tokens) - 1}, FilesUpto(tokens, m)
      PROVE  FilesUpto(Tail(tokens), m - 1)
  <2> SUFFICES ASSUME NEW k \in 1..(m - 1) PROVE Tail(tokens)[k].kind = "file"
    BY DEF FilesUpto
  <2>1. k \in DOMAIN Tail(tokens) /\ k + 1 \in 1..m
    BY <1>1, <1>2
  <2> QED
    BY <1>1, <1>3, <2>1 DEF FilesUpto
<1>4. FilesUpto(tokens, Len(tokens) - 1) /\ Head(tokens).kind # "file" => Len(tokens) = 1
  <2> SUFFICES ASSUME FilesUpto(tokens, Len(tokens) - 1), Len(tokens) # 1
               PROVE  Head(tokens).kind = "file"
    OBVIOUS
  <2>1. 1 \in 1..(Len(tokens) - 1)
    BY <1>1
  <2> QED
    BY <1>1, <2>1 DEF FilesUpto
<1>5. FilesUpto(tokens, Len(tokens)) => Head(tokens).kind = "file"
  <2>1. 1 \in 1..Len(tokens)
    BY <1>1
  <2> QED
    BY <1>1, <2>1 DEF FilesUpto
<1>6. Len(tokens) # 1 => /\ Tail(tokens) # <<>>
                         /\ Tail(tokens)[Len(Tail(tokens))] = tokens[Len(tokens)]
  <2> SUFFICES ASSUME Len(tokens) # 1
               PROVE  Tail(tokens) # <<>> /\ Tail(tokens)[Len(Tail(tokens))] = tokens[Len(tokens)]
    OBVIOUS
  <2>1. PICK m : m = Len(Tail(tokens)) /\ m \in DOMAIN Tail(tokens) /\ m + 1 = Len(tokens)
    <3>1. Len(Tail(tokens)) \in 1..Len(Tail(tokens)) /\ Len(Tail(tokens)) + 1 = Len(tokens)
      BY <1>1
    <3> QED
      BY <1>2, <3>1
  <2>2. Tail(tokens)[m] = tokens[m + 1]
    BY <1>1, <2>1
  <2>3. Tail(tokens) # <<>>
    <3>1. Tail(tokens) \in Seq(Token) /\ Len(Tail(tokens)) # 0
      BY <1>1
    <3> QED
      BY <3>1, EmptySeq
  <2> QED
    BY <2>1, <2>2, <2>3
<1> QED
  BY <1>1, <1>3, <1>4, <1>5, <1>6

\* The taker's next place, and how it and the uploader then stand to each other.
Follows(p) ==
  /\ Phase(p)'
  /\ \/ /\ Taker(p)'.missing_hashes = Taker(p).missing_hashes
        /\ Coming(p)' = Coming(p)
     \/ /\ Taker(p)'.missing_hashes = Taker(p).missing_hashes - 1
        /\ Coming(p)' = Coming(p) - 1
     \/ /\ OfferAnswered(p) /\ uploader[p].at = "mask" /\ uploader'[p].at = "mask"
        /\ Head(stream[p]).hashes = Current(p) /\ Len(stream[p]) = 1
        /\ Taker(p)'.missing_hashes = Cardinality(Expected(Len(Current(p)), HeldNow(p)))
        /\ Coming(p)' = Cardinality(Uploaded(Len(Current(p)), Mask(HeldNow(p))))

\* Unless the taker goes astray, one offer at a time is made, answered, uploaded
\* and taken.
LEMMA PhaseStep ==
  ASSUME Typed, [Next]_vars, NEW p \in Peers,
         Taker(p).at # "astray", Phase(p), Enough(p), Ended(p)
  PROVE  WentAstray(p) \/ Follows(p)
<1>1. entries' = entries
  BY EntriesSteps
<1>2. /\ stream[p] \in Seq(Token) /\ acks[p] \in Seq(Byte)
      /\ uploader[p].at \notin {"files"} => uploader[p].uploads = {}
  BY DirectionFacts, UploaderFacts
<1>3. Cardinality({}) = 0
  BY FS_EmptySet
<1>4. Taker(p)' = downloader'[Other(p)]
  BY DEF Taker
<1> DEFINE SameCount == /\ Taker(p)'.missing_hashes = Taker(p).missing_hashes
                        /\ Coming(p)' = Coming(p)
<1>5. Phase(p)' /\ SameCount => Follows(p)
  BY DEF Follows
<1>6. ASSUME SameUploader(p), SameStream(p), SameAcks(p)
      PROVE  /\ Offering(p)' <=> Offering(p)
             /\ Answered(p)' <=> Answered(p)
             /\ Coming(p)' = Coming(p)
  BY <1>1, <1>6
  DEF SameUploader, SameStream, SameAcks, Offering, Answered, Coming, Current, HeldNow, Held
<1>7. CASE Still(p)
  <2>1. SameUploader(p) /\ SameStream(p) /\ SameAcks(p) /\ Taker(p)' = Taker(p)
    BY <1>7 DEF Still, SameTaker, Taker
  <2>2. Phase(p)'
    BY <1>6, <2>1 DEF Phase, SameUploader, SameStream, SameAcks
  <2> QED
    BY <1>5, <1>6, <2>1, <2>2
<1>8. CASE HashesOn(p)
  <2>1. /\ SameUploader(p) /\ SameStream(p) /\ SameAcks(p)
        /\ Taker(p).at \in Early /\ Taker(p)'.at \in Early
        /\ Taker(p)'.missing_hashes = Taker(p).missing_hashes
    BY <1>8 DEF HashesOn, TakerGoes, Taker, Early
  <2>2. uploader[p].at = "byte"
    BY <2>1 DEF Phase
  <2>3. Phase(p)'
    BY <2>1, <2>2 DEF Phase, SameUploader, SameStream, SameAcks
  <2> QED
    BY <1>5, <1>6, <2>1, <2>3
<1>9. CASE ByteSent(p)
  <2>1. /\ SameUploader(p) /\ SameStream(p)
        /\ Taker(p).at \in Early /\ Taker(p)'.at \notin Early
        /\ Taker(p)'.missing_hashes = Taker(p).missing_hashes
    BY <1>9 DEF ByteSent, TakerGoes, Taker, Early
  <2>2. uploader[p].at = "byte" /\ acks[p] = <<>> /\ stream[p] = <<>>
    BY <2>1 DEF Phase
  <2>3. PICK byte : acks'[p] = Append(<<>>, byte)
    BY <1>9, <2>2 DEF ByteSent
  <2>4. Len(acks'[p]) = 1
    BY <2>3
  <2>5. Phase(p)'
    BY <2>1, <2>2, <2>4 DEF Phase, SameUploader, SameStream
  <2>6. Coming(p)' = Coming(p)
    BY <2>1, <2>2 DEF Coming, SameUploader, SameStream
  <2> QED
    BY <1>5, <2>1, <2>5, <2>6
<1>10. CASE OfferAnswered(p)
  <2>1. /\ SameUploader(p) /\ stream'[p] = Tail(stream[p])
        /\ stream[p] # <<>> /\ Head(stream[p]).kind = "offer"
        /\ Taker(p).at = "offers" /\ Taker(p)'.at \in {"offers", "files"}
    BY <1>10 DEF OfferAnswered, Kind, Taker
  <2>2. uploader[p].at = "mask" /\ Offering(p)
    <3>1. Head(stream[p]).kind # "file"
      BY <2>1
    <3>2. ~FilesUpto(stream[p], Len(stream[p]))
      BY <1>2, <2>1, <3>1, FilesTail
    <3> QED
      BY <2>1, <3>2 DEF Phase, Answered
  <2>3. Len(stream[p]) = 1 /\ Head(stream[p]).hashes = Current(p) /\ acks[p] = <<>>
    <3>1. Len(stream[p]) = 1
      BY <1>2, <2>1, <2>2, FilesTail DEF Offering
    <3>2. Head(stream[p]) = OfferOf(Current(p))
      BY <1>2, <2>1, <2>2, <3>1, TailTokens DEF Offering
    <3> QED
      BY <2>2, <3>1, <3>2 DEF Offering, OfferOf
  <2>4. stream'[p] = <<>>
    BY <1>2, <2>1, <2>3, TailTokens, EmptySeq
  <2>5. MaskBytes(Len(Current(p)), Mask(HeldNow(p))) \in Seq(Byte)
    BY AwaitedMask, Counts, MaskBytesType, <2>2 DEF Current
  <2>6. acks'[p] = MaskBytes(Len(Current(p)), Mask(HeldNow(p)))
    <3>1. acks'[p] = acks[p] \o MaskBytes(Len(Current(p)), Mask(HeldNow(p)))
      BY <1>10, <2>3 DEF OfferAnswered, HeldNow
    <3> QED
      BY <2>3, <2>5, <3>1
  <2>7. Current(p)' = Current(p) /\ HeldNow(p)' = HeldNow(p)
    BY <1>1, <2>1 DEF Current, HeldNow, Held, SameUploader
  <2>8. Answered(p)'
    BY <2>4, <2>6, <2>7 DEF Answered
  <2>9. Phase(p)'
    BY <2>1, <2>2, <2>8 DEF Phase, Early, SameUploader
  <2>10. Coming(p)' = Cardinality(Uploaded(Len(Current(p)), Mask(HeldNow(p))))
    BY <2>1, <2>2, <2>4, <2>7 DEF Coming, SameUploader
  <2>11. Taker(p)'.missing_hashes = Cardinality(Expected(Len(Current(p)), HeldNow(p)))
    BY <1>4, <1>10, <2>3 DEF OfferAnswered, HeldNow
  <2>12. uploader'[p].at = "mask"
    BY <2>1, <2>2 DEF SameUploader
  <2> QED
    BY <1>10, <2>2, <2>3, <2>9, <2>10, <2>11, <2>12 DEF Follows
<1>11. CASE FileStored(p)
  <2>1. /\ SameUploader(p) /\ SameAcks(p) /\ stream'[p] = Tail(stream[p])
        /\ stream[p] # <<>> /\ Head(stream[p]).kind = "file"
        /\ Taker(p).at = "files" /\ Taker(p)'.at \in {"offers", "files"}
        /\ Taker(p)'.missing_hashes = Taker(p).missing_hashes - 1
    BY <1>11 DEF FileStored, Kind, Taker
  <2>2. uploader[p].at # "byte"
    BY <2>1 DEF Phase
  <2>3. Len(stream'[p]) = Len(stream[p]) - 1 /\ Len(stream[p]) \in Nat \ {0}
    BY <1>2, <2>1, TailTokens
  <2>4. CASE uploader[p].at = "mask"
    <3>1. Offering(p)
      BY <2>1, <2>4 DEF Phase, Answered
    <3>2. Len(stream[p]) # 1
      <4> SUFFICES ASSUME Len(stream[p]) = 1 PROVE FALSE
        OBVIOUS
      <4>1. Head(stream[p]) = OfferOf(Current(p))
        BY <1>2, <2>1, <3>1, TailTokens DEF Offering
      <4> QED
        BY <2>1, <4>1 DEF OfferOf
    <3>3. Offering(p)'
      <4>1. /\ stream'[p] # <<>> /\ stream'[p][Len(stream'[p])] = OfferOf(Current(p))
            /\ FilesUpto(stream'[p], Len(stream'[p]) - 1)
        BY <1>2, <2>1, <3>1, <3>2, FilesTail DEF Offering
      <4>2. acks'[p] = <<>> /\ Current(p)' = Current(p)
        BY <2>1, <3>1 DEF Offering, SameAcks, SameUploader, Current
      <4> QED
        BY <4>1, <4>2 DEF Offering
    <3>4. Phase(p)'
      BY <2>1, <2>4, <3>3 DEF Phase, Early, SameUploader
    <3>5. Coming(p)' = Coming(p) - 1
      BY <2>1, <2>3, <2>4, <3>3 DEF Coming, Offering, SameUploader
    <3> QED
      BY <2>1, <3>4, <3>5 DEF Follows
  <2>5. CASE uploader[p].at # "mask"
    <3>1. FilesUpto(stream'[p], Len(stream'[p])) /\ acks'[p] = <<>>
      BY <1>2, <2>1, <2>2, <2>5, FilesTail DEF Phase, SameAcks
    <3>2. Phase(p)'
      BY <2>1, <2>2, <2>5, <3>1 DEF Phase, Early, SameUploader
    <3>3. Coming(p)' = Len(stream'[p]) + Cardinality(uploader[p].uploads)
      BY <2>1, <2>5 DEF Coming, SameUploader
    <3>4. Cardinality(uploader[p].uploads) \in Nat
      BY Counts
    <3>5. Coming(p)' = Coming(p) - 1
      BY <2>3, <2>5, <3>3, <3>4 DEF Coming
    <3> QED
      BY <2>1, <3>2, <3>5 DEF Follows
  <2> QED
    BY <2>4, <2>5
<1>12. CASE StrayedOn(p)
  BY <1>12 DEF StrayedOn
<1>13. CASE TakerDone(p)
  <2>1. /\ SameUploader(p) /\ SameStream(p) /\ SameAcks(p)
        /\ Taker(p).at \notin Early /\ Taker(p)'.at \notin Early
        /\ Taker(p)'.missing_hashes = Taker(p).missing_hashes
    BY <1>13 DEF TakerDone, TakerGoes, Taker, Early
  <2>2. Phase(p)'
    BY <1>6, <2>1 DEF Phase, SameUploader, SameStream, SameAcks
  <2> QED
    BY <1>5, <1>6, <2>1, <2>2
<1>14. ASSUME SameTaker(p) PROVE Taker(p)' = Taker(p)
  BY <1>14 DEF SameTaker, Taker
<1>15. CASE Looked(p)
  <2>1. /\ uploader[p].at \notin {"byte", "mask"} /\ uploader'[p].at \notin {"byte", "mask"}
        /\ uploader'[p].uploads = uploader[p].uploads
        /\ SameTaker(p) /\ SameStream(p) /\ SameAcks(p)
    BY <1>15 DEF Looked, UploaderGoes
  <2>2. Phase(p)'
    BY <1>14, <2>1 DEF Phase, SameStream, SameAcks
  <2>3. Coming(p)' = Coming(p)
    BY <2>1 DEF Coming, SameStream
  <2> QED
    BY <1>5, <1>14, <2>1, <2>2, <2>3
<1>16. CASE ByteReceived(p)
  <2>1. /\ uploader[p].at = "byte" /\ uploader'[p].at = "load"
        /\ uploader'[p].uploads = uploader[p].uploads
        /\ SameTaker(p) /\ SameStream(p)
        /\ acks[p] # <<>> /\ acks'[p] = Tail(acks[p])
    BY <1>16 DEF ByteReceived, UploaderGoes
  <2>2. Taker(p).at \notin Early /\ Len(acks[p]) = 1 /\ stream[p] = <<>>
    BY <2>1 DEF Phase
  <2>3. acks'[p] = <<>>
    BY <1>2, <2>1, <2>2, TailTokens, EmptySeq
  <2>4. FilesUpto(stream'[p], Len(stream'[p]))
    BY <2>1, <2>2 DEF FilesUpto, SameStream
  <2>5. Phase(p)'
    BY <1>14, <2>1, <2>2, <2>3, <2>4 DEF Phase
  <2>6. Coming(p)' = Coming(p)
    BY <2>1 DEF Coming, SameStream
  <2> QED
    BY <1>5, <1>14, <2>1, <2>5, <2>6
<1>17. CASE NothingScanned(p)
  <2>1. /\ uploader[p].at = "scan" /\ uploader'[p].at = "load"
        /\ uploader'[p].uploads = uploader[p].uploads
        /\ SameTaker(p) /\ SameStream(p) /\ SameAcks(p)
    BY <1>17 DEF NothingScanned, ScannedOn
  <2>2. Phase(p)'
    BY <1>14, <2>1 DEF Phase, SameStream, SameAcks
  <2>3. Coming(p)' = Coming(p)
    BY <2>1 DEF Coming, SameStream
  <2> QED
    BY <1>5, <1>14, <2>1, <2>2, <2>3
<1>18. CASE OfferSent(p)
  <2>1. /\ uploader[p].at = "scan" /\ uploader'[p].at = "mask"
        /\ uploader[p].uploads = {} /\ SameTaker(p) /\ SameAcks(p)
        /\ Current(p)' = Scanned(p)
        /\ stream'[p] = Append(stream[p], OfferOf(Scanned(p)))
    BY <1>2, <1>18 DEF OfferSent, ScannedOn, Current
  <2>2. FilesUpto(stream[p], Len(stream[p])) /\ acks[p] = <<>> /\ Taker(p).at \notin Early
    BY <2>1 DEF Phase
  <2>3. /\ Len(stream'[p]) = Len(stream[p]) + 1 /\ Len(stream[p]) \in Nat
        /\ stream'[p][Len(stream[p]) + 1] = OfferOf(Scanned(p))
    BY <1>2, <2>1, AppendTokens
  <2>4. stream'[p] # <<>>
    BY <2>3
  <2>5. FilesUpto(stream'[p], Len(stream[p]))
    BY <1>2, <2>1, <2>2, FilesAppend
  <2>6. Offering(p)'
    BY <2>1, <2>2, <2>3, <2>4, <2>5 DEF Offering, SameAcks
  <2>7. Phase(p)'
    BY <1>14, <2>1, <2>2, <2>6 DEF Phase
  <2>8. Coming(p)' = Len(stream[p])
    BY <2>1, <2>3, <2>4 DEF Coming
  <2>9. Coming(p) = Len(stream[p])
    BY <1>3, <2>1, <2>3 DEF Coming
  <2> QED
    BY <1>5, <1>14, <2>1, <2>7, <2>8, <2>9
<1>19. CASE MaskReceived(p)
  <2>1. /\ uploader[p].at = "mask" /\ uploader'[p].at \in {"load", "files"}
        /\ Len(acks[p]) >= Awaited(p)
        /\ acks'[p] = SubSeq(acks[p], Awaited(p) + 1, Len(acks[p]))
        /\ uploader'[p].uploads = Uploaded(Len(Current(p)), Head(acks[p]))
        /\ SameTaker(p) /\ SameStream(p)
    BY <1>19 DEF MaskReceived, UploadsOn
  <2>2. Answered(p)
    <3> SUFFICES ASSUME acks[p] = <<>> PROVE FALSE
      BY <2>1 DEF Phase, Offering
    <3>1. Awaited(p) \in Nat \ {0} /\ Len(acks[p]) = 0
      BY <2>1, AwaitedMask
    <3> QED
      BY <2>1, <3>1
  <2>3. Head(acks[p]) = Mask(HeldNow(p)) /\ acks'[p] = <<>>
    BY <2>1, <2>2, AnswerRead
  <2>4. stream[p] = <<>> /\ stream'[p] = <<>>
    BY <2>1, <2>2 DEF Answered, SameStream
  <2>5. Taker(p).at \notin Early
    BY <2>1 DEF Phase
  <2>6. FilesUpto(stream'[p], Len(stream'[p]))
    BY <2>4 DEF FilesUpto
  <2>7. Phase(p)'
    BY <1>14, <2>1, <2>3, <2>5, <2>6 DEF Phase
  <2>8. Coming(p)' = 0 + Cardinality(Uploaded(Len(Current(p)), Mask(HeldNow(p))))
    BY <2>1, <2>3, <2>4 DEF Coming
  <2>9. /\ Coming(p) = Cardinality(Uploaded(Len(Current(p)), Mask(HeldNow(p))))
        /\ Coming(p) \in Nat
    BY <2>1, <2>4, Counts DEF Coming
  <2> QED
    BY <1>5, <1>14, <2>1, <2>7, <2>8, <2>9
<1>20. CASE FileSent(p)
  <2>1. PICK k \in uploader[p].uploads :
          /\ uploader[p].at = "files" /\ uploader'[p].at \in {"load", "files"}
          /\ stream'[p] = Append(stream[p], FileOf(Current(p)[k + 1]))
          /\ uploader'[p].uploads = uploader[p].uploads \ {k}
          /\ SameTaker(p) /\ SameAcks(p)
    BY <1>20 DEF FileSent, UploadsOn
  <2>2. FilesUpto(stream[p], Len(stream[p])) /\ acks[p] = <<>> /\ Taker(p).at \notin Early
    BY <2>1 DEF Phase
  <2>3. Len(stream'[p]) = Len(stream[p]) + 1 /\ Len(stream[p]) \in Nat
    BY <1>2, <2>1, AppendTokens
  <2>4. FilesUpto(stream'[p], Len(stream'[p]))
    <3>1. FileOf(Current(p)[k + 1]).kind = "file"
      BY DEF FileOf
    <3> QED
      BY <1>2, <2>1, <2>2, <3>1, FilesAppend
  <2>5. Phase(p)'
    BY <1>14, <2>1, <2>2, <2>4 DEF Phase, SameAcks
  <2>6. /\ Cardinality(uploader'[p].uploads) = Cardinality(uploader[p].uploads) - 1
        /\ Cardinality(uploader[p].uploads) \in Nat
    <3>1. /\ IsFiniteSet(uploader[p].uploads) /\ Cardinality(uploader[p].uploads) \in Nat
          /\ k \in uploader[p].uploads
      BY <2>1, Counts
    <3>2. Cardinality(uploader[p].uploads \ {k}) = Cardinality(uploader[p].uploads) - 1
      BY <3>1, FS_RemoveElement
    <3> QED
      BY <2>1, <3>1, <3>2
  <2>7. Coming(p)' = Len(stream'[p]) + Cardinality(uploader'[p].uploads)
    BY <2>1 DEF Coming
  <2>8. Coming(p) = Len(stream[p]) + Cardinality(uploader[p].uploads)
    BY <2>1 DEF Coming
  <2>9. Coming(p)' = Coming(p)
    BY <2>3, <2>6, <2>7, <2>8
  <2> QED
    BY <1>5, <1>14, <2>1, <2>5, <2>9
<1> QED
  BY <1>7, <1>8, <1>9, <1>10, <1>11, <1>12, <1>13, <1>15, <1>16, <1>17, <1>18, <1>19, <1>20,
     DirectionSteps DEF DirectionStep

\* Offers, and whether they were misread, are never changed.
LEMMA OffersGrow ==
  ASSUME Typed, [Next]_vars, NEW p \in Peers
  PROVE  /\ uploader[p].offers \in Seq(Seq(Hash)) /\ Len(uploader[p].offers) \in Nat
         /\ \A k \in 1..Len(uploader[p].offers) :
              /\ uploader'[p].offers[k] = uploader[p].offers[k]
              /\ Misread(p, k)' <=> Misread(p, k)
<1>1. uploader[p].offers \in Seq(Seq(Hash)) /\ Len(uploader[p].offers) \in Nat
  BY UploaderFacts
<1>2. entries' = entries
  BY EntriesSteps
<1>3. ASSUME NEW k \in 1..Len(uploader[p].offers)
      PROVE  uploader'[p].offers[k] = uploader[p].offers[k]
  <2>1. CASE uploader'[p].offers = uploader[p].offers
    BY <2>1
  <2>2. CASE uploader'[p].offers = Append(uploader[p].offers, Scanned(p))
    BY <1>1, <1>3, <2>2, AppendTokens
  <2> QED
    BY <2>1, <2>2, OffersStep
<1> QED
  BY <1>1, <1>2, <1>3 DEF Misread, Held

\* So an offer that was read stays read, and a misread one stays misread.
LEMMA MisreadStays ==
  ASSUME Typed, [Next]_vars, NEW p \in Peers
  PROVE  MisreadBefore(p) => MisreadBefore(p)'
<1> DEFINE n == Len(uploader[p].offers)
<1>1. n \in Nat
  BY OffersGrow
<1>2. OffersRead(p) \in Int /\ OffersRead(p) <= n
  BY <1>1 DEF OffersRead
<1>3. stream[p] \in Seq(Token)
  BY DirectionFacts
<1>4. CASE SameUploader(p)
  <2>1. CASE stream[p] # <<>> /\ stream'[p] = Tail(stream[p])
    <3>1. OfferOnItsWay(p)' => OfferOnItsWay(p)
      BY <1>3, <2>1, TailTokens DEF OfferOnItsWay
    <3>2. OffersRead(p)' \in Int /\ OffersRead(p) <= OffersRead(p)'
      BY <1>1, <1>4, <3>1 DEF SameUploader, OffersRead
    <3>3. OffersRead(p)' <= n
      BY <1>1, <1>4, <3>1 DEF SameUploader, OffersRead
    <3> QED
      BY <1>1, <1>2, <3>2, <3>3, OffersGrow DEF MisreadBefore
  <2>2. stream'[p] = stream[p] \/ (stream[p] # <<>> /\ stream'[p] = Tail(stream[p]))
    <3>1. DirectionStep(p)
      BY DirectionSteps
    <3>2. ~UploaderGoes(p, {"byte"}, {"load"}) /\ ~OfferSent(p) /\ ~MaskReceived(p) /\ ~FileSent(p)
      BY <1>4 DEF SameUploader, UploaderGoes, OfferSent, ScannedOn, MaskReceived, UploadsOn, FileSent
    <3> QED
      BY <3>1, <3>2
      DEF DirectionStep, Still, HashesOn, ByteSent, OfferAnswered, FileStored, WentAstray,
          StrayedOn, TakerDone, Looked, ByteReceived, NothingScanned, SameStream, Kind
  <2>3. ASSUME stream'[p] = stream[p] PROVE MisreadBefore(p) => MisreadBefore(p)'
    <3>1. OffersRead(p)' = OffersRead(p)
      BY <1>4, <2>3 DEF SameUploader, OffersRead, OfferOnItsWay
    <3> QED
      BY <1>1, <1>2, <3>1, OffersGrow DEF MisreadBefore
  <2> QED
    BY <2>1, <2>2, <2>3
<1>5. CASE uploader'[p].at # "mask" /\ uploader'[p].offers = uploader[p].offers
  <2>1. OffersRead(p)' = n
    BY <1>5 DEF OffersRead
  <2> QED
    BY <1>1, <1>2, <2>1, OffersGrow DEF MisreadBefore
<1>6. CASE OfferSent(p)
  <2>1. Len(uploader'[p].offers) = n + 1
    BY <1>6, OffersGrow, AppendTokens DEF OfferSent
  <2>2. n <= OffersRead(p)' /\ \A k \in 1..n : k \in 1..OffersRead(p)'
    BY <1>1, <2>1 DEF OffersRead
  <2>3. \A k \in 1..n : Misread(p, k)' <=> Misread(p, k)
    BY OffersGrow
  <2>4. \A k \in 1..OffersRead(p) : k \in 1..n
    BY <1>1, <1>2
  <2> QED
    BY <2>2, <2>3, <2>4 DEF MisreadBefore
<1>7. CASE Looked(p) \/ ByteReceived(p) \/ NothingScanned(p) \/ MaskReceived(p) \/ FileSent(p)
  <2>1. uploader'[p].at # "mask" /\ uploader'[p].offers = uploader[p].offers
    BY <1>7
    DEF Looked, ByteReceived, UploaderGoes, NothingScanned, MaskReceived, FileSent, UploadsOn
  <2> QED
    BY <1>5, <2>1
<1> QED
  BY <1>4, <1>6, <1>7, DirectionSteps
  DEF DirectionStep, Still, HashesOn, ByteSent, OfferAnswered, FileStored, WentAstray,
      StrayedOn, TakerDone

\* Every step keeps the last offer among those made.
LEMMA CurrentOfferedStep ==
  ASSUME Typed, [Next]_vars, NEW p \in Peers, CurrentOffered(p)
  PROVE  CurrentOffered(p)'
<1>1. CASE SameUploader(p)
  BY <1>1 DEF SameUploader, CurrentOffered, Current
<1>2. CASE OfferSent(p)
  <2>1. /\ Current(p)' = Scanned(p)
        /\ uploader'[p].offers = Append(uploader[p].offers, Scanned(p))
    BY <1>2 DEF OfferSent, ScannedOn, Current
  <2>2. /\ Len(uploader'[p].offers) = Len(uploader[p].offers) + 1 /\ Len(uploader[p].offers) \in Nat
        /\ uploader'[p].offers[Len(uploader[p].offers) + 1] = Scanned(p)
    BY <2>1, OffersGrow, AppendTokens
  <2>3. uploader'[p].offers # <<>>
    BY <2>2
  <2> QED
    BY <2>1, <2>2, <2>3 DEF CurrentOffered
<1>3. CASE Looked(p) \/ ByteReceived(p) \/ NothingScanned(p) \/ MaskReceived(p) \/ FileSent(p)
  <2>1. uploader'[p].at # "mask"
    BY <1>3
    DEF Looked, ByteReceived, UploaderGoes, NothingScanned, MaskReceived, FileSent, UploadsOn
  <2> QED
    BY <2>1 DEF CurrentOffered
<1> QED
  BY <1>1, <1>2, <1>3, DirectionSteps
  DEF DirectionStep, Still, HashesOn, ByteSent, OfferAnswered, FileStored, WentAstray,
      StrayedOn, TakerDone

\* A downloader that is through has left nothing unread, now and later.
LEMMA EndedStep ==
  ASSUME Typed, [Next]_vars, NEW p \in Peers, Ended(p)
  PROVE  Ended(p)'
<1> SUFFICES ASSUME Taker(p)'.at = "done"
             PROVE  stream'[p] = <<>> /\ (uploader'[p].at = "done" \/ ~Running(p)')
  BY DEF Ended
<1>1. Taker(p)' = downloader'[Other(p)]
  BY DEF Taker
<1>2. ~Running(p) => ~Running(p)'
  BY EndedStays DEF Running
<1>3. CASE Taker(p).at = "done"
  <2>1. stream[p] = <<>> /\ (uploader[p].at = "done" \/ ~Running(p))
    BY <1>3 DEF Ended
  <2>2. Still(p)
    <3>1. ~(Looked(p) \/ ByteReceived(p) \/ NothingScanned(p) \/ OfferSent(p) \/ MaskReceived(p)
            \/ FileSent(p))
      BY <2>1
      DEF Looked, ByteReceived, UploaderGoes, NothingScanned, OfferSent, ScannedOn,
          MaskReceived, FileSent, UploadsOn
    <3>2. ~(HashesOn(p) \/ ByteSent(p) \/ OfferAnswered(p) \/ FileStored(p) \/ WentAstray(p)
            \/ StrayedOn(p) \/ TakerDone(p))
      BY <1>3
      DEF HashesOn, ByteSent, OfferAnswered, FileStored, WentAstray, StrayedOn, TakerDone, TakerGoes
    <3> QED
      BY <3>1, <3>2, DirectionSteps DEF DirectionStep
  <2> QED
    BY <1>2, <2>1, <2>2 DEF Still, SameUploader, SameStream
<1>4. CASE Taker(p).at # "done"
  <2>1. TakerDone(p)
    BY <1>1, <1>4, DirectionSteps
    DEF DirectionStep, Still, HashesOn, ByteSent, OfferAnswered, FileStored, WentAstray, StrayedOn,
        Looked, ByteReceived, NothingScanned, OfferSent, ScannedOn, MaskReceived, FileSent,
        UploadsOn, SameTaker, TakerGoes, Early, Taker
  <2> QED
    BY <1>2, <2>1 DEF TakerDone, EndOfStream, SameUploader, SameStream
<1> QED
  BY <1>3, <1>4

\* A taker that is in step never meets a file where an offer is read.
LEMMA InStepReads ==
  ASSUME Typed, NEW p \in Peers, Phase(p), Exact(p)
  PROVE  /\ Taker(p).at = "offers" => ~Kind(stream[p], "file")
         /\ ~WentAstray(p)
<1>1. ASSUME Taker(p).at = "offers", Kind(stream[p], "file") PROVE FALSE
  <2>1. stream[p] \in Seq(Token) /\ stream[p] # <<>> /\ Head(stream[p]).kind = "file"
    BY <1>1, DirectionFacts DEF Kind
  <2>2. Coming(p) = 0
    BY <1>1, Counts DEF Exact
  <2>3. Len(stream[p]) \in Nat \ {0}
    BY <2>1, TailTokens
  <2>4. CASE uploader[p].at # "mask"
    BY <2>2, <2>3, <2>4, Counts DEF Coming
  <2>5. CASE uploader[p].at = "mask"
    <3>1. Offering(p) /\ Len(stream[p]) = 1
      BY <2>1, <2>2, <2>3, <2>5 DEF Coming, Phase, Answered
    <3>2. Head(stream[p]) = OfferOf(Current(p))
      BY <2>1, <3>1, TailTokens DEF Offering
    <3> QED
      BY <2>1, <3>2 DEF OfferOf
  <2> QED
    BY <2>4, <2>5
<1> QED
  BY <1>1 DEF WentAstray, TakerGoes

\* Where the taker may be next, if it does not go astray.
LEMMA TakerNext ==
  ASSUME Typed, [Next]_vars, NEW p \in Peers
  PROVE  /\ Taker(p).at # "astray" => (Taker(p)'.at = "astray" <=> WentAstray(p))
         /\ Taker(p).at \in {"astray", "done"} => Taker(p)'.at \in {"astray", "done"}
         /\ WentAstray(p) => Taker(p).at = "offers"
<1>1. Taker(p)' = downloader'[Other(p)]
  BY DEF Taker
<1>2. WentAstray(p) => Taker(p).at = "offers" /\ Taker(p)'.at = "astray"
  BY <1>1 DEF WentAstray, TakerGoes
<1>3. HashesOn(p) \/ ByteSent(p) \/ OfferAnswered(p) \/ FileStored(p) =>
        Taker(p)'.at # "astray" /\ Taker(p).at \notin {"astray", "done"}
  BY <1>1 DEF HashesOn, ByteSent, OfferAnswered, FileStored, TakerGoes, Early
<1>4. StrayedOn(p) => Taker(p).at = "astray" /\ Taker(p)'.at = "astray"
  BY <1>1 DEF StrayedOn
<1>5. TakerDone(p) => Taker(p)'.at = "done"
  BY <1>1 DEF TakerDone, TakerGoes
<1>6. \/ Still(p) \/ Looked(p) \/ ByteReceived(p) \/ NothingScanned(p) \/ OfferSent(p)
      \/ MaskReceived(p) \/ FileSent(p)
      => Taker(p)' = Taker(p)
  BY <1>1
  DEF Still, Looked, ByteReceived, NothingScanned, OfferSent, ScannedOn, MaskReceived, FileSent,
      UploadsOn, SameTaker, Taker
<1> QED
  BY <1>2, <1>3, <1>4, <1>5, <1>6, DirectionSteps DEF DirectionStep

\* A file is taken for an offer by its name.
LEMMA AstrayByName ==
  ASSUME Typed, NEW p \in Peers, InOrder(p), WentAstray(p)
  PROVE  ShortName(p)
<1>1. /\ stream[p] \in Seq(Token) /\ stream[p] # <<>> /\ Head(stream[p]).kind = "file"
      /\ NameLength[Head(stream[p]).image] <= OfferMax
  BY DirectionFacts DEF WentAstray, Kind
<1>2. 1 \in Files(stream[p]) /\ Head(stream[p]) = stream[p][1]
  BY <1>1, TailTokens DEF Files
<1>3. Head(stream[p]).image \in ToSet(entries[p])
  BY <1>2 DEF InOrder, Ordered, Passed
<1> QED
  BY <1>1, <1>3 DEF ShortName

\* Every step keeps uploader and taker in touch.
LEMMA InTouchStep ==
  ASSUME Typed, [Next]_vars, NEW p \in Peers, InTouch(p), InStep(p), Ended(p), InOrder(p)
  PROVE  InTouch(p)'
<1>1. entries' = entries
  BY EntriesSteps
<1>2. ShortName(p)' <=> ShortName(p)
  BY <1>1 DEF ShortName
<1>3. CASE Taker(p).at \in {"astray", "done"} /\ MisreadBefore(p) /\ ShortName(p)
  BY <1>2, <1>3, MisreadStays, TakerNext DEF InTouch
<1>4. CASE Taker(p).at # "astray" /\ Phase(p) /\ Enough(p)
  <2>1. CASE WentAstray(p)
    <3>1. MisreadBefore(p)'
      BY <1>4, <2>1, InStepReads, MisreadStays DEF InStep
    <3>2. ShortName(p)
      BY <2>1, AstrayByName
    <3> QED
      BY <1>2, <1>4, <2>1, <3>1, <3>2, TakerNext DEF InTouch
  <2>2. CASE ~WentAstray(p)
    <3>1. Follows(p)
      BY <1>4, <2>2, PhaseStep
    <3>2. Taker(p)'.at # "astray"
      BY <1>4, <2>2, TakerNext
    <3>3. /\ Taker(p).missing_hashes \in Nat /\ Coming(p) \in Int
          /\ Taker(p).missing_hashes <= Coming(p)
      BY <1>4, Counts DEF Coming, Enough
    <3>4. Cardinality(Expected(Len(Current(p)), HeldNow(p)))
            <= Cardinality(Uploaded(Len(Current(p)), Mask(HeldNow(p))))
      BY Counts, EnoughUploaded
    <3>5. Taker(p)'.missing_hashes <= Coming(p)'
      BY <3>1, <3>3, <3>4 DEF Follows
    <3> QED
      BY <3>1, <3>2, <3>5 DEF InTouch, Enough, Follows
  <2> QED
    BY <2>1, <2>2
<1> QED
  BY <1>3, <1>4 DEF InTouch

\* The mask of a current offer that was understood takes back exactly the images
\* that the taker has.
LEMMA CurrentUnderstood ==
  ASSUME Typed, NEW p \in Peers, uploader[p].at = "mask", CurrentOffered(p),
         ~Misread(p, Len(uploader[p].offers))
  PROVE  /\ Uploaded(Len(Current(p)), Mask(HeldNow(p))) = Expected(Len(Current(p)), HeldNow(p))
         /\ \A k \in Expected(Len(Current(p)), HeldNow(p)) :
              Current(p)[k + 1] \notin ToSet(entries[Other(p)])
<1>1. Understood(HeldNow(p))
  BY DEF CurrentOffered, Misread, HeldNow, Current
<1>2. Uploaded(Len(Current(p)), Mask(HeldNow(p))) = Expected(Len(Current(p)), HeldNow(p))
  BY <1>1, Counts, ExactlyUnderstood
<1>3. \A k \in Expected(Len(Current(p)), HeldNow(p)) :
        Current(p)[k + 1] \notin ToSet(entries[Other(p)])
  BY DEF Expected, HeldNow, Held
<1> QED
  BY <1>2, <1>3

\* The uploader reads a mask only after the answer to its current offer.
LEMMA MaskAnswers ==
  ASSUME Typed, NEW p \in Peers, Phase(p), MaskReceived(p)
  PROVE  Answered(p) /\ Head(acks[p]) = Mask(HeldNow(p)) /\ ~OfferOnItsWay(p)
<1>1. uploader[p].at = "mask" /\ Len(acks[p]) >= Awaited(p)
  BY DEF MaskReceived
<1>2. Answered(p)
  <2> SUFFICES ASSUME acks[p] = <<>> PROVE FALSE
    BY <1>1 DEF Phase, Offering
  <2>1. Awaited(p) \in Nat \ {0} /\ Len(acks[p]) = 0
    BY <1>1, AwaitedMask
  <2> QED
    BY <1>1, <2>1
<1>3. ~OfferOnItsWay(p)
  BY <1>2 DEF Answered, OfferOnItsWay
<1> QED
  BY <1>1, <1>2, <1>3, AnswerRead

\* The last offer counts as read, unless it is on its way.
LEMMA LastRead ==
  ASSUME Typed, NEW p \in Peers, ~OfferOnItsWay(p), CurrentOffered(p), uploader[p].at = "mask",
         ~MisreadBefore(p)
  PROVE  ~Misread(p, Len(uploader[p].offers))
<1>1. uploader[p].offers \in Seq(Seq(Hash)) /\ uploader[p].offers # <<>>
  BY UploaderFacts DEF CurrentOffered
<1>2. Len(uploader[p].offers) \in 1..Len(uploader[p].offers)
  BY <1>1, EmptySeq
<1>3. OffersRead(p) = Len(uploader[p].offers)
  BY DEF OffersRead
<1> QED
  BY <1>2, <1>3 DEF MisreadBefore

\* Every step keeps images from being sent twice.
LEMMA NothingTwiceStep ==
  ASSUME Typed, [Next]_vars, NEW p \in Peers, Phase(p), NothingTwice(p), CurrentOffered(p),
         ~MisreadBefore(p), Taker(p).at # "astray"
  PROVE  NothingTwice(p)' \/ WentAstray(p)
<1> DEFINE found == ToSet(entries[Other(p)])
<1>1. entries' = entries
  BY EntriesSteps
<1>2. /\ stream[p] \in Seq(Token) /\ Taker(p).store \in Seq(Hash)
      /\ Taker(p)' = downloader'[Other(p)]
  BY DirectionFacts DEF DownloaderState, Taker
<1>3. /\ \A k \in DOMAIN Taker(p).store : Taker(p).store[k] \notin found
      /\ \A k \in Files(stream[p]) : stream[p][k].image \notin found
      /\ \A k \in uploader[p].uploads : Current(p)[k + 1] \notin found
  BY DEF NothingTwice, ToSet, Files
<1> DEFINE StoreOK == \A k \in DOMAIN Taker(p)'.store : Taker(p)'.store[k] \notin found
           StreamOK == \A k \in DOMAIN stream'[p] :
                         stream'[p][k].kind = "file" => stream'[p][k].image \notin found
           UploadsOK == \A k \in uploader'[p].uploads :
                          uploader'[p].missing_entries[k + 1] \notin found
<1>4. StoreOK /\ StreamOK /\ UploadsOK => NothingTwice(p)'
  BY <1>1 DEF NothingTwice, Current, ToSet
<1>5. SameUploader(p) => UploadsOK
  BY <1>3 DEF SameUploader, Current
<1>6. SameStream(p) => StreamOK
  BY <1>3 DEF SameStream, Files
<1>7. Taker(p)'.store = Taker(p).store => StoreOK
  BY <1>3
<1>8. SameTaker(p) => StoreOK
  BY <1>3 DEF SameTaker, Taker
<1>9. ASSUME stream[p] # <<>>, stream'[p] = Tail(stream[p]) PROVE StreamOK
  BY <1>2, <1>3, <1>9, TailTokens DEF Files
<1>10. CASE Still(p) \/ HashesOn(p) \/ ByteSent(p) \/ TakerDone(p)
  BY <1>2, <1>4, <1>5, <1>6, <1>7, <1>8, <1>10 DEF Still, HashesOn, ByteSent, TakerDone, TakerGoes
<1>11. CASE OfferAnswered(p)
  BY <1>2, <1>4, <1>5, <1>7, <1>9, <1>11 DEF OfferAnswered, Kind
<1>12. CASE FileStored(p)
  <2>1. /\ stream[p] # <<>> /\ stream'[p] = Tail(stream[p]) /\ Head(stream[p]).kind = "file"
        /\ Taker(p)'.store = Append(Taker(p).store, Head(stream[p]).image)
        /\ SameUploader(p)
    BY <1>2, <1>12 DEF FileStored, Kind
  <2>2. Head(stream[p]).image \notin found
    BY <1>2, <1>3, <2>1, TailTokens DEF Files
  <2>3. StoreOK
    BY <1>2, <1>3, <2>1, <2>2, AppendTokens
  <2> QED
    BY <1>4, <1>5, <1>9, <2>1, <2>3
<1>13. CASE StrayedOn(p)
  BY <1>13 DEF StrayedOn
<1>14. CASE Looked(p) \/ ByteReceived(p)
  <2>1. UploadsOK
    BY <1>3, <1>14 DEF Looked, ByteReceived, UploaderGoes, Current
  <2> QED
    BY <1>4, <1>6, <1>8, <1>14, <2>1 DEF Looked, ByteReceived
<1>15. ASSUME ScannedOn(p) PROVE UploadsOK /\ StoreOK
  BY <1>8, <1>15, UploaderFacts DEF ScannedOn
<1>16. CASE NothingScanned(p)
  BY <1>4, <1>6, <1>15, <1>16 DEF NothingScanned
<1>17. CASE OfferSent(p)
  <2>1. stream'[p] = Append(stream[p], OfferOf(Scanned(p))) /\ ScannedOn(p)
    BY <1>17 DEF OfferSent
  <2>2. StreamOK
    BY <1>2, <1>3, <2>1, AppendTokens DEF Files, OfferOf
  <2> QED
    BY <1>4, <1>15, <2>1, <2>2
<1>18. CASE MaskReceived(p)
  <2>1. /\ uploader[p].at = "mask" /\ SameTaker(p) /\ SameStream(p)
        /\ uploader'[p].uploads = Uploaded(Len(Current(p)), Head(acks[p]))
        /\ uploader'[p].missing_entries = Current(p)
    BY <1>18 DEF MaskReceived, UploadsOn, Current
  <2>2. Head(acks[p]) = Mask(HeldNow(p)) /\ ~OfferOnItsWay(p)
    BY <1>18, MaskAnswers
  <2>3. UploadsOK
    BY <2>1, <2>2, LastRead, CurrentUnderstood
  <2> QED
    BY <1>4, <1>6, <1>8, <2>1, <2>3
<1>19. CASE FileSent(p)
  <2>1. PICK k \in uploader[p].uploads :
          /\ stream'[p] = Append(stream[p], FileOf(Current(p)[k + 1]))
          /\ uploader'[p].uploads \subseteq uploader[p].uploads
          /\ uploader'[p].missing_entries = Current(p) /\ SameTaker(p)
    BY <1>19 DEF FileSent, UploadsOn, Current
  <2>2. Current(p)[k + 1] \notin found
    BY <1>3
  <2>3. StreamOK
    BY <1>2, <1>3, <2>1, <2>2, AppendTokens DEF Files, FileOf
  <2>4. UploadsOK
    BY <1>3, <2>1
  <2> QED
    BY <1>4, <1>8, <2>1, <2>3, <2>4
<1> QED
  BY <1>10, <1>11, <1>12, <1>13, <1>14, <1>16, <1>17, <1>18, <1>19, DirectionSteps
  DEF DirectionStep

\* Every step keeps uploader and taker in step.
LEMMA InStepStep ==
  ASSUME Typed, [Next]_vars, NEW p \in Peers, InStep(p), Ended(p), CurrentOffered(p)
  PROVE  InStep(p)'
<1> SUFFICES ASSUME ~MisreadBefore(p)'
             PROVE  Taker(p)'.at # "astray" /\ Phase(p)' /\ Exact(p)' /\ NothingTwice(p)'
  BY DEF InStep
<1>1. /\ ~MisreadBefore(p)
      /\ Taker(p).at # "astray" /\ Phase(p) /\ Exact(p) /\ NothingTwice(p)
  BY MisreadStays DEF InStep
<1>2. ~WentAstray(p) /\ Taker(p)'.at # "astray"
  BY <1>1, InStepReads, TakerNext
<1>3. /\ Taker(p).missing_hashes \in Nat /\ Coming(p) = Taker(p).missing_hashes
  BY <1>1, Counts DEF Exact
<1>4. Enough(p)
  BY <1>3 DEF Enough
<1>5. Follows(p)
  BY <1>1, <1>2, <1>4, PhaseStep
<1>6. Exact(p)'
  <2>1. CASE Taker(p)'.missing_hashes = Taker(p).missing_hashes /\ Coming(p)' = Coming(p)
    BY <1>3, <2>1 DEF Exact
  <2>2. CASE /\ Taker(p)'.missing_hashes = Taker(p).missing_hashes - 1
             /\ Coming(p)' = Coming(p) - 1
    BY <1>3, <2>2 DEF Exact
  <2>3. CASE /\ OfferAnswered(p) /\ uploader[p].at = "mask"
             /\ Len(stream[p]) = 1
             /\ Taker(p)'.missing_hashes = Cardinality(Expected(Len(Current(p)), HeldNow(p)))
             /\ Coming(p)' = Cardinality(Uploaded(Len(Current(p)), Mask(HeldNow(p))))
    <3>1. SameUploader(p) /\ stream[p] # <<>> /\ stream'[p] = Tail(stream[p])
      BY <2>3 DEF OfferAnswered, Kind
    <3>2. stream'[p] = <<>>
      BY <2>3, <3>1, DirectionFacts, TailTokens, EmptySeq
    <3>3. OffersRead(p)' = Len(uploader[p].offers)
      <4>1. DOMAIN stream'[p] = {}
        BY <3>2
      <4>2. ~OfferOnItsWay(p)'
        BY <4>1 DEF OfferOnItsWay
      <4>3. uploader'[p].offers = uploader[p].offers
        BY <3>1 DEF SameUploader
      <4> QED
        BY <4>2, <4>3 DEF OffersRead
    <3>4. Len(uploader[p].offers) \in 1..Len(uploader[p].offers)
      BY <2>3, UploaderFacts, EmptySeq DEF CurrentOffered
    <3>5. ~Misread(p, Len(uploader[p].offers))
      BY <3>3, <3>4, OffersGrow DEF MisreadBefore
    <3> QED
      BY <2>3, <3>5, CurrentUnderstood DEF Exact
  <2> QED
    BY <1>5, <2>1, <2>2, <2>3 DEF Follows
<1>7. NothingTwice(p)'
  BY <1>1, <1>2, NothingTwiceStep
<1> QED
  BY <1>2, <1>5, <1>6, <1>7 DEF Follows
-----------------------------------------------------------------------------
(* One direction, and both. *)

\* What always holds of the direction from the uploader of p to its taker.
Direction(p) == InTouch(p) /\ InStep(p) /\ Ended(p) /\ CurrentOffered(p) /\ InOrder(p)

\* A process that has exited has joined its threads.
Exited == \A p \in Peers :
  status[p] = "exited" => downloader[p].at = "done" /\ uploader[p].at = "done"

Protocol == Typed /\ Exited /\ \A p \in Peers : Direction(p)

\* At the start nothing is on its way.
LEMMA DirectionInit ==
  ASSUME Init, NEW p \in Peers
  PROVE  Direction(p)
<1>1. /\ stream[p] = <<>> /\ acks[p] = <<>> /\ Other(p) \in Peers
      /\ uploader[p].at = "byte" /\ uploader[p].uploads = {} /\ uploader[p].offers = <<>>
      /\ Taker(p).at = "get" /\ Taker(p).missing_hashes = 0 /\ Taker(p).store = <<>>
  BY OtherPeer DEF Init, Taker
<1>2. Len(stream[p]) = 0 /\ DOMAIN stream[p] = {} /\ ToSet(Taker(p).store) = {}
  BY <1>1 DEF ToSet
<1>3. Coming(p) = 0
  BY <1>1, <1>2, FS_EmptySet DEF Coming
<1>4. Phase(p)
  BY <1>1 DEF Phase, Early
<1>5. Enough(p) /\ Exact(p)
  BY <1>1, <1>3 DEF Enough, Exact
<1>6. NothingTwice(p)
  BY <1>1, <1>2 DEF NothingTwice
<1>7. InTouch(p) /\ InStep(p)
  BY <1>1, <1>4, <1>5, <1>6 DEF InTouch, InStep
<1>8. Ended(p) /\ CurrentOffered(p)
  BY <1>1 DEF Ended, CurrentOffered
<1> QED
  BY <1>7, <1>8, InOrderInit DEF Direction

\* Every step keeps all of it.
LEMMA DirectionKept ==
  ASSUME Typed, [Next]_vars, NEW p \in Peers, Direction(p)
  PROVE  Direction(p)'
BY InTouchStep, InStepStep, EndedStep, CurrentOfferedStep, InOrderStep DEF Direction

\* A thread that is done, or whose process has ended, is left alone.
LEMMA DoneStays ==
  ASSUME Typed, [Next]_vars, NEW p \in Peers
  PROVE  /\ uploader[p].at = "done" => uploader'[p] = uploader[p]
         /\ downloader[p].at = "done" => downloader'[p] = downloader[p]
<1>1. uploader[p].at = "done" => SameUploader(p)
  BY DirectionSteps
  DEF DirectionStep, Still, HashesOn, ByteSent, OfferAnswered, FileStored, WentAstray,
      StrayedOn, TakerDone, Looked, ByteReceived, UploaderGoes, NothingScanned, OfferSent,
      ScannedOn, MaskReceived, FileSent, UploadsOn
<1>2. Other(p) \in Peers /\ Other(Other(p)) = p
  BY OtherPeer
<1>3. downloader[p].at = "done" => SameTaker(Other(p))
  <2> DEFINE q == Other(p)
  <2>1. DirectionStep(q) /\ Taker(q) = downloader[p] /\ Taker(q)' = downloader'[p]
    BY <1>2, DirectionSteps DEF Taker
  <2> HIDE DEF q
  <2>2. Taker(q).at = "done" => SameTaker(q)
    BY <2>1
    DEF DirectionStep, Still, HashesOn, ByteSent, OfferAnswered, FileStored, WentAstray,
        StrayedOn, TakerDone, TakerGoes, Looked, ByteReceived, NothingScanned, OfferSent,
        ScannedOn, MaskReceived, FileSent, UploadsOn
  <2> QED
    BY <2>1, <2>2 DEF q
<1> QED
  BY <1>1, <1>2, <1>3 DEF SameUploader, SameTaker

\* A process exits when its threads are done, and they stay so.
LEMMA ExitedStep ==
  ASSUME Typed, [Next]_vars, Exited
  PROVE  Exited'
<1> SUFFICES ASSUME NEW p \in Peers, status'[p] = "exited"
             PROVE  downloader'[p].at = "done" /\ uploader'[p].at = "done"
  BY DEF Exited
<1>1. status \in [Peers -> {"running", "exited", "aborted"}]
  BY TypedParts
<1>2. CASE status[p] = "exited"
  BY <1>2, DoneStays DEF Exited
<1>3. CASE status[p] # "exited"
  <2>1. PICK q \in Peers : Abort(q) \/ ReceiveLate(q) \/ Exit(q) \/ Crash(q)
    BY <1>3, StatusSteps
  <2>2. status' = [status EXCEPT ![q] = "aborted"] => FALSE
    BY <1>1, <1>3
  <2>3. status' # status
    BY <1>3
  <2>4. Exit(q) /\ p = q
    BY <1>1, <1>3, <2>1, <2>2, <2>3 DEF Abort, ReceiveLate, Crash, Exit
  <2> QED
    BY <2>4 DEF Exit, Downloads, Uploads, threads
<1> QED
  BY <1>2, <1>3

\* The protocol holds throughout, in either direction.
LEMMA AlwaysProtocol == Spec => []Protocol
<1>1. Init => Protocol
  <2> SUFFICES ASSUME Init PROVE Protocol
    OBVIOUS
  <2>1. Exited
    BY DEF Init, Exited
  <2> QED
    BY <2>1, InitTyped, DirectionInit DEF Protocol
<1>2. Protocol /\ [Next]_vars => Protocol'
  BY NextTyped, ExitedStep, DirectionKept DEF Protocol
<1> QED
  BY <1>1, <1>2, PTL DEF Spec
-----------------------------------------------------------------------------
(* Uploader and downloader stay in touch. *)

\* What is on its way, as the model counts it, is what Coming says.
LEMMA ComingCounted ==
  ASSUME Typed, NEW p \in Peers, Phase(p)
  PROVE  OnItsWay(p) = Coming(p)
<1>1. /\ stream[p] \in Seq(Token) /\ Len(stream[p]) \in Nat
      /\ DOMAIN stream[p] = 1..Len(stream[p])
      /\ uploader[p].at # "files" => uploader[p].uploads = {}
  BY DirectionFacts, UploaderFacts
<1>2. \A n \in Nat : Cardinality(1..n) = n
  BY FS_Interval
<1>3. CASE uploader[p].at # "mask"
  <2>1. FilesUpto(stream[p], Len(stream[p]))
    BY <1>1, <1>3 DEF Phase, FilesUpto
  <2>2. LeadingFiles(p) = 1..Len(stream[p])
    <3>1. \A k \in 1..Len(stream[p]) : \A j \in 1..k : j \in 1..Len(stream[p])
      BY <1>1
    <3> QED
      BY <1>1, <2>1, <3>1 DEF LeadingFiles, FilesUpto
  <2>3. ~OfferOnItsWay(p)
    BY <1>1, <2>1 DEF OfferOnItsWay, FilesUpto
  <2> QED
    BY <1>1, <1>2, <1>3, <2>2, <2>3 DEF OnItsWay, StillToSend, Coming
<1>4. CASE uploader[p].at = "mask" /\ Offering(p)
  <2> DEFINE n == Len(stream[p])
  <2>1. n \in Nat \ {0} /\ n \in DOMAIN stream[p] /\ stream[p][n].kind = "offer"
    <3>1. stream[p] # <<>> /\ stream[p][n] = OfferOf(Current(p))
      BY <1>4 DEF Offering
    <3>2. n \in Nat \ {0}
      BY <1>1, <3>1, EmptySeq
    <3> QED
      BY <1>1, <3>1, <3>2 DEF OfferOf
  <2>2. OfferOnItsWay(p)
    BY <2>1 DEF OfferOnItsWay
  <2>3. LeadingFiles(p) = 1..(n - 1)
    <3>1. FilesUpto(stream[p], n - 1)
      BY <1>4 DEF Offering
    <3>2. \A k \in 1..(n - 1) : k \in 1..n /\ \A j \in 1..k : j \in 1..(n - 1)
      BY <2>1
    <3>3. \A k \in 1..n : k \in 1..(n - 1) \/ (k = n /\ n \in 1..k)
      BY <2>1
    <3>4. \A k \in 1..(n - 1) : k \in LeadingFiles(p)
      BY <1>1, <3>1, <3>2 DEF LeadingFiles, FilesUpto
    <3>5. \A k \in LeadingFiles(p) : k \in 1..(n - 1)
      BY <1>1, <2>1, <3>3 DEF LeadingFiles
    <3> QED
      BY <3>4, <3>5
  <2>4. Cardinality(LeadingFiles(p)) = n - 1 /\ n - 1 \in Nat
    BY <1>2, <2>1, <2>3
  <2>5. Cardinality(StillToSend(p)) = 0
    BY <2>2, FS_EmptySet DEF StillToSend
  <2>6. Coming(p) = n - 1
    BY <1>4 DEF Coming, Offering
  <2> QED
    BY <2>4, <2>5, <2>6 DEF OnItsWay
<1>5. CASE uploader[p].at = "mask" /\ Answered(p)
  <2>1. stream[p] = <<>> /\ Head(acks[p]) = Mask(HeldNow(p))
    BY <1>5, AnswerRead DEF Answered
  <2>2. LeadingFiles(p) = {} /\ ~OfferOnItsWay(p)
    BY <2>1 DEF LeadingFiles, OfferOnItsWay
  <2>3. Cardinality(LeadingFiles(p)) = 0
    BY <2>2, FS_EmptySet
  <2>4. StillToSend(p) = Uploaded(Len(Current(p)), Mask(HeldNow(p)))
    BY <1>5, <2>1, <2>2 DEF StillToSend, Current
  <2> QED
    BY <1>5, <2>1, <2>3, <2>4, Counts DEF OnItsWay, Coming
<1> QED
  BY <1>3, <1>4, <1>5 DEF Phase

\* Whatever the masks say, a downloader that has not taken a file for an offer does
\* not wait for more files than come (peer.cpp:204).
THEOREM NeverStarved == Spec => []DownloaderNotStarved
<1>1. Protocol => DownloaderNotStarved
  <2> SUFFICES ASSUME Protocol, NEW p \in Peers, Taker(p).at # "astray"
               PROVE  downloader[Other(p)].missing_hashes <= OnItsWay(p)
    BY DEF DownloaderNotStarved, Taker
  <2>1. Typed /\ InTouch(p)
    BY DEF Protocol, Direction
  <2>2. CASE Taker(p).at = "done"
    <3>1. downloader[Other(p)].missing_hashes = 0
      BY <2>1, <2>2, Counts DEF Taker
    <3>2. IsFiniteSet(LeadingFiles(p)) /\ IsFiniteSet(StillToSend(p))
      <4>1. stream[p] \in Seq(Token) /\ Len(stream[p]) \in Nat
        BY <2>1, DirectionFacts
      <4>2. LeadingFiles(p) \subseteq 1..Len(stream[p])
        BY <4>1 DEF LeadingFiles
      <4>3. StillToSend(p) \subseteq Positions(Len(Current(p)))
        BY <2>1, UploaderFacts DEF StillToSend, Uploaded, Current
      <4>4. IsFiniteSet(Positions(Len(Current(p))))
        BY <2>1, Counts, PositionsFinite
      <4>5. IsFiniteSet(1..Len(stream[p]))
        BY <4>1, FS_Interval
      <4> QED
        BY <4>2, <4>3, <4>4, <4>5, FS_Subset
    <3>3. OnItsWay(p) \in Nat
      BY <3>2, FS_CardinalityType DEF OnItsWay
    <3> QED
      BY <3>1, <3>3
  <2>3. CASE Phase(p) /\ Enough(p)
    BY <2>1, <2>3, ComingCounted DEF Enough, Taker
  <2> QED
    BY <2>1, <2>2, <2>3 DEF InTouch
<1> QED
  BY <1>1, AlwaysProtocol, PTL

\* An offer that was read is one that was made.
LEMMA ReadIsMade ==
  ASSUME Typed, NEW p \in Peers, MisreadBefore(p)
  PROVE  SomeMisread(p)
<1>1. uploader[p].offers \in Seq(Seq(Hash))
  BY UploaderFacts
<1>2. \A k \in 1..OffersRead(p) : k \in DOMAIN uploader[p].offers
  BY <1>1 DEF OffersRead
<1> QED
  BY <1>2 DEF MisreadBefore, SomeMisread

\* As long as no offer is misread the two ends count alike (peer.cpp:161-166).
THEOREM InStepAlways == Spec => []InStepUnlessMisread
<1>1. Protocol => InStepUnlessMisread
  <2> SUFFICES ASSUME Protocol, NEW p \in Peers, ~SomeMisread(p)
               PROVE  /\ downloader[Other(p)].missing_hashes = OnItsWay(p)
                      /\ ToSet(downloader[Other(p)].store) \cap ToSet(entries[Other(p)]) = {}
                      /\ downloader[Other(p)].at # "astray"
    BY DEF InStepUnlessMisread
  <2>1. Typed /\ InStep(p)
    BY DEF Protocol, Direction
  <2>2. Taker(p).at # "astray" /\ Phase(p) /\ Exact(p) /\ NothingTwice(p)
    BY <2>1, ReadIsMade DEF InStep
  <2> QED
    BY <2>1, <2>2, ComingCounted DEF Exact, NothingTwice, Taker
<1> QED
  BY <1>1, AlwaysProtocol, PTL
-----------------------------------------------------------------------------
(* Who falls, and when. *)

SafeFall ==
  \/ crashes > 0 \/ \E p \in Peers : SomeMisread(p)
  \/ \E p \in Peers : status[p] = "aborted" /\ uploader[p].at = "done"

\* What explains a fall goes on explaining it.
LEMMA SafeFallStays ==
  ASSUME Typed, [Next]_vars, SafeFall
  PROVE  SafeFall'
<1>1. crashes \in Nat
  BY PeerSyncAssumption, TypedParts
<1>2. CASE crashes > 0
  BY <1>1, <1>2, CrashesSteps DEF Crash, SafeFall
<1>3. ASSUME NEW p \in Peers, SomeMisread(p) PROVE SomeMisread(p)'
  <2>1. PICK k \in DOMAIN uploader[p].offers : Misread(p, k)
    BY <1>3 DEF SomeMisread
  <2>2. uploader[p].offers \in Seq(Seq(Hash)) /\ k \in 1..Len(uploader[p].offers)
    BY OffersGrow
  <2>3. k \in DOMAIN uploader'[p].offers
    <3>1. CASE uploader'[p].offers = uploader[p].offers
      BY <3>1
    <3>2. CASE uploader'[p].offers = Append(uploader[p].offers, Scanned(p))
      BY <2>2, <3>2
    <3> QED
      BY <3>1, <3>2, OffersStep
  <2>4. Misread(p, k)'
    BY <2>1, <2>2, OffersGrow
  <2> QED
    BY <2>3, <2>4 DEF SomeMisread
<1>4. ASSUME NEW p \in Peers, status[p] = "aborted", uploader[p].at = "done"
      PROVE  status'[p] = "aborted" /\ uploader'[p].at = "done"
  BY <1>4, EndedStays, DoneStays DEF Running
<1> QED
  BY <1>2, <1>3, <1>4 DEF SafeFall

\* The steps that end a process.
LEMMA FallingSteps ==
  ASSUME [Next]_vars
  PROVE  \/ UNCHANGED status
         \/ \E r \in Peers :
              \/ Desync(r) \/ FailAstray(r) \/ DownloadCut(r) \/ UploadCut(r) \/ ReadClosed(r)
              \/ ConnectionReset(r) \/ UpdateReset(r) \/ ReceiveLate(r) \/ Exit(r) \/ Crash(r)
<1> USE DEF process
<1>1. ASSUME NEW p \in Peers, Downloader(p)
      PROVE  UNCHANGED status \/ Desync(p) \/ FailAstray(p) \/ DownloadCut(p)
  BY <1>1 DEF Downloader, GetBatch, SendUpdate, GetNothing, HashingDone, SendByte,
    ReceiveOffer, ReceiveFile, GoAstray, ReadAstray, DownloadEnd
<1>2. ASSUME NEW p \in Peers, Uploader(p)
      PROVE  UNCHANGED status \/ UploadCut(p)
  BY <1>2 DEF Uploader, ReceiveByte, LoadCount, CheckHashing, ScanNothing, SendOffer,
    ReceiveMask, UploadFile, SendScanned
<1>3. ASSUME NEW p \in Peers, Receiver(p) \/ Exit(p)
      PROVE  UNCHANGED status \/ ReceiveLate(p) \/ ReadClosed(p) \/ Exit(p)
  BY <1>3 DEF Receiver, ReceiveUpdate, EndOfUpdate
<1>4. ASSUME NEW p \in Peers, Environment(p)
      PROVE  UNCHANGED status \/ Crash(p) \/ ConnectionReset(p) \/ UpdateReset(p)
  BY <1>4 DEF Environment, SpuriousWakeup
<1> QED
  BY <1>1, <1>2, <1>3, <1>4 DEF Next, Terminated, vars

\* The first fall is explained: the two ends are in step, or an offer was misread.
LEMMA FirstFall ==
  ASSUME Protocol, [Next]_vars, \A p \in Peers : status[p] # "aborted",
         NEW q \in Peers, status'[q] = "aborted"
  PROVE  SafeFall'
<1> DEFINE p == Other(q)
<1>1. Typed /\ Exited /\ Direction(p) /\ Direction(q)
  BY OtherPeer DEF Protocol
<1>2. /\ p \in Peers /\ Other(p) = q /\ Taker(p) = downloader[q] /\ Taker(q) = downloader[p]
      /\ Incoming(q) = stream[p]
  BY OtherPeer DEF Taker, Incoming
<1>3. status \in [Peers -> {"running", "exited", "aborted"}] /\ crashes \in Nat
  BY <1>1, TypedParts, PeerSyncAssumption
<1> HIDE DEF p
<1>4. ~Running(p) => downloader[p].at = "done" /\ uploader[p].at = "done"
  BY <1>1, <1>2, <1>3 DEF Exited, Running
<1>5. uploader[q].at = "done" => SafeFall'
  BY <1>1, DoneStays DEF SafeFall
<1>6. SomeMisread(p) => SafeFall'
  BY <1>1, <1>2, SafeFallStays DEF SafeFall
<1>7. downloader[q].at = "astray" => SomeMisread(p)
  BY <1>1, <1>2, ReadIsMade DEF Direction, InStep
<1>8. ~(downloader[q].at = "offers" /\ Kind(stream[p], "file")) \/ SomeMisread(p)
  BY <1>1, <1>2, ReadIsMade, InStepReads DEF Direction, InStep
<1>9. ~Running(p) /\ Running(q) => uploader[q].at = "done"
  BY <1>1, <1>2, <1>4 DEF Direction, Ended
<1>10. ASSUME downloader[q].at = "files", EndOfStream(p) PROVE SomeMisread(p)
  <2> SUFFICES ASSUME ~SomeMisread(p) PROVE FALSE
    OBVIOUS
  <2>1. Exact(p) /\ Taker(p).missing_hashes > 0
    BY <1>1, <1>2, <1>10, ReadIsMade, Counts DEF Direction, InStep
  <2>2. stream[p] = <<>> /\ uploader[p].at = "done"
    BY <1>4, <1>10 DEF EndOfStream
  <2>3. uploader[p].uploads = {}
    BY <1>1, <1>2, <2>2, UploaderFacts
  <2>4. Coming(p) = 0
    BY <2>2, <2>3, FS_EmptySet DEF Coming
  <2> QED
    BY <2>1, <2>4 DEF Exact
<1>11. PICK r \in Peers :
         \/ Desync(r) \/ FailAstray(r) \/ DownloadCut(r) \/ UploadCut(r) \/ ReadClosed(r)
         \/ ConnectionReset(r) \/ UpdateReset(r) \/ ReceiveLate(r) \/ Exit(r) \/ Crash(r)
  BY <1>3, FallingSteps
<1>12. r = q
  BY <1>3, <1>11 DEF Desync, FailAstray, DownloadCut, UploadCut, ReadClosed, ConnectionReset,
    UpdateReset, Abort, ReceiveLate, Exit, Crash
<1>13. ~Exit(q)
  BY <1>3 DEF Exit
<1>14. CASE Desync(q)
  BY <1>2, <1>6, <1>8, <1>14 DEF Desync, Downloads
<1>15. CASE FailAstray(q)
  BY <1>6, <1>7, <1>15 DEF FailAstray, Downloads
<1>16. CASE DownloadCut(q)
  BY <1>6, <1>10, <1>16 DEF DownloadCut, Downloads, p
<1>17. CASE UploadCut(q)
  <2>1. /\ Len(acks[q]) < Awaited(q) /\ ~Running(p) /\ Running(q)
    BY <1>17 DEF UploadCut, p
  <2>2. uploader[q].at = "done"
    BY <1>9, <2>1
  <2> QED
    BY <1>5, <2>2
<1>18. CASE ReadClosed(q) \/ ReceiveLate(q)
  BY <1>5, <1>18 DEF ReadClosed, ReceiveLate, Uploads
<1>19. CASE UpdateReset(q)
  <2>1. Running(q) /\ ~Running(p)
    BY <1>19 DEF UpdateReset, Receives, Running, p
  <2> QED
    BY <1>5, <1>9, <2>1
<1>20. CASE Crash(q)
  BY <1>3, <1>20 DEF Crash, SafeFall
<1>21. ~ConnectionReset(q)
  BY <1>2 DEF ConnectionReset, p
<1> QED
  BY <1>11, <1>12, <1>13, <1>14, <1>15, <1>16, <1>17, <1>18, <1>19, <1>20, <1>21

\* If nobody is killed and no offer misread, the first process to fall has
\* uploaded everything it was going to (peer.cpp:305, :446).
THEOREM FallsLate == Spec => []FallsOnlyAfterUpload
<1>1. Init => FallsOnlyAfterUpload
  BY DEF Init, FallsOnlyAfterUpload
<1>2. Protocol /\ FallsOnlyAfterUpload /\ [Next]_vars => FallsOnlyAfterUpload'
  <2> SUFFICES ASSUME Protocol, FallsOnlyAfterUpload, [Next]_vars
               PROVE  FallsOnlyAfterUpload'
    OBVIOUS
  <2>1. SafeFall' => FallsOnlyAfterUpload'
    BY DEF SafeFall, FallsOnlyAfterUpload
  <2>2. CASE SafeFall
    BY <2>1, <2>2, SafeFallStays DEF Protocol
  <2>3. CASE ~SafeFall
    <3>1. \A p \in Peers : status[p] # "aborted"
      BY <2>3 DEF SafeFall, FallsOnlyAfterUpload
    <3>2. CASE \A p \in Peers : status'[p] # "aborted"
      BY <3>2 DEF FallsOnlyAfterUpload
    <3>3. CASE \E p \in Peers : status'[p] = "aborted"
      BY <2>1, <3>1, <3>3, FirstFall
    <3> QED
      BY <3>2, <3>3
  <2> QED
    BY <2>2, <2>3
<1> QED
  BY <1>1, <1>2, AlwaysProtocol, PTL DEF Spec
-----------------------------------------------------------------------------
(* The exchange that is implemented. *)

\* What is given of a peer, and who runs, as the abstract specification sees it.
Given == [p \in Peers |-> downloader[Other(p)].store]
RunningPeers == {p \in Peers : Running(p)}

\* One store grows, by the file that comes next, or none does.
LEMMA StoreSteps ==
  ASSUME Typed, [Next]_vars
  PROVE  \/ \A q \in Peers : downloader'[q].store = downloader[q].store
         \/ \E r \in Peers :
              /\ Running(r) /\ Kind(Incoming(r), "file")
              /\ downloader'[r].store = Append(downloader[r].store, Head(Incoming(r)).image)
              /\ \A q \in Peers \ {r} : downloader'[q].store = downloader[q].store
              /\ UNCHANGED status
<1> DEFINE Same == \A q \in Peers : downloader'[q].store = downloader[q].store
<1>1. downloader \in [Peers -> DownloaderState] /\ \A r \in Peers : downloader[r] \in DownloaderState
  BY TypedParts DEF DownloaderOK
<1>2. CASE UNCHANGED downloader
  BY <1>2
<1>3. ASSUME NEW r \in Peers, NEW place, downloader' = [downloader EXCEPT ![r].at = place]
      PROVE  Same
  BY <1>1, <1>3 DEF DownloaderState
<1>4. ASSUME NEW r \in Peers,
             SendUpdate(r) \/ GetNothing(r) \/ HashingDone(r) \/ SendByte(r)
               \/ DownloadEnd(r)
      PROVE  Same
  BY <1>3, <1>4 DEF SendUpdate, GetNothing, HashingDone, SendByte, DownloadEnd
<1>5. ASSUME NEW r \in Peers, GetBatch(r) PROVE Same
  <2>1. PICK count : downloader' =
          [downloader EXCEPT ![r].at = "notify", ![r].hasher_entry_count = count]
    BY <1>5 DEF GetBatch
  <2> QED
    BY <1>1, <2>1 DEF DownloaderState
<1>6. ASSUME NEW r \in Peers, ReceiveOffer(r) PROVE Same
  <2>1. PICK count : Expecting(r, count)
    BY <1>6 DEF ReceiveOffer
  <2>2. PICK place : downloader' =
          [downloader EXCEPT ![r].missing_hashes = count, ![r].at = place]
    BY <2>1 DEF Expecting
  <2> QED
    BY <1>1, <2>2 DEF DownloaderState
<1>7. ASSUME NEW r \in Peers, ReceiveFile(r)
      PROVE  /\ Running(r) /\ Kind(Incoming(r), "file") /\ UNCHANGED status
             /\ downloader'[r].store = Append(downloader[r].store, Head(Incoming(r)).image)
             /\ \A q \in Peers \ {r} : downloader'[q].store = downloader[q].store
  <2> DEFINE s == Append(downloader[r].store, Head(Incoming(r)).image)
             c == downloader[r].missing_hashes - 1
             a == IF c = 0 THEN "offers" ELSE "files"
  <2>1. downloader' = [downloader EXCEPT ![r].store = s, ![r].missing_hashes = c, ![r].at = a]
    BY <1>1, <1>7 DEF ReceiveFile
  <2>2. Running(r) /\ Kind(Incoming(r), "file") /\ UNCHANGED status
    BY <1>7 DEF ReceiveFile, Downloads, process
  <2> HIDE DEF s, c, a
  <2>3. downloader'[r].store = s /\ \A q \in Peers \ {r} : downloader'[q] = downloader[q]
    BY <1>1, <2>1 DEF DownloaderState
  <2> QED
    BY <2>2, <2>3 DEF s
<1>8. ASSUME NEW r \in Peers, GoAstray(r) \/ ReadAstray(r) PROVE Same
  <2>1. CASE GoAstray(r)
    <3>1. PICK count : downloader' =
            [downloader EXCEPT ![r].missing_hashes = count, ![r].at = "astray"]
      BY <2>1 DEF GoAstray
    <3> QED
      BY <1>1, <3>1 DEF DownloaderState
  <2>2. CASE ReadAstray(r)
    <3>1. PICK count : downloader' = [downloader EXCEPT ![r].missing_hashes = count]
      BY <2>2 DEF ReadAstray
    <3> QED
      BY <1>1, <3>1 DEF DownloaderState
  <2> QED
    BY <1>8, <2>1, <2>2
<1>9. ASSUME NEW r \in Peers,
              \/ ReceiveByte(r) \/ LoadCount(r) \/ CheckHashing(r) \/ SpuriousWakeup(r)
              \/ ScanNothing(r) \/ SendOffer(r) \/ ReceiveMask(r) \/ UploadFile(r)
      PROVE  UNCHANGED downloader
  BY <1>9 DEF ReceiveByte, LoadCount, CheckHashing, SpuriousWakeup, ScanNothing, SendOffer,
    SendScanned, ReceiveMask, UploadFile
<1> QED
  BY <1>2, <1>4, <1>5, <1>6, <1>7, <1>8, <1>9, TouchingSteps

\* A process ends, and stores nothing in the step, or the same ones run.
LEMMA RunningSteps ==
  ASSUME Typed, [Next]_vars
  PROVE  \/ UNCHANGED status
         \/ /\ UNCHANGED downloader
            /\ \E r \in Peers : Running(r) /\ RunningPeers' = RunningPeers \ {r}
<1>1. status \in [Peers -> {"running", "exited", "aborted"}]
  BY TypedParts
<1>2. ASSUME NEW r \in Peers, Running(r), NEW s \in {"exited", "aborted"},
             status' = [status EXCEPT ![r] = s]
      PROVE  RunningPeers' = RunningPeers \ {r}
  <2>1. \A q \in Peers : Running(q)' <=> (Running(q) /\ q # r)
    BY <1>1, <1>2 DEF Running
  <2> QED
    BY <2>1 DEF RunningPeers
<1>3. ASSUME NEW r \in Peers,
             \/ Desync(r) \/ FailAstray(r) \/ DownloadCut(r) \/ UploadCut(r) \/ ReadClosed(r)
             \/ ConnectionReset(r) \/ UpdateReset(r) \/ Exit(r) \/ Crash(r)
      PROVE  UNCHANGED downloader /\ Running(r) /\ RunningPeers' = RunningPeers \ {r}
  <2>1. UNCHANGED downloader /\ Running(r)
    BY <1>3 DEF Desync, FailAstray, DownloadCut, UploadCut, ReadClosed, ConnectionReset,
      UpdateReset, Exit, Crash, Abort, threads, Downloads, Receives
  <2>2. \E s \in {"exited", "aborted"} : status' = [status EXCEPT ![r] = s]
    BY <1>3 DEF Desync, FailAstray, DownloadCut, UploadCut, ReadClosed, ConnectionReset,
      UpdateReset, Exit, Crash, Abort
  <2> QED
    BY <1>2, <2>1, <2>2
<1>4. ASSUME NEW r \in Peers, ReceiveLate(r), ~UNCHANGED status
      PROVE  UNCHANGED downloader /\ Running(r) /\ RunningPeers' = RunningPeers \ {r}
  BY <1>2, <1>4 DEF ReceiveLate, Receives
<1> QED
  BY <1>3, <1>4, FallingSteps

\* The file that comes next is one that the taker may be given.
LEMMA NextIsFresh ==
  ASSUME Typed, NEW p \in Peers, InOrder(p), Kind(stream[p], "file")
  PROVE  \E k \in DOMAIN entries[p] :
           /\ entries[p][k] = Head(stream[p]).image
           /\ \A i \in DOMAIN Taker(p).store, j \in k..Len(entries[p]) :
                Taker(p).store[i] # entries[p][j]
<1> DEFINE e == entries[p]
           image == Head(stream[p]).image
<1>1. /\ e \in Seq(Hash) /\ DOMAIN e = 1..Len(e)
      /\ \A i, j \in 1..Len(e) : e[i] = e[j] => i = j
  BY EntriesType DEF Typed, TypeOK
<1>2. 1 \in Files(stream[p]) /\ stream[p][1] = Head(stream[p])
  BY DirectionFacts, TailTokens DEF Kind, Files
<1>3. /\ image \in ToSet(e)
      /\ \A i \in DOMAIN Taker(p).store :
           Taker(p).store[i] \in ToSet(e) /\ Place(e, Taker(p).store[i]) < Place(e, image)
  BY <1>2 DEF InOrder, Ordered, Passed, Before
<1> HIDE DEF e, image
<1>4. PICK k \in 1..Len(e) : e[k] = image /\ k = Place(e, image)
  BY <1>1, <1>3, PlaceOf
<1>5. ASSUME NEW i \in DOMAIN Taker(p).store, NEW j \in k..Len(e), Taker(p).store[i] = e[j]
      PROVE  FALSE
  <2>1. j \in 1..Len(e) /\ k <= j
    OBVIOUS
  <2>2. Place(e, e[j]) = j
    BY <1>1, <2>1, PlaceOf
  <2> QED
    BY <1>3, <1>4, <1>5, <2>1, <2>2
<1> QED
  BY <1>1, <1>4, <1>5 DEF e, image

\* In whatever order threads, packets and crashes come, images are given to a
\* running peer one by one, in order and never twice, until its downloader takes a
\* file for an offer; what is stored after that is not taken for given.
THEOREM Exchanges == Spec => ImplementsExchange
<1>1. Init => Exchanged!Init
  <2> SUFFICES ASSUME Init PROVE Exchanged!Init
    OBVIOUS
  <2>1. Given = [p \in Peers |-> <<>>]
    BY OtherPeer DEF Init, Given
  <2>2. RunningPeers = Peers
    BY DEF Init, RunningPeers, Running
  <2> QED
    BY <2>1, <2>2 DEF Exchanged!Init, Given, RunningPeers
<1>2. Protocol /\ [Next]_vars =>
        [\E p \in Peers : Exchanged!Give(p) \/ Exchanged!End(p)]_(Exchanged!vars)
  <2> SUFFICES ASSUME Protocol, [Next]_vars
               PROVE  \/ \E p \in Peers : Exchanged!Give(p) \/ Exchanged!End(p)
                      \/ UNCHANGED <<entries, Given, RunningPeers>>
    BY DEF Exchanged!vars, Given, RunningPeers
  <2>1. Typed /\ UNCHANGED entries /\ \A p \in Peers : InOrder(p)
    BY EntriesSteps DEF Protocol, Direction
  <2>2. ASSUME NEW r \in Peers, Running(r), RunningPeers' = RunningPeers \ {r},
               UNCHANGED downloader
        PROVE  Exchanged!End(r)
    <3>1. r \in RunningPeers /\ UNCHANGED Given
      BY <2>2 DEF Given, RunningPeers
    <3> QED
      BY <2>1, <2>2, <3>1 DEF Exchanged!End, Given, RunningPeers
  <2>3. CASE UNCHANGED status
    <3>1. UNCHANGED RunningPeers
      BY <2>3 DEF RunningPeers, Running
    <3>2. CASE \A q \in Peers : downloader'[q].store = downloader[q].store
      <4>1. UNCHANGED Given
        BY <3>2, OtherPeer DEF Given
      <4> QED
        BY <2>1, <3>1, <4>1
    <3>3. ASSUME NEW r \in Peers, Running(r), Kind(Incoming(r), "file"),
                 downloader'[r].store = Append(downloader[r].store, Head(Incoming(r)).image),
                 \A q \in Peers \ {r} : downloader'[q].store = downloader[q].store
          PROVE  Exchanged!Give(Other(r))
      <4> DEFINE p == Other(r)
      <4>1. /\ p \in Peers /\ Other(p) = r /\ Incoming(r) = stream[p] /\ Taker(p) = downloader[r]
            /\ \A q \in Peers : Other(q) \in Peers /\ (Other(q) = r => q = p)
        BY OtherPeer DEF Incoming, Taker
      <4> HIDE DEF p
      <4>2. PICK k \in DOMAIN entries[p] :
              /\ entries[p][k] = Head(stream[p]).image
              /\ \A i \in DOMAIN Taker(p).store, j \in k..Len(entries[p]) :
                   Taker(p).store[i] # entries[p][j]
        BY <2>1, <3>3, <4>1, NextIsFresh
      <4>3. Given[p] = Taker(p).store
        BY <4>1 DEF Given
      <4>4. Exchanged!Fresh(p, k)
        BY <4>2, <4>3 DEF Exchanged!Fresh, Given
      <4>5. Given' = [Given EXCEPT ![p] = Append(@, entries[p][k])]
        <5> DEFINE grown == Append(Given[p], entries[p][k])
        <5>1. /\ Other(p) = r /\ Incoming(r) = stream[p] /\ Taker(p) = downloader[r]
              /\ downloader'[r].store = Append(downloader[r].store, Head(Incoming(r)).image)
              /\ entries[p][k] = Head(stream[p]).image /\ Given[p] = Taker(p).store
          BY <3>3, <4>1, <4>2, <4>3
        <5>2. downloader'[Other(p)].store = grown
          BY <5>1
        <5>3. \A q \in Peers \ {p} : downloader'[Other(q)].store = downloader[Other(q)].store
          BY <3>3, <4>1
        <5> HIDE DEF grown
        <5>4. [Given EXCEPT ![p] = grown] = [q \in Peers |-> IF q = p THEN grown ELSE Given[q]]
          BY DEF Given
        <5>5. \A q \in Peers : downloader'[Other(q)].store = IF q = p THEN grown ELSE Given[q]
          BY <5>2, <5>3 DEF Given
        <5>6. Given' = [Given EXCEPT ![p] = grown]
          BY <5>4, <5>5 DEF Given
        <5> QED
          BY <5>6 DEF grown
      <4>6. Exchanged!Other(p) \in RunningPeers
        BY <3>3, <4>1 DEF Exchanged!Other, Other, RunningPeers
      <4> QED
        BY <2>1, <3>1, <4>1, <4>4, <4>5, <4>6 DEF Exchanged!Give, Given, RunningPeers, p
    <3> QED
      BY <2>1, <3>2, <3>3, StoreSteps, OtherPeer
  <2> QED
    BY <2>1, <2>2, <2>3, RunningSteps
<1> QED
  BY <1>1, <1>2, AlwaysProtocol, PTL DEF Spec, ImplementsExchange, Exchanged!Spec
-----------------------------------------------------------------------------
(* What becomes of the entries. *)

\* The scan passes over nothing that was not confirmed.
LEMMA ScannedAll ==
  ASSUME Typed, NEW p \in Peers,
         NEW i \in (uploader[p].processed_entry_count + 1)..ScanEnd(p)
  PROVE  \/ entries[p][i] \in receiver[p].received_hashes
         \/ \E n \in DOMAIN Scanned(p) : Scanned(p)[n] = entries[p][i]
<1> DEFINE S == Unconfirmed(p, ScanEnd(p))
<1>1. /\ uploader[p].processed_entry_count \in Nat /\ ScanEnd(p) \in Int
      /\ IsFiniteSet(S)
  <2>1. uploader[p].processed_entry_count \in Nat /\ uploader[p].total_entry_count \in Nat
    BY UploaderFacts
  <2>2. ScanEnd(p) \in uploader[p].processed_entry_count..uploader[p].total_entry_count
        /\ IsFiniteSet(S)
    BY ScanEndType DEF Typed
  <2> QED
    BY <2>1, <2>2
<1>2. S \in SUBSET Nat
  BY <1>1 DEF Unconfirmed
<1>3. entries[p][i] \notin receiver[p].received_hashes => i \in S
  BY DEF Unconfirmed
<1> HIDE DEF S
<1>4. /\ Ascending(S) \in [1..Cardinality(S) -> S]
      /\ \A e \in S : \E n \in 1..Cardinality(S) : Ascending(S)[n] = e
  BY <1>1, <1>2, AscendingLists
<1>5. Scanned(p) = [n \in 1..Cardinality(S) |-> entries[p][Ascending(S)[n]]]
  BY <1>4 DEF Scanned, S
<1> QED
  BY <1>3, <1>4, <1>5

\* A batch holds entries of the peer.
LEMMA BatchFound ==
  ASSUME Typed, NEW p \in Peers, downloader[p].at = "notify"
  PROVE  ToSet(Batch(p)) \subseteq ToSet(entries[p])
<1> DEFINE last == downloader[p].hasher_entry_count
           from == UpdateMax * ((last - 1) \div UpdateMax) + 1
<1>1. entries[p] \in Seq(Hash)
  BY EntriesType DEF Typed, TypeOK
<1>2. last \in Nat /\ last > 0 /\ last <= Len(entries[p])
  BY TypedParts, UploaderFacts DEF DownloaderOK
<1>3. UpdateMax \in Nat /\ UpdateMax > 0
  BY PeerSyncAssumption
<1>4. (last - 1) \div UpdateMax \in Nat
  BY <1>2, <1>3
<1>5. from \in Nat /\ from >= 1
  BY <1>3, <1>4
<1>6. Batch(p) = SubSeq(entries[p], from, last)
  BY DEF Batch
<1> HIDE DEF last, from
<1>7. \A k \in DOMAIN SubSeq(entries[p], from, last) :
        /\ k + from - 1 \in DOMAIN entries[p]
        /\ SubSeq(entries[p], from, last)[k] = entries[p][k + from - 1]
  BY <1>1, <1>2, <1>5
<1> QED
  BY <1>6, <1>7 DEF ToSet

\* What is left of a sequence was there before.
LEMMA RemoveAtFewer ==
  ASSUME NEW T, NEW s \in Seq(T), NEW j \in DOMAIN s, NEW k \in DOMAIN RemoveAt(s, j)
  PROVE  \E l \in DOMAIN s : RemoveAt(s, j)[k] = s[l]
<1> DEFINE before == SubSeq(s, 1, j - 1)
           behind == SubSeq(s, j + 1, Len(s))
<1>1. j \in 1..Len(s) /\ Len(s) \in Nat /\ DOMAIN s = 1..Len(s)
  OBVIOUS
<1>2. /\ before \in Seq(T) /\ Len(before) = j - 1
      /\ \A l \in 1..(j - 1) : before[l] = s[l]
  BY <1>1
<1>3. /\ behind \in Seq(T) /\ Len(behind) = Len(s) - j
      /\ \A l \in 1..(Len(s) - j) : behind[l] = s[l + j]
  <2> DEFINE lo == j + 1
             hi == Len(s)
  <2>1. lo \in Int /\ hi \in Int /\ lo = j + 1 /\ hi = Len(s) /\ lo <= hi + 1
    BY <1>1
  <2>2. \A l \in lo..hi : s[l] \in T
    BY <1>1
  <2> HIDE DEF lo, hi
  <2>3. /\ SubSeq(s, lo, hi) \in Seq(T)
        /\ Len(SubSeq(s, lo, hi)) = IF lo <= hi THEN hi - lo + 1 ELSE 0
        /\ \A l \in 1..(hi - lo + 1) : SubSeq(s, lo, hi)[l] = s[lo + l - 1]
    BY <2>1, <2>2, SubSeqProperties
  <2>4. behind = SubSeq(s, lo, hi)
    BY DEF lo, hi
  <2> HIDE DEF behind
  <2>5. Len(behind) = Len(s) - j
    BY <1>1, <2>1, <2>3, <2>4
  <2>6. ASSUME NEW l \in 1..(Len(s) - j)
        PROVE  behind[l] = s[l + j]
    <3>1. l \in 1..(hi - lo + 1) /\ lo + l - 1 = l + j
      BY <1>1, <2>1
    <3> QED
      BY <2>3, <2>4, <3>1
  <2> QED
    BY <2>3, <2>4, <2>5, <2>6
<1>4. RemoveAt(s, j) = before \o behind
  BY DEF RemoveAt
<1> HIDE DEF before, behind
<1>5. /\ Len(before \o behind) = Len(before) + Len(behind)
      /\ DOMAIN (before \o behind) = 1..(Len(before) + Len(behind))
      /\ \A l \in 1..(Len(before) + Len(behind)) :
           (before \o behind)[l] = IF l <= Len(before) THEN before[l] ELSE behind[l - Len(before)]
  <2>1. /\ before \o behind \in Seq(T)
        /\ Len(before \o behind) = Len(before) + Len(behind)
        /\ \A l \in 1..(Len(before) + Len(behind)) :
             (before \o behind)[l] = IF l <= Len(before) THEN before[l] ELSE behind[l - Len(before)]
    BY <1>2, <1>3, ConcatProperties
  <2> QED
    BY <2>1
<1>6. k \in 1..(Len(s) - 1)
  BY <1>1, <1>2, <1>3, <1>4, <1>5
<1>7. CASE k <= j - 1
  <2>1. k \in 1..(j - 1) /\ k \in DOMAIN s
    BY <1>1, <1>6, <1>7
  <2> QED
    BY <1>1, <1>2, <1>3, <1>4, <1>5, <1>6, <2>1
<1>8. CASE ~(k <= j - 1)
  <2>1. k - (j - 1) \in 1..(Len(s) - j) /\ (k - (j - 1)) + j = k + 1 /\ k + 1 \in DOMAIN s
    BY <1>1, <1>6, <1>8
  <2>2. RemoveAt(s, j)[k] = behind[k - (j - 1)]
    BY <1>1, <1>2, <1>3, <1>4, <1>5, <1>6, <1>8
  <2>3. behind[k - (j - 1)] = s[k + 1]
    BY <1>3, <2>1
  <2> QED
    BY <2>1, <2>2, <2>3
<1> QED
  BY <1>7, <1>8

\* An update tells of entries of the peer that sent it.
LEMMA UpdatesTrueStep ==
  ASSUME Typed, [Next]_vars, NEW p \in Peers, UpdatesTrue(p)
  PROVE  UpdatesTrue(p)'
<1> DEFINE found == ToSet(entries[p])
<1>1. entries' = entries /\ Other(p) \in Peers /\ Other(Other(p)) = p
  BY EntriesSteps, OtherPeer
<1>2. /\ updates \in [Peers -> Seq(Seq(Hash))] /\ updates[p] \in Seq(Seq(Hash))
      /\ \A k \in DOMAIN updates[p] : ToSet(updates[p][k]) \subseteq found
  BY TypedParts DEF UpdatesTrue
<1>3. receiver'[Other(p)].received_hashes \subseteq found
  <2>1. \/ receiver'[Other(p)].received_hashes = receiver[Other(p)].received_hashes
        \/ \E k \in DOMAIN updates[p] :
             receiver'[Other(p)].received_hashes =
               receiver[Other(p)].received_hashes \cup ToSet(updates[p][k])
    BY <1>1, HashesStep
  <2> QED
    BY <1>2, <2>1 DEF UpdatesTrue
<1>4. ASSUME NEW k \in DOMAIN updates'[p] PROVE ToSet(updates'[p][k]) \subseteq found
  <2>1. CASE updates'[p] = updates[p]
    BY <1>2, <2>1
  <2>2. CASE SendUpdate(p)
    <3>1. updates'[p] = Append(updates[p], Batch(p))
      BY <1>2, <2>2 DEF SendUpdate
    <3>2. ToSet(Batch(p)) \subseteq found
      BY <2>2, BatchFound DEF SendUpdate, Downloads
    <3> QED
      BY <1>2, <3>1, <3>2, AppendTokens
  <2>3. ASSUME NEW j \in DOMAIN updates[p], updates'[p] = RemoveAt(updates[p], j)
        PROVE  \E l \in DOMAIN updates[p] : updates'[p][k] = updates[p][l]
    BY <1>2, <2>3, RemoveAtFewer
  <2>4. ASSUME NEW q \in Peers, SendUpdate(q) \/ ReceiveUpdate(q) \/ ReceiveLate(q)
        PROVE  \/ updates'[p] = updates[p] \/ SendUpdate(p)
               \/ \E j \in DOMAIN updates[p] : updates'[p] = RemoveAt(updates[p], j)
    <3>1. CASE SendUpdate(q)
      BY <1>2, <3>1 DEF SendUpdate
    <3>2. CASE ReceiveUpdate(q) \/ ReceiveLate(q)
      <4>1. PICK j \in DOMAIN updates[Other(q)] :
              updates' = [updates EXCEPT ![Other(q)] = RemoveAt(@, j)]
        BY <3>2 DEF ReceiveUpdate, ReceiveLate
      <4> QED
        BY <1>2, <4>1
    <3> QED
      BY <2>4, <3>1, <3>2
  <2> QED
    BY <1>2, <2>1, <2>2, <2>3, <2>4, UpdatesSteps
<1> QED
  BY <1>1, <1>3, <1>4 DEF UpdatesTrue

\* An entry is confirmed, offered, or still ahead.
LEMMA CoveredStep ==
  ASSUME Typed, [Next]_vars, NEW p \in Peers, Covered(p), UpdatesTrue(Other(p))
  PROVE  Covered(p)'
<1> DEFINE done == uploader[p].processed_entry_count
           Told(i) == \/ entries[p][i] \in ToSet(entries[Other(p)])
                      \/ \E k \in DOMAIN uploader'[p].offers :
                           entries[p][i] \in ToSet(uploader'[p].offers[k])
<1>1. entries' = entries /\ Other(p) \in Peers /\ Other(Other(p)) = p
  BY EntriesSteps, OtherPeer
<1>2. uploader[p].offers \in Seq(Seq(Hash)) /\ done \in Nat
  BY UploaderFacts
<1>3. \A k \in DOMAIN uploader[p].offers :
        k \in DOMAIN uploader'[p].offers /\ uploader'[p].offers[k] = uploader[p].offers[k]
  <2>1. CASE uploader'[p].offers = uploader[p].offers
    BY <2>1
  <2>2. CASE uploader'[p].offers = Append(uploader[p].offers, Scanned(p))
    BY <1>2, <2>2, AppendTokens
  <2> QED
    BY <2>1, <2>2, OffersStep
<1>4. ASSUME NEW i \in 1..done PROVE Told(i)
  BY <1>3 DEF Covered
<1>5. (\A i \in 1..uploader'[p].processed_entry_count : Told(i)) => Covered(p)'
  BY <1>1 DEF Covered
<1>6. CASE uploader'[p].processed_entry_count = done
  BY <1>4, <1>5, <1>6
<1>7. CASE NothingScanned(p) \/ OfferSent(p)
  <2>1. uploader'[p].processed_entry_count = ScanEnd(p)
    BY <1>7 DEF NothingScanned, OfferSent, ScannedOn
  <2>2. ScanEnd(p) \in Int /\ done <= ScanEnd(p)
    <3>1. uploader[p].total_entry_count \in Nat
      BY UploaderFacts
    <3>2. ScanEnd(p) \in done..uploader[p].total_entry_count
      BY ScanEndType DEF Typed
    <3> QED
      BY <1>2, <3>1, <3>2
  <2>3. ASSUME NEW i \in (done + 1)..ScanEnd(p) PROVE Told(i)
    <3>1. CASE entries[p][i] \in receiver[p].received_hashes
      BY <1>1, <3>1 DEF UpdatesTrue
    <3>2. ASSUME NEW n \in DOMAIN Scanned(p), Scanned(p)[n] = entries[p][i] PROVE Told(i)
      <4>1. Scanned(p) # <<>>
        OBVIOUS
      <4>2. uploader'[p].offers = Append(uploader[p].offers, Scanned(p))
        BY <1>7, <4>1 DEF NothingScanned, OfferSent
      <4>3. /\ Len(uploader[p].offers) + 1 \in DOMAIN uploader'[p].offers
            /\ uploader'[p].offers[Len(uploader[p].offers) + 1] = Scanned(p)
        BY <1>2, <4>2, AppendTokens
      <4>4. entries[p][i] \in ToSet(Scanned(p))
        BY <3>2 DEF ToSet
      <4> QED
        BY <4>3, <4>4
    <3> QED
      BY <3>1, <3>2, ScannedAll
  <2>4. \A i \in 1..ScanEnd(p) : i \in 1..done \/ i \in (done + 1)..ScanEnd(p)
    BY <1>2, <2>2
  <2> QED
    BY <1>4, <1>5, <2>1, <2>3, <2>4
<1>8. NothingScanned(p) \/ OfferSent(p) \/ uploader'[p].processed_entry_count = done
  BY DirectionSteps
  DEF DirectionStep, Still, HashesOn, ByteSent, OfferAnswered, FileStored, WentAstray,
      StrayedOn, TakerDone, SameUploader, Looked, ByteReceived, UploaderGoes,
      MaskReceived, FileSent, UploadsOn
<1> QED
  BY <1>6, <1>7, <1>8
-----------------------------------------------------------------------------
(* What becomes of the offers. *)

\* What is stored stays so.
LEMMA StoreGrows ==
  ASSUME Typed, [Next]_vars, NEW p \in Peers
  PROVE  ToSet(Taker(p).store) \subseteq ToSet(Taker(p)'.store)
<1>1. Taker(p).store \in Seq(Hash) /\ Taker(p)' = downloader'[Other(p)]
  BY DirectionFacts DEF DownloaderState, Taker
<1>2. \/ Taker(p)'.store = Taker(p).store
      \/ \E h : Taker(p)'.store = Append(Taker(p).store, h)
  <2>1. Still(p) \/ Looked(p) \/ ByteReceived(p) \/ NothingScanned(p) \/ OfferSent(p)
          \/ MaskReceived(p) \/ FileSent(p) => Taker(p)' = Taker(p)
    BY <1>1 DEF Still, Looked, ByteReceived, NothingScanned, OfferSent, ScannedOn,
      MaskReceived, FileSent, UploadsOn, SameTaker, Taker
  <2> QED
    BY <1>1, <2>1, DirectionSteps
    DEF DirectionStep, HashesOn, ByteSent, OfferAnswered, FileStored, WentAstray, StrayedOn,
        TakerDone, TakerGoes
<1>3. ASSUME NEW h, Taker(p)'.store = Append(Taker(p).store, h)
      PROVE  \A k \in DOMAIN Taker(p).store :
               k \in DOMAIN Taker(p)'.store /\ Taker(p)'.store[k] = Taker(p).store[k]
  BY <1>1, <1>3, AppendTokens
<1> QED
  BY <1>2, <1>3 DEF ToSet

\* An image on its way arrives, unless the taker goes astray.
LEMMA OnWayStep ==
  ASSUME Typed, [Next]_vars, NEW p \in Peers, NEW h, OnWay(p, h),
         ~WentAstray(p), ~StrayedOn(p)
  PROVE  OnWay(p, h)'
<1>1. /\ stream[p] \in Seq(Token) /\ Taker(p).store \in Seq(Hash)
      /\ Taker(p)' = downloader'[Other(p)] /\ Current(p)' = uploader'[p].missing_entries
  BY DirectionFacts DEF DownloaderState, Taker, Current
<1> DEFINE Sent(tokens) == \E k \in DOMAIN tokens : tokens[k].kind = "file" /\ tokens[k].image = h
           ToSend(u) == \E j \in u.uploads : u.missing_entries[j + 1] = h
<1>2. /\ OnWay(p, h) <=> h \in ToSet(Taker(p).store) \/ Sent(stream[p]) \/ ToSend(uploader[p])
      /\ OnWay(p, h)' <=> h \in ToSet(Taker(p)'.store) \/ Sent(stream'[p]) \/ ToSend(uploader'[p])
  BY DEF OnWay, Current
<1>3. h \in ToSet(Taker(p).store) => h \in ToSet(Taker(p)'.store)
  BY StoreGrows
<1>4. uploader[p].at # "files" => ~ToSend(uploader[p])
  BY UploaderFacts
<1>5. ASSUME NEW t, stream'[p] = Append(stream[p], t) PROVE Sent(stream[p]) => Sent(stream'[p])
  <2>1. \A k \in DOMAIN stream[p] :
          k \in DOMAIN stream'[p] /\ stream'[p][k] = stream[p][k]
    BY <1>1, <1>5, AppendTokens
  <2> QED
    BY <2>1
<1>6. ASSUME stream[p] # <<>>, stream'[p] = Tail(stream[p]), Sent(stream[p])
      PROVE  Sent(stream'[p]) \/ (Head(stream[p]).kind = "file" /\ Head(stream[p]).image = h)
  <2>1. PICK k \in DOMAIN stream[p] : stream[p][k].kind = "file" /\ stream[p][k].image = h
    BY <1>6
  <2>2. Head(stream[p]) = stream[p][1]
    BY <1>1, <1>6, TailTokens
  <2>3. CASE k # 1
    <3>1. /\ Len(stream[p]) \in Nat \ {0} /\ Len(Tail(stream[p])) = Len(stream[p]) - 1
          /\ DOMAIN stream[p] = 1..Len(stream[p]) /\ Tail(stream[p]) \in Seq(Token)
          /\ \A l \in DOMAIN Tail(stream[p]) : Tail(stream[p])[l] = stream[p][l + 1]
      BY <1>1, <1>6, TailTokens
    <3>2. DOMAIN Tail(stream[p]) = 1..Len(Tail(stream[p]))
      BY <3>1
    <3>3. k - 1 \in 1..(Len(stream[p]) - 1) /\ (k - 1) + 1 = k
      BY <2>3, <3>1
    <3>4. k - 1 \in DOMAIN Tail(stream[p]) /\ Tail(stream[p])[k - 1] = stream[p][k]
      <4>1. k - 1 \in DOMAIN Tail(stream[p])
        BY <3>1, <3>2, <3>3
      <4>2. Tail(stream[p])[k - 1] = stream[p][(k - 1) + 1]
        BY <3>1, <4>1
      <4> QED
        BY <3>3, <4>1, <4>2
    <3> QED
      BY <1>6, <2>1, <3>4
  <2> QED
    BY <2>1, <2>2, <2>3
<1>7. CASE Still(p) \/ HashesOn(p) \/ ByteSent(p) \/ TakerDone(p)
  BY <1>2, <1>3, <1>7
  DEF Still, HashesOn, ByteSent, TakerDone, SameUploader, SameStream
<1>8. CASE OfferAnswered(p)
  BY <1>2, <1>3, <1>6, <1>8 DEF OfferAnswered, Kind, SameUploader
<1>9. CASE FileStored(p)
  <2>1. /\ stream[p] # <<>> /\ stream'[p] = Tail(stream[p]) /\ SameUploader(p)
        /\ Taker(p)'.store = Append(Taker(p).store, Head(stream[p]).image)
    BY <1>1, <1>9 DEF FileStored, Kind
  <2>2. Head(stream[p]).image \in ToSet(Taker(p)'.store)
    BY <1>1, <2>1, AppendTokens DEF ToSet
  <2> QED
    BY <1>2, <1>3, <1>6, <2>1, <2>2 DEF SameUploader
<1>10. CASE Looked(p) \/ ByteReceived(p)
  BY <1>2, <1>3, <1>10 DEF Looked, ByteReceived, UploaderGoes, SameStream
<1>11. CASE NothingScanned(p)
  BY <1>2, <1>3, <1>4, <1>11 DEF NothingScanned, ScannedOn, SameStream
<1>12. CASE OfferSent(p)
  BY <1>2, <1>3, <1>4, <1>5, <1>12 DEF OfferSent, ScannedOn
<1>13. CASE MaskReceived(p)
  BY <1>2, <1>3, <1>4, <1>13 DEF MaskReceived, SameStream
<1>14. CASE FileSent(p)
  <2>1. PICK k \in uploader[p].uploads :
          /\ stream'[p] = Append(stream[p], FileOf(uploader[p].missing_entries[k + 1]))
          /\ uploader'[p].uploads = uploader[p].uploads \ {k}
          /\ uploader'[p].missing_entries = uploader[p].missing_entries
    BY <1>14 DEF FileSent, UploadsOn, Current
  <2>2. uploader[p].missing_entries[k + 1] = h => Sent(stream'[p])
    BY <1>1, <2>1, AppendTokens DEF FileOf
  <2> QED
    BY <1>2, <1>3, <1>5, <2>1, <2>2
<1> QED
  BY <1>7, <1>8, <1>9, <1>10, <1>11, <1>12, <1>13, <1>14, DirectionSteps DEF DirectionStep

\* A wrong answer remains one.
LEMMA WrongStays ==
  ASSUME Typed, [Next]_vars, NEW p \in Peers, NEW k \in 1..Len(uploader[p].offers)
  PROVE  WrongAnswer(p, k) => WrongAnswer(p, k)'
<1>1. entries' = entries
  BY EntriesSteps
<1>2. \A j \in 1..k : j \in 1..Len(uploader[p].offers)
  BY OffersGrow
<1>3. \A j \in 1..k : Misread(p, j)' <=> Misread(p, j)
  BY <1>2, OffersGrow
<1> QED
  BY <1>1, <1>3, OffersGrow DEF WrongAnswer

\* The answers that have been read become more with each mask, and only then.
LEMMA AnswersStep ==
  ASSUME Typed, [Next]_vars, NEW p \in Peers
  PROVE  /\ Len(uploader[p].offers) \in Nat
         /\ \/ AnswersRead(p)' = AnswersRead(p)
            \/ /\ MaskReceived(p) /\ AnswersRead(p)' = Len(uploader[p].offers)
               /\ AnswersRead(p) = Len(uploader[p].offers) - 1
<1>1. uploader[p].offers \in Seq(Seq(Hash)) /\ Len(uploader[p].offers) \in Nat
  BY OffersGrow
<1>2. SameUploader(p) => AnswersRead(p)' = AnswersRead(p)
  BY DEF SameUploader, AnswersRead
<1>3. Looked(p) \/ ByteReceived(p) \/ NothingScanned(p) \/ FileSent(p)
        => AnswersRead(p)' = AnswersRead(p)
  BY DEF Looked, ByteReceived, UploaderGoes, NothingScanned, ScannedOn, FileSent, UploadsOn,
    AnswersRead
<1>4. ASSUME OfferSent(p) PROVE AnswersRead(p)' = AnswersRead(p)
  <2>1. /\ uploader[p].at = "scan" /\ uploader'[p].at = "mask"
        /\ Len(uploader'[p].offers) = Len(uploader[p].offers) + 1
    BY <1>1, <1>4, AppendTokens DEF OfferSent, ScannedOn
  <2> QED
    BY <1>1, <2>1 DEF AnswersRead
<1>5. ASSUME MaskReceived(p)
      PROVE  /\ AnswersRead(p)' = Len(uploader[p].offers)
             /\ AnswersRead(p) = Len(uploader[p].offers) - 1
  BY <1>5 DEF MaskReceived, UploadsOn, AnswersRead
<1> QED
  BY <1>1, <1>2, <1>3, <1>4, <1>5, DirectionSteps
  DEF DirectionStep, Still, HashesOn, ByteSent, OfferAnswered, FileStored, WentAstray, StrayedOn,
      TakerDone

\* When an answer is wrong, what was offered before has arrived, and what is
\* offered from then on may be lost.
Reckoned(p) ==
  Covered(p) /\ UpdatesTrue(p) /\ Accounted(p) /\ (MisreadBefore(p) => Settled(p))

\* A mask that was not misread leaves nothing out.
LEMMA MaskAccounts ==
  ASSUME Typed, [Next]_vars, NEW p \in Peers, Direction(p), MaskReceived(p),
         ~WrongAnswer(p, Len(uploader[p].offers)),
         NEW h \in ToSet(uploader[p].offers[Len(uploader[p].offers)])
  PROVE  h \in ToSet(entries[Other(p)]) \/ OnWay(p, h)'
<1> DEFINE n == Len(uploader[p].offers)
<1>1. uploader[p].at = "mask" /\ CurrentOffered(p) /\ InTouch(p)
  BY DEF MaskReceived, Direction
<1>2. n \in Nat /\ n \in 1..n /\ uploader[p].offers[n] = Current(p)
  <2>1. uploader[p].offers # <<>> /\ uploader[p].offers[n] = Current(p)
    BY <1>1 DEF CurrentOffered
  <2>2. uploader[p].offers \in Seq(Seq(Hash)) /\ n \in Nat
    BY OffersGrow
  <2>3. n # 0
    BY <2>1, <2>2, EmptySeq
  <2> QED
    BY <2>1, <2>2, <2>3
<1>3. ~Misread(p, n)
  BY DEF WrongAnswer
<1>4. Phase(p)
  <2> SUFFICES ASSUME MisreadBefore(p), ShortName(p) PROVE FALSE
    BY <1>1 DEF InTouch
  <2>1. PICK j \in 1..OffersRead(p) : Misread(p, j)
    BY DEF MisreadBefore
  <2>2. j \in 1..n
    <3>1. OffersRead(p) \in {n, n - 1}
      BY DEF OffersRead
    <3> QED
      BY <1>2, <3>1
  <2> QED
    BY <2>1, <2>2 DEF WrongAnswer, ShortName
<1>5. /\ uploader'[p].uploads = Expected(Len(Current(p)), HeldNow(p))
      /\ uploader'[p].missing_entries = Current(p)
  <2>1. Head(acks[p]) = Mask(HeldNow(p))
    BY <1>4, MaskAnswers
  <2>2. Uploaded(Len(Current(p)), Mask(HeldNow(p))) = Expected(Len(Current(p)), HeldNow(p))
    BY <1>1, <1>3, CurrentUnderstood
  <2> QED
    BY <2>1, <2>2 DEF MaskReceived, UploadsOn, Current
<1>6. PICK i \in DOMAIN Current(p) : Current(p)[i] = h
  BY <1>2 DEF ToSet
<1>7. i - 1 \in Positions(Len(Current(p))) /\ (i - 1) + 1 = i
  <2>1. Current(p) \in Seq(Hash)
    BY Counts
  <2>2. i \in 1..Len(Current(p)) /\ Len(Current(p)) \in Nat
    BY <2>1
  <2> QED
    BY <2>2 DEF Positions
<1>8. CASE i - 1 \in HeldNow(p)
  BY <1>6, <1>7, <1>8 DEF HeldNow, Held
<1>9. CASE i - 1 \notin HeldNow(p)
  <2>1. i - 1 \in uploader'[p].uploads
    BY <1>5, <1>7, <1>9 DEF Expected
  <2>2. Current(p)'[(i - 1) + 1] = h
    BY <1>5, <1>6, <1>7 DEF Current
  <2> QED
    BY <2>1, <2>2 DEF OnWay
<1> QED
  BY <1>8, <1>9

\* Every step keeps account of the entries of a peer.
LEMMA AccountedStep ==
  ASSUME Typed, [Next]_vars, NEW p \in Peers, Direction(p), Reckoned(p)
  PROVE  Accounted(p)'
<1> DEFINE n == Len(uploader[p].offers)
           found == ToSet(entries[Other(p)])
<1>1. entries' = entries /\ n \in Nat
  BY EntriesSteps, OffersGrow
<1>2. AnswersRead(p) \in {n, n - 1} /\ AnswersRead(p)' \in {AnswersRead(p), n}
  BY AnswersStep DEF AnswersRead
<1>3. \A k \in 1..AnswersRead(p)' : k \in 1..n
  BY <1>1, <1>2
<1> SUFFICES ASSUME NEW k \in 1..AnswersRead(p)', ~WrongAnswer(p, k)
             PROVE  \A h \in ToSet(uploader[p].offers[k]) : h \in found \/ OnWay(p, h)'
  BY <1>1, <1>3, WrongStays, OffersGrow DEF Accounted
<1>4. ASSUME MisreadBefore(p), \A j \in 1..k : ~Misread(p, j)
      PROVE  \A h \in ToSet(uploader[p].offers[k]) : h \in found \/ OnWay(p, h)'
  <2>1. k \in DOMAIN uploader[p].offers
    BY <1>3, OffersGrow
  <2>2. \A h \in ToSet(uploader[p].offers[k]) : h \in found \cup ToSet(Taker(p).store)
    BY <1>4, <2>1 DEF Reckoned, Settled
  <2> QED
    BY <2>2, StoreGrows DEF OnWay
<1>5. CASE WentAstray(p) \/ StrayedOn(p)
  <2>1. MisreadBefore(p)
    <3>1. WentAstray(p) => MisreadBefore(p)
      BY InStepReads DEF Direction, InStep
    <3>2. StrayedOn(p) => MisreadBefore(p)
      BY DEF StrayedOn, Direction, InStep
    <3> QED
      BY <1>5, <3>1, <3>2
  <2>2. ShortName(p)
    <3>1. WentAstray(p) => ShortName(p)
      BY AstrayByName DEF Direction
    <3>2. StrayedOn(p) => ShortName(p)
      BY DEF StrayedOn, Direction, InTouch
    <3> QED
      BY <1>5, <3>1, <3>2
  <2>3. \A j \in 1..k : ~Misread(p, j)
    BY <2>2 DEF WrongAnswer, ShortName
  <2> QED
    BY <1>4, <2>1, <2>3
<1>6. CASE ~WentAstray(p) /\ ~StrayedOn(p)
  <2>1. CASE k \in 1..AnswersRead(p)
    <3>1. \A h \in ToSet(uploader[p].offers[k]) : h \in found \/ OnWay(p, h)
      BY <2>1 DEF Reckoned, Accounted
    <3> QED
      BY <1>6, <3>1, OnWayStep
  <2>2. CASE k \notin 1..AnswersRead(p)
    <3>1. MaskReceived(p) /\ AnswersRead(p)' = n /\ AnswersRead(p) = n - 1
      BY <2>2, AnswersStep
    <3>2. k = n
      BY <1>1, <2>2, <3>1
    <3> QED
      BY <3>1, <3>2, MaskAccounts
  <2> QED
    BY <2>1, <2>2
<1> QED
  BY <1>5, <1>6

\* A file that is read leaves an offer behind it on its way.
LEMMA OfferStays ==
  ASSUME Typed, NEW p \in Peers, Kind(stream[p], "file"), stream'[p] = Tail(stream[p])
  PROVE  OfferOnItsWay(p)' <=> OfferOnItsWay(p)
<1>1. /\ stream[p] \in Seq(Token) /\ stream[p] # <<>>
      /\ Head(stream[p]).kind = "file" /\ Head(stream[p]) = stream[p][1]
  BY DirectionFacts, TailTokens DEF Kind
<1>2. /\ Len(stream[p]) \in Nat \ {0} /\ Len(Tail(stream[p])) = Len(stream[p]) - 1
      /\ DOMAIN stream[p] = 1..Len(stream[p]) /\ Tail(stream[p]) \in Seq(Token)
      /\ \A l \in DOMAIN Tail(stream[p]) :
           l + 1 \in DOMAIN stream[p] /\ Tail(stream[p])[l] = stream[p][l + 1]
  BY <1>1, TailTokens
<1>3. DOMAIN Tail(stream[p]) = 1..(Len(stream[p]) - 1)
  BY <1>2
<1>4. ASSUME NEW k \in DOMAIN stream[p], stream[p][k].kind = "offer"
      PROVE  \E l \in DOMAIN Tail(stream[p]) : Tail(stream[p])[l].kind = "offer"
  <2>1. k # 1
    BY <1>1, <1>4
  <2>2. k - 1 \in 1..(Len(stream[p]) - 1) /\ (k - 1) + 1 = k
    BY <1>2, <2>1
  <2>3. k - 1 \in DOMAIN Tail(stream[p])
    BY <1>3, <2>2
  <2>4. Tail(stream[p])[k - 1] = stream[p][(k - 1) + 1]
    BY <1>2, <2>3
  <2> QED
    BY <1>4, <2>2, <2>3, <2>4
<1> QED
  BY <1>2, <1>4 DEF OfferOnItsWay

\* The first misread offer is misread when it is answered, and by then all that
\* was sent has been stored.
LEMMA MisreadStarts ==
  ASSUME Typed, [Next]_vars, NEW p \in Peers, Direction(p), ~MisreadBefore(p), MisreadBefore(p)'
  PROVE  /\ OfferAnswered(p) /\ uploader[p].at = "mask" /\ SameUploader(p)
         /\ Len(stream[p]) = 1 /\ Head(stream[p]).kind = "offer"
         /\ Misread(p, Len(uploader[p].offers))
<1> DEFINE n == Len(uploader[p].offers)
<1>1. n \in Nat
  BY OffersGrow
<1>2. Taker(p).at # "astray" /\ Phase(p) /\ Exact(p) /\ CurrentOffered(p) /\ Ended(p)
  BY DEF Direction, InStep
<1>3. ~WentAstray(p) /\ ~StrayedOn(p)
  BY <1>2, InStepReads DEF StrayedOn
<1>4. PICK j \in 1..OffersRead(p)' : Misread(p, j)'
  BY DEF MisreadBefore
<1>5. OffersRead(p)' \in Int /\ OffersRead(p) \in Int /\ OffersRead(p) <= n
  <2>1. Len(uploader'[p].offers) \in Nat
    BY NextTyped, UploaderFacts, OffersStep, OffersGrow, AppendTokens
  <2> QED
    BY <1>1, <2>1 DEF OffersRead
<1>6. OffersRead(p)' # OffersRead(p)
  <2> SUFFICES ASSUME OffersRead(p)' = OffersRead(p) PROVE FALSE
    OBVIOUS
  <2>1. j \in 1..OffersRead(p) /\ j \in 1..n
    BY <1>1, <1>4, <1>5
  <2> QED
    BY <1>4, <2>1, OffersGrow DEF MisreadBefore
<1>7. SameUploader(p) /\ SameStream(p) => OffersRead(p)' = OffersRead(p)
  BY DEF SameUploader, SameStream, OffersRead, OfferOnItsWay
<1>8. ~(Still(p) \/ HashesOn(p) \/ ByteSent(p) \/ TakerDone(p))
  BY <1>6, <1>7 DEF Still, HashesOn, ByteSent, TakerDone
<1>9. ~(Looked(p) \/ ByteReceived(p) \/ NothingScanned(p) \/ FileSent(p))
  BY <1>6
  DEF Looked, ByteReceived, UploaderGoes, NothingScanned, ScannedOn, FileSent, UploadsOn, OffersRead
<1>10. ~FileStored(p)
  <2> SUFFICES ASSUME FileStored(p) PROVE FALSE
    OBVIOUS
  <2>1. Kind(stream[p], "file") /\ stream'[p] = Tail(stream[p]) /\ SameUploader(p)
    BY DEF FileStored
  <2>2. OfferOnItsWay(p)' <=> OfferOnItsWay(p)
    BY <2>1, OfferStays
  <2> QED
    BY <1>6, <2>1, <2>2 DEF SameUploader, OffersRead
<1>11. ~OfferSent(p)
  <2> SUFFICES ASSUME OfferSent(p) PROVE FALSE
    OBVIOUS
  <2>1. /\ uploader[p].at = "scan" /\ uploader'[p].at = "mask"
        /\ uploader'[p].offers = Append(uploader[p].offers, Scanned(p))
        /\ stream'[p] = Append(stream[p], OfferOf(Scanned(p)))
    BY DEF OfferSent, ScannedOn
  <2>2. Len(uploader'[p].offers) = n + 1
    BY <2>1, OffersGrow, AppendTokens
  <2>3. OfferOnItsWay(p)'
    <3>1. /\ Len(stream[p]) + 1 \in DOMAIN stream'[p]
          /\ stream'[p][Len(stream[p]) + 1] = OfferOf(Scanned(p))
      BY <2>1, DirectionFacts, AppendTokens
    <3> QED
      BY <3>1 DEF OfferOnItsWay, OfferOf
  <2> QED
    BY <1>1, <1>6, <2>1, <2>2, <2>3 DEF OffersRead
<1>12. ~MaskReceived(p)
  <2> SUFFICES ASSUME MaskReceived(p) PROVE FALSE
    OBVIOUS
  <2>1. ~OfferOnItsWay(p)
    BY <1>2, MaskAnswers
  <2>2. uploader'[p].at # "mask" /\ uploader'[p].offers = uploader[p].offers
    BY DEF MaskReceived, UploadsOn
  <2> QED
    BY <1>6, <2>1, <2>2 DEF OffersRead
<1>13. OfferAnswered(p)
  BY <1>3, <1>8, <1>9, <1>10, <1>11, <1>12, DirectionSteps DEF DirectionStep
<1>14. /\ SameUploader(p) /\ stream[p] # <<>> /\ Head(stream[p]).kind = "offer"
       /\ stream[p] \in Seq(Token)
  BY <1>13, DirectionFacts DEF OfferAnswered, Kind
<1>15. uploader[p].at = "mask" /\ Len(stream[p]) = 1
  <2>1. uploader[p].at = "mask" /\ Offering(p)
    <3>1. ~FilesUpto(stream[p], Len(stream[p]))
      BY <1>14, FilesTail
    <3> QED
      BY <1>2, <1>14, <3>1 DEF Phase, Answered
  <2> QED
    BY <1>14, <2>1, FilesTail DEF Offering
<1>16. Misread(p, n)
  <2>1. OffersRead(p) = n - 1 /\ OffersRead(p)' = n
    <3>1. OfferOnItsWay(p)
      BY <1>14, TailTokens DEF OfferOnItsWay
    <3>2. OffersRead(p) = n - 1
      BY <1>15, <3>1 DEF OffersRead
    <3>3. OffersRead(p)' \in {n, n - 1}
      BY <1>14 DEF OffersRead, SameUploader
    <3> QED
      BY <1>6, <3>2, <3>3
  <2>2. j \in 1..n /\ Misread(p, j)
    BY <1>4, <2>1, OffersGrow
  <2>3. j \notin 1..(n - 1)
    BY <2>1, <2>2 DEF MisreadBefore
  <2>4. j = n
    BY <1>1, <2>2, <2>3
  <2> QED
    BY <2>2, <2>4
<1> QED
  BY <1>13, <1>14, <1>15, <1>16

\* Every step keeps account of what has been offered.
LEMMA SettledStep ==
  ASSUME Typed, [Next]_vars, NEW p \in Peers, Direction(p), Reckoned(p), MisreadBefore(p)'
  PROVE  Settled(p)'
<1> DEFINE n == Len(uploader[p].offers)
           found == ToSet(entries[Other(p)])
<1>1. entries' = entries /\ n \in Nat /\ DOMAIN uploader[p].offers = 1..n
  BY EntriesSteps, OffersGrow
<1> SUFFICES ASSUME NEW k \in DOMAIN uploader'[p].offers,
                    \A j \in 1..k : ~Misread(p, j)'
             PROVE  \A h \in ToSet(uploader'[p].offers[k]) : h \in found \cup ToSet(Taker(p)'.store)
  BY <1>1 DEF Settled
<1>2. ASSUME k \in 1..n, \A h \in ToSet(uploader[p].offers[k]) : h \in found \cup ToSet(Taker(p).store)
      PROVE  \A h \in ToSet(uploader'[p].offers[k]) : h \in found \cup ToSet(Taker(p)'.store)
  BY <1>2, OffersGrow, StoreGrows
<1>3. ASSUME k \in 1..n PROVE \A j \in 1..k : ~Misread(p, j)
  <2>1. \A j \in 1..k : j \in 1..n
    BY <1>1, <1>3
  <2> QED
    BY <2>1, OffersGrow
<1>4. CASE MisreadBefore(p)
  <2>1. PICK j \in 1..OffersRead(p) : Misread(p, j)
    BY <1>4 DEF MisreadBefore
  <2>2. j \in 1..n
    <3>1. OffersRead(p) \in {n, n - 1}
      BY DEF OffersRead
    <3> QED
      BY <1>1, <3>1
  <2>3. Misread(p, j)'
    BY <2>1, <2>2, OffersGrow
  <2>4. k \in 1..n
    <3>1. j \notin 1..k
      BY <2>3
    <3>2. k \in Nat /\ k >= 1
      <4>1. uploader'[p].offers \in Seq(Seq(Hash))
        BY UploaderTyped DEF UploaderOK, UploaderState
      <4> QED
        BY <4>1
    <3> QED
      BY <1>1, <2>2, <3>1, <3>2
  <2> QED
    BY <1>1, <1>2, <1>3, <1>4, <2>4 DEF Reckoned, Settled
<1>5. CASE ~MisreadBefore(p)
  <2>1. /\ uploader[p].at = "mask" /\ SameUploader(p)
        /\ Len(stream[p]) = 1 /\ Head(stream[p]).kind = "offer" /\ Misread(p, n)
    BY <1>5, MisreadStarts
  <2>2. k \in 1..n
    BY <1>1, <2>1 DEF SameUploader
  <2>3. k \in 1..AnswersRead(p)
    <3>1. k # n
      BY <1>3, <2>1, <2>2
    <3> QED
      BY <1>1, <2>1, <2>2, <3>1 DEF AnswersRead
  <2>4. ~WrongAnswer(p, k)
    <3>1. ~Misread(p, k)
      BY <1>3, <2>2
    <3> QED
      BY <1>3, <2>2, <3>1 DEF WrongAnswer
  <2>5. \A h \in ToSet(uploader[p].offers[k]) : h \in found \/ OnWay(p, h)
    BY <2>3, <2>4 DEF Reckoned, Accounted
  <2>6. ASSUME NEW h, OnWay(p, h) PROVE h \in ToSet(Taker(p).store)
    <3>1. uploader[p].uploads = {}
      BY <2>1, UploaderFacts
    <3>2. \A l \in DOMAIN stream[p] : stream[p][l].kind = "offer"
      <4>1. stream[p] \in Seq(Token)
        BY DirectionFacts
      <4>2. DOMAIN stream[p] = {1} /\ Head(stream[p]) = stream[p][1]
        BY <2>1, <4>1
      <4> QED
        BY <2>1, <4>2
    <3> QED
      BY <2>6, <3>1, <3>2 DEF OnWay
  <2> QED
    BY <1>2, <2>2, <2>5, <2>6
<1> QED
  BY <1>4, <1>5

\* The accounts hold throughout.
LEMMA AlwaysReckoned == Spec => [](\A p \in Peers : Reckoned(p))
<1>1. Init => \A p \in Peers : Reckoned(p)
  <2> SUFFICES ASSUME Init, NEW p \in Peers PROVE Reckoned(p)
    OBVIOUS
  <2>1. /\ uploader[p].at = "byte" /\ uploader[p].processed_entry_count = 0
        /\ uploader[p].offers = <<>> /\ updates[p] = <<>>
        /\ receiver[Other(p)].received_hashes = {}
    BY OtherPeer DEF Init
  <2> QED
    BY <2>1 DEF Reckoned, Covered, UpdatesTrue, Accounted, AnswersRead, Settled
<1>2. Protocol /\ (\A p \in Peers : Reckoned(p)) /\ [Next]_vars => (\A p \in Peers : Reckoned(p))'
  <2> SUFFICES ASSUME Protocol, \A p \in Peers : Reckoned(p), [Next]_vars, NEW p \in Peers
               PROVE  Reckoned(p)'
    OBVIOUS
  <2>1. Typed /\ Direction(p) /\ Reckoned(p) /\ Reckoned(Other(p))
    BY OtherPeer DEF Protocol
  <2>2. Covered(p)' /\ UpdatesTrue(p)'
    BY <2>1, CoveredStep, UpdatesTrueStep DEF Reckoned
  <2>3. Accounted(p)' /\ (MisreadBefore(p)' => Settled(p)')
    BY <2>1, AccountedStep, SettledStep
  <2> QED
    BY <2>2, <2>3 DEF Reckoned
<1> QED
  BY <1>1, <1>2, AlwaysProtocol, PTL DEF Spec

\* An image is left behind only in an offer with a wrong answer, or among the
\* entries that the uploader never looked at (peer.cpp:175-199, :389-438).
THEOREM LossExplained == Spec => []LossIsExplained
<1>1. Protocol /\ (\A p \in Peers : Reckoned(p)) => LossIsExplained
  <2> SUFFICES ASSUME Protocol, \A p \in Peers : Reckoned(p), BothFinished,
                      NEW p \in Peers, NEW h \in Lost(p),
                      ~\E k \in (uploader[p].processed_entry_count + 1)..Len(entries[p]) :
                         entries[p][k] = h
               PROVE  \E k \in DOMAIN uploader[p].offers :
                        h \in ToSet(uploader[p].offers[k]) /\ WrongAnswer(p, k)
    BY DEF LossIsExplained
  <2>1. Typed /\ Direction(p) /\ Reckoned(p) /\ Other(p) \in Peers
    BY OtherPeer DEF Protocol
  <2>2. /\ h \in ToSet(entries[p]) /\ h \notin ToSet(entries[Other(p)])
        /\ h \notin ToSet(Taker(p).store)
    BY DEF Lost, Taker
  <2>3. PICK i \in 1..Len(entries[p]) : entries[p][i] = h
    <3>1. entries[p] \in Seq(Hash)
      BY <2>1, EntriesType DEF Typed, TypeOK
    <3> QED
      BY <2>2, <3>1 DEF ToSet
  <2>4. i \in 1..uploader[p].processed_entry_count
    <3>1. uploader[p].processed_entry_count \in Nat /\ Len(entries[p]) \in Nat
      BY <2>1, UploaderFacts, EntriesType DEF Typed, TypeOK
    <3>2. i \notin (uploader[p].processed_entry_count + 1)..Len(entries[p])
      BY <2>3
    <3> QED
      BY <3>1, <3>2
  <2>5. PICK k \in DOMAIN uploader[p].offers : h \in ToSet(uploader[p].offers[k])
    BY <2>1, <2>2, <2>3, <2>4 DEF Reckoned, Covered
  <2>6. uploader[p].at = "done" /\ Taker(p).at = "done"
    BY <2>1 DEF BothFinished, Taker
  <2>7. stream[p] = <<>> /\ uploader[p].uploads = {}
    BY <2>1, <2>6, UploaderFacts DEF Direction, Ended
  <2>8. ~OnWay(p, h)
    BY <2>2, <2>7 DEF OnWay
  <2>9. k \in 1..AnswersRead(p)
    BY <2>1, <2>6, UploaderFacts DEF AnswersRead
  <2> QED
    BY <2>1, <2>2, <2>5, <2>8, <2>9 DEF Reckoned, Accounted
<1> QED
  BY <1>1, AlwaysProtocol, AlwaysReckoned, PTL
=============================================================================
