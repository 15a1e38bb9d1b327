-------------------------- MODULE ExifHasherProof --------------------------
(***************************************************************************)
(* Proofs about ExifHasher, for every directory, threshold and request:    *)
(* the walk of Get stays inside the list, the empty batch is the last one, *)
(* and a waiting consumer is owed a notification.  All three follow from   *)
(* Accounting, which says where every entry of the list is.                *)
(***************************************************************************)
EXTENDS ExifHasher, FiniteSetTheorems, TLAPS

-----------------------------------------------------------------------------
(* Remainders, for hashes_.size() % progress_threshold. *)

\* What % and \div mean.
LEMMA DivisionLaw ==
  ASSUME NEW d \in Nat \ {0}, NEW c \in Nat
  PROVE  /\ c = d * (c \div d) + (c % d)
         /\ c \div d \in Nat
         /\ c % d \in 0..(d - 1)
BY SMTT(20)

\* A larger quotient gives a product larger by at least the divisor.
LEMMA TimesStep ==
  ASSUME NEW d \in Nat \ {0}, NEW p \in Nat, NEW q \in Nat, p < q
  PROVE  d * p + d <= d * q
<1>1. PICK e \in Nat : q = p + 1 + e
  BY q - p - 1 \in Nat
<1>2. d * q = d * p + d + d * e
  BY <1>1, SMTT(20)
<1>3. d * e \in Nat /\ d * p \in Nat
  BY <1>1, SMTT(20)
<1> QED
  BY <1>2, <1>3

\* The remainder is the only one there is.
LEMMA RemainderUnique ==
  ASSUME NEW d \in Nat \ {0}, NEW q \in Nat, NEW r \in 0..(d - 1)
  PROVE  (d * q + r) % d = r
<1> DEFINE c == d * q + r
           p == c \div d
           s == c % d
<1>1. c \in Nat /\ d * q \in Nat
  BY SMTT(20)
<1>2. c = d * p + s /\ p \in Nat /\ s \in 0..(d - 1)
  BY <1>1, DivisionLaw
<1>3. d * p \in Nat
  BY <1>2, SMTT(20)
<1>4. c = d * q + r
  OBVIOUS
<1> HIDE DEF c, p, s
<1>5. ~(p < q)
  <2>1. SUFFICES ASSUME p < q PROVE FALSE
    OBVIOUS
  <2>2. d * p + d <= d * q
    BY <2>1, <1>2, TimesStep
  <2> QED
    BY <2>2, <1>1, <1>2, <1>3, <1>4
<1>6. ~(q < p)
  <2>1. SUFFICES ASSUME q < p PROVE FALSE
    OBVIOUS
  <2>2. d * q + d <= d * p
    BY <2>1, <1>2, TimesStep
  <2> QED
    BY <2>2, <1>1, <1>2, <1>3, <1>4
<1>7. s = r
  BY <1>1, <1>2, <1>4, <1>5, <1>6
<1> QED
  BY <1>7 DEF s, c

\* One more hash: the remainder goes up by one, or wraps to 0.
LEMMA RemainderStep ==
  ASSUME NEW d \in Nat \ {0}, NEW c \in Nat
  PROVE  (c + 1) % d = IF c % d = d - 1 THEN 0 ELSE (c % d) + 1
<1> DEFINE q == c \div d
           r == c % d
<1>1. c = d * q + r /\ q \in Nat /\ r \in 0..(d - 1)
  BY DivisionLaw
<1> HIDE DEF q, r
<1>2. d * q \in Nat
  BY <1>1, SMTT(20)
<1>3. CASE r = d - 1
  <2>1. d * (q + 1) = d * q + d
    BY <1>1, SMTT(20)
  <2>2. c + 1 = d * (q + 1) + 0
    BY <1>1, <1>2, <1>3, <2>1
  <2>3. (d * (q + 1) + 0) % d = 0
    BY <1>1, RemainderUnique, 0 \in 0..(d - 1), q + 1 \in Nat
  <2> QED
    BY <1>3, <2>2, <2>3 DEF r
<1>4. CASE r # d - 1
  <2>1. c + 1 = d * q + (r + 1) /\ r + 1 \in 0..(d - 1)
    BY <1>1, <1>2, <1>4
  <2>2. (d * q + (r + 1)) % d = r + 1
    BY <1>1, <2>1, RemainderUnique
  <2> QED
    BY <1>4, <2>1, <2>2 DEF r
<1> QED
  BY <1>3, <1>4
-----------------------------------------------------------------------------
(* Type correctness. *)

\* The hasher starts with the types it is declared with.
LEMMA InitType == Init => TypeOK
<1> SUFFICES ASSUME Init
             PROVE  TypeOK
  OBVIOUS
<1>1. files \in Seq(File) /\ pos \in 0..Len(files)
  BY HasherAssumption DEF HasherAssumption, Init
<1>2. hashes \in SUBSET Hash /\ IsFiniteSet(hashes)
  BY FS_EmptySet DEF Init
<1>3. done \in BOOLEAN
  BY DEF Init
<1> QED
  BY <1>1, <1>2, <1>3 DEF Init, TypeOK, RunAt, GetAt

\* Every step keeps the types.
LEMMA NextType == TypeOK /\ [Next]_vars => TypeOK'
<1> SUFFICES ASSUME TypeOK, [Next]_vars
             PROVE  TypeOK'
  OBVIOUS
<1> USE HasherAssumption DEF HasherAssumption
<1>1. CASE SkipFile
  BY <1>1 DEF SkipFile, TypeOK
<1>2. CASE AppendEntry
  <2>1. files[pos + 1] \in Hash /\ pos + 1 \in Nat \ {0}
    BY <1>2 DEF AppendEntry, Hashed, TypeOK
  <2>2. entries' \in Seq(Nat \ {0})
    BY <1>2, <2>1 DEF AppendEntry, TypeOK
  <2>3. hashes' \in SUBSET Hash /\ IsFiniteSet(hashes')
    <3>1. hashes' = hashes \cup {files[pos + 1]}
      BY <1>2 DEF AppendEntry
    <3>2. hashes \in SUBSET Hash /\ IsFiniteSet(hashes)
      BY DEF TypeOK
    <3> QED
      BY <2>1, <3>1, <3>2, FS_AddElement
  <2>4. run' \in RunAt
    BY <1>2 DEF AppendEntry, TypeOK, RunAt
  <2> QED
    BY <1>2, <2>2, <2>3, <2>4 DEF AppendEntry, TypeOK
<1>3. CASE CountBatch
  BY <1>3 DEF CountBatch, Notified, TypeOK, RunAt, GetAt
<1>4. CASE Finish
  <2>1. new_entry_count' \in Nat
    <3>1. Cardinality(hashes) % Threshold \in Nat
      BY FS_CardinalityType, DivisionLaw DEF TypeOK
    <3> QED
      BY <1>4, <3>1 DEF Finish, TypeOK
  <2> QED
    BY <1>4, <2>1 DEF Finish, Notified, TypeOK, RunAt, GetAt
<1>5. CASE AbortRun
  BY <1>5 DEF AbortRun, TypeOK, RunAt
<1>6. CASE GetWaits
  BY <1>6 DEF GetWaits, TypeOK, GetAt
<1>7. CASE GetTakes
  BY <1>7 DEF GetTakes, Granted, TypeOK, GetAt
<1>8. CASE SpuriousWakeup
  BY <1>8 DEF SpuriousWakeup, TypeOK, GetAt
<1>9. CASE UNCHANGED vars
  BY <1>9 DEF vars, TypeOK
<1> QED
  BY <1>1, <1>2, <1>3, <1>4, <1>5, <1>6, <1>7, <1>8, <1>9
     DEF Next, Hasher, Consumer, Terminated

\* Every variable keeps its type: new_entry_count_, a size_t, is never taken
\* below zero by the subtraction in Get, and the directory is not overrun.
THEOREM TypeCorrect == Spec => []TypeOK
BY InitType, NextType, PTL DEF Spec
-----------------------------------------------------------------------------
(* The accounting of entries. *)

\* Every entry is accounted for: handed out, counted for the next call, in the
\* batch that is being counted, or in the batch that is not full yet.  This is
\* what makes the three invariants of ExifHasher inductive.
Accounting ==
  /\ Unique => Cardinality(hashes) = Len(entries)
  /\ run \in {"hashing", "aborted"} =>
       taken + new_entry_count + (Cardinality(hashes) % Threshold) = Len(entries)
  /\ run = "counting" =>
       /\ Cardinality(hashes) % Threshold = 0
       /\ taken + new_entry_count + Threshold = Len(entries)
  /\ run = "finished" =>
       taken + new_entry_count = Len(entries) /\ pos = Len(files)
  /\ get = "ended" => run = "finished" /\ taken = Len(entries)
  /\ done <=> run = "finished"
  /\ WaiterIsOwedNotify

\* In the beginning there is nothing to account for.
LEMMA InitAccounting == Init => Accounting
<1> SUFFICES ASSUME Init
             PROVE  Accounting
  OBVIOUS
<1>1. Cardinality(hashes) = 0 /\ Len(entries) = 0
  BY FS_EmptySet DEF Init
<1>2. 0 % Threshold = 0
  BY HasherAssumption, SMTT(20) DEF HasherAssumption
<1> QED
  BY <1>1, <1>2 DEF Init, Accounting, WaiterIsOwedNotify

\* done_ is set in the same step as the hasher thread finishes.
LEMMA NextDone ==
  (done <=> run = "finished") /\ [Next]_vars => (done <=> run = "finished")'
<1> SUFFICES ASSUME done <=> run = "finished", [Next]_vars
             PROVE  (done <=> run = "finished")'
  OBVIOUS
<1>1. CASE SkipFile
  BY <1>1, Zenon DEF SkipFile
<1>2. CASE AppendEntry
  <2>1. run = "hashing" /\ run' \in {"hashing", "counting"} /\ done' = done
    BY <1>2 DEF AppendEntry
  <2> QED
    BY <2>1, Zenon
<1>3. CASE CountBatch
  BY <1>3, Zenon DEF CountBatch
<1>4. CASE Finish
  BY <1>4, Zenon DEF Finish
<1>5. CASE AbortRun
  BY <1>5, Zenon DEF AbortRun
<1>6. CASE GetWaits \/ GetTakes \/ SpuriousWakeup
  BY <1>6, Zenon DEF GetWaits, GetTakes, SpuriousWakeup
<1>7. CASE UNCHANGED vars
  BY <1>7, Zenon DEF vars
<1> QED
  BY <1>1, <1>2, <1>3, <1>4, <1>5, <1>6, <1>7
     DEF Next, Hasher, Consumer, Terminated

\* The parts of Accounting that count, without the flag done_.
Places ==
  /\ Unique => Cardinality(hashes) = Len(entries)
  /\ run \in {"hashing", "aborted"} =>
       taken + new_entry_count + (Cardinality(hashes) % Threshold) = Len(entries)
  /\ run = "counting" =>
       /\ Cardinality(hashes) % Threshold = 0
       /\ taken + new_entry_count + Threshold = Len(entries)
  /\ run = "finished" =>
       taken + new_entry_count = Len(entries) /\ pos = Len(files)
  /\ get = "ended" => run = "finished" /\ taken = Len(entries)
  /\ get = "waiting" => new_entry_count < Request /\ run # "finished"

\* The accounts, part by part.
LEMMA AccountingParts == Accounting <=> Places /\ (done <=> run = "finished")
BY Zenon DEF Accounting, Places, WaiterIsOwedNotify

\* Every step keeps the accounts.
LEMMA NextAccounting ==
  TypeOK /\ Accounting /\ [Next]_vars => Accounting'
<1> SUFFICES ASSUME TypeOK, Accounting, [Next]_vars
             PROVE  Accounting'
  OBVIOUS
<1> USE HasherAssumption DEF HasherAssumption
<1> DEFINE c == Cardinality(hashes)
           n == Len(entries)
           m == c % Threshold
<1>1. c \in Nat /\ n \in Nat
  BY FS_CardinalityType DEF TypeOK
<1>2. m \in 0..(Threshold - 1)
  BY <1>1, DivisionLaw
<1>3. (done <=> run = "finished") /\ (done <=> run = "finished")'
  BY NextDone, AccountingParts
<1>4. Places
  BY AccountingParts
<1>5. ASSUME SkipFile PROVE Places'
  BY <1>5, <1>4 DEF SkipFile, Places
<1>6. ASSUME AppendEntry PROVE Places'
  <2>1. Len(entries') = n + 1
    BY <1>6 DEF AppendEntry, TypeOK
  <2>2. /\ taken + new_entry_count + m = n
        /\ taken \in Nat /\ new_entry_count \in Nat
        /\ taken' = taken /\ new_entry_count' = new_entry_count
    BY <1>6, <1>4 DEF AppendEntry, Places, TypeOK
  <2>3. run' = IF Cardinality(hashes') % Threshold = 0
               THEN "counting" ELSE "hashing"
    BY <1>6 DEF AppendEntry
  <2>4. get' # "ended" /\ (get' = "waiting" => new_entry_count < Request)
    BY <1>6, <1>4 DEF AppendEntry, Places
  <2>5. CASE Unique
    <3>1. Cardinality(hashes') = c + 1
      BY <1>6, <2>5, FS_AddElement DEF AppendEntry, Hashed, TypeOK
    <3>2. Cardinality(hashes') % Threshold
            = IF m = Threshold - 1 THEN 0 ELSE m + 1
      BY <1>1, <3>1, RemainderStep
    <3>3. n = c
      BY <1>4, <2>5 DEF Places
    <3> HIDE DEF c, n, m
    <3>4. CASE m = Threshold - 1
      BY <1>1, <2>1, <2>2, <2>3, <2>4, <3>1, <3>2, <3>3, <3>4 DEF Places
    <3>5. CASE m # Threshold - 1
      <4>1. m + 1 # 0 /\ n + 1 = taken + new_entry_count + (m + 1)
        BY <1>1, <1>2, <2>2
      <4> QED
        BY <1>1, <2>1, <2>2, <2>3, <2>4, <3>1, <3>2, <3>3, <3>5, <4>1
           DEF Places
    <3> QED
      BY <3>4, <3>5
  <2>6. CASE ~Unique
    <3>1. Cardinality(hashes') \in Nat
      BY <1>6, FS_AddElement, FS_CardinalityType DEF AppendEntry, TypeOK
    <3>2. Threshold = 1 /\ Cardinality(hashes') % Threshold = 0 /\ m = 0
      BY <1>2, <2>6, <3>1, DivisionLaw
    <3> HIDE DEF c, n, m
    <3> QED
      BY <1>1, <2>1, <2>6, <2>2, <2>3, <2>4, <3>2 DEF Places
  <2> QED
    BY <2>5, <2>6
<1>7. ASSUME CountBatch PROVE Places'
  BY <1>7, <1>1, <1>4 DEF CountBatch, Notified, TypeOK, GetAt, Places
<1>8. ASSUME Finish PROVE Places'
  <2>1. /\ run = "hashing" /\ run' = "finished" /\ pos' = Len(files)
        /\ new_entry_count' = new_entry_count + m
        /\ UNCHANGED <<files, entries, hashes, taken>>
    BY <1>8 DEF Finish
  <2>2. get' \notin {"waiting", "ended"}
    BY <1>4, <1>8 DEF Finish, Notified, Places
  <2>3. taken + new_entry_count + m = n /\ taken \in Nat /\ new_entry_count \in Nat
    BY <1>4, <2>1 DEF Places, TypeOK
  <2>4. taken + new_entry_count' = n
    BY <1>2, <2>1, <2>3
  <2> QED
    BY <1>4, <2>1, <2>2, <2>4 DEF Places
<1>9. ASSUME AbortRun PROVE Places'
  BY <1>9, <1>4 DEF AbortRun, Places
<1>10. ASSUME GetWaits PROVE Places'
  <2>1. ~(new_entry_count >= Request) /\ run # "finished"
    BY <1>10, <1>3, Zenon DEF GetWaits, Ready
  <2> QED
    BY <1>10, <1>4, <2>1 DEF GetWaits, TypeOK, Places
<1>11. ASSUME GetTakes PROVE Places'
  <2>1. Granted \in 0..new_entry_count
    BY DEF Granted, TypeOK
  <2>2. new_entry_count >= Request \/ run = "finished"
    BY <1>11, <1>3, Zenon DEF GetTakes, Ready
  <2>3. Granted = 0 => run = "finished" /\ new_entry_count = 0
    BY <2>2 DEF Granted, TypeOK
  <2> HIDE DEF c, n, m
  <2>4. taken' + new_entry_count' = taken + new_entry_count
    BY <1>11, <2>1 DEF GetTakes, TypeOK
  <2>5. get' = IF Granted = 0 THEN "ended" ELSE "calling"
    BY <1>11 DEF GetTakes
  <2> QED
    BY <1>11, <1>1, <1>4, <2>1, <2>3, <2>4, <2>5
       DEF GetTakes, TypeOK, Places, c, n
<1>12. ASSUME SpuriousWakeup PROVE Places'
  BY <1>12, <1>4 DEF SpuriousWakeup, Places
<1>13. ASSUME UNCHANGED vars PROVE Places'
  BY <1>13, <1>4 DEF vars, Places
<1>14. Places'
  BY <1>5, <1>6, <1>7, <1>8, <1>9, <1>10, <1>11, <1>12, <1>13
     DEF Next, Hasher, Consumer, Terminated
<1> QED
  BY <1>3, <1>14, Zenon DEF Accounting, Places, WaiterIsOwedNotify

\* At every moment each entry of the list is in exactly one place.
THEOREM EntriesAccounted == Spec => []Accounting
BY TypeCorrect, InitAccounting, NextAccounting, PTL DEF Spec
-----------------------------------------------------------------------------
(* What follows from it. *)

\* The unlocked walk of Get (exif_hasher.cpp:141-143) never leaves the list:
\* what is counted for it, now or for a later call, has been linked.
THEOREM WalkStaysInList == Spec => []CountedAreLinked
<1>1. TypeOK /\ Accounting => CountedAreLinked
  <2> SUFFICES ASSUME TypeOK, Accounting
               PROVE  CountedAreLinked
    OBVIOUS
  <2>1. Cardinality(hashes) % Threshold \in Nat
    BY HasherAssumption, FS_CardinalityType, DivisionLaw
       DEF HasherAssumption, TypeOK
  <2>2. Threshold \in Nat
    BY HasherAssumption DEF HasherAssumption
  <2>3. CASE run \in {"hashing", "aborted"}
    BY <2>1, <2>3 DEF TypeOK, Accounting, CountedAreLinked
  <2>4. CASE run \in {"counting", "finished"}
    BY <2>2, <2>4 DEF TypeOK, Accounting, CountedAreLinked
  <2> QED
    BY <2>3, <2>4 DEF TypeOK, RunAt
<1> QED
  BY <1>1, TypeCorrect, EntriesAccounted, PTL

\* The consumer that is given nothing has been given everything: Sync may take
\* an empty batch for the end of the update (peer.cpp:106).
THEOREM EmptyBatchEndsStream == Spec => []EmptyBatchIsLast
<1>1. Accounting => EmptyBatchIsLast
  BY DEF Accounting, EmptyBatchIsLast
<1> QED
  BY <1>1, EntriesAccounted, PTL

\* No lost wakeup between the two threads: the consumer never sleeps on a
\* batch that is already there, nor after the last notification.
THEOREM NoLostWakeup == Spec => []WaiterIsOwedNotify
<1>1. Accounting => WaiterIsOwedNotify
  BY DEF Accounting
<1> QED
  BY <1>1, EntriesAccounted, PTL
-----------------------------------------------------------------------------
(* The stream: what is in the list, and in which order. *)

\* The entries made so far are the images among the files taken so far, each in
\* the place that its number among the images gives it; hashes_ has the digests
\* of all files taken so far.
Listed ==
  /\ Len(entries) = Cardinality(Images(files, pos))
  /\ \A k \in 1..Len(entries) :
       /\ entries[k] \in Images(files, pos)
       /\ Cardinality(Images(files, entries[k])) = k
  /\ hashes = {f \in Hash : \E j \in 1..pos : files[j] = f}

\* There are finitely many images among the first n files, no more than among
\* the first m if n <= m, and image i is one of those among the first i.
LEMMA ImagesCounted ==
  ASSUME NEW d, NEW n \in Nat
  PROVE  /\ IsFiniteSet(Images(d, n))
         /\ Cardinality(Images(d, n)) \in Nat
         /\ \A m \in Nat : n <= m => Cardinality(Images(d, n)) <= Cardinality(Images(d, m))
<1>1. ASSUME NEW m \in Nat PROVE IsFiniteSet(Images(d, m))
  <2>1. IsFiniteSet(1..m)
    BY FS_Interval
  <2>2. Images(d, m) \subseteq 1..m
    BY DEF Images
  <2> QED
    BY <2>1, <2>2, FS_Subset
<1>2. ASSUME NEW m \in Nat, n <= m
      PROVE  Cardinality(Images(d, n)) <= Cardinality(Images(d, m))
  <2>1. Images(d, n) \subseteq Images(d, m)
    BY <1>2 DEF Images
  <2> QED
    BY <1>1, <2>1, FS_Subset
<1>3. Cardinality(Images(d, n)) \in Nat
  BY <1>1, FS_CardinalityType
<1> QED
  BY <1>1, <1>2, <1>3

\* One more file: one more image, or none.
LEMMA ImagesStep ==
  ASSUME NEW d, NEW n \in Nat
  PROVE  /\ Image(d, n + 1) =>
              /\ Images(d, n + 1) = Images(d, n) \cup {n + 1}
              /\ Cardinality(Images(d, n + 1)) = Cardinality(Images(d, n)) + 1
         /\ ~Image(d, n + 1) => Images(d, n + 1) = Images(d, n)
<1>1. Image(d, n + 1) => Images(d, n + 1) = Images(d, n) \cup {n + 1}
  BY DEF Images
<1>2. ~Image(d, n + 1) => Images(d, n + 1) = Images(d, n)
  <2> SUFFICES ASSUME ~Image(d, n + 1)
               PROVE  Images(d, n + 1) = Images(d, n)
    OBVIOUS
  <2>1. \A i \in 1..(n + 1) : i \in 1..n \/ i = n + 1
    OBVIOUS
  <2>2. \A i \in 1..n : i \in 1..(n + 1)
    OBVIOUS
  <2> QED
    BY <2>1, <2>2, Zenon DEF Images
<1>3. n + 1 \notin Images(d, n)
  BY DEF Images
<1> QED
  BY <1>1, <1>2, <1>3, ImagesCounted, FS_AddElement

\* No two images have the same number.
LEMMA NumberedOnce ==
  ASSUME NEW d, NEW i \in Nat \ {0}, NEW j \in Nat \ {0}, Image(d, i), Image(d, j),
         Cardinality(Images(d, i)) = Cardinality(Images(d, j))
  PROVE  i = j
<1>1. ASSUME NEW a \in Nat \ {0}, NEW b \in Nat \ {0}, Image(d, b), a < b
      PROVE  Cardinality(Images(d, a)) < Cardinality(Images(d, b))
  <2>1. PICK c \in Nat : b = c + 1 /\ a <= c
    BY <1>1, b - 1 \in Nat
  <2>2. Cardinality(Images(d, a)) <= Cardinality(Images(d, c))
    BY <2>1, ImagesCounted
  <2>3. Cardinality(Images(d, b)) = Cardinality(Images(d, c)) + 1
    BY <1>1, <2>1, ImagesStep
  <2>4. Cardinality(Images(d, a)) \in Nat /\ Cardinality(Images(d, c)) \in Nat
    BY <2>1, ImagesCounted
  <2> QED
    BY <2>2, <2>3, <2>4
<1>2. ~(i < j)
  <2>1. SUFFICES ASSUME i < j PROVE FALSE
    OBVIOUS
  <2>2. Cardinality(Images(d, i)) < Cardinality(Images(d, j))
    BY <1>1, <2>1
  <2> QED
    BY <2>2, ImagesCounted
<1>3. ~(j < i)
  <2>1. SUFFICES ASSUME j < i PROVE FALSE
    OBVIOUS
  <2>2. Cardinality(Images(d, j)) < Cardinality(Images(d, i))
    BY <1>1, <2>1
  <2> QED
    BY <2>2, ImagesCounted
<1> QED
  BY <1>2, <1>3

\* Before the first file the list is empty.
LEMMA InitListed == Init => Listed
<1> SUFFICES ASSUME Init
             PROVE  Listed
  OBVIOUS
<1>1. Images(files, 0) = {}
  BY DEF Images
<1>2. Cardinality(Images(files, pos)) = 0 /\ Len(entries) = 0
  BY <1>1, FS_EmptySet DEF Init
<1>3. hashes = {f \in Hash : \E j \in 1..pos : files[j] = f}
  BY DEF Init
<1> QED
  BY <1>2, <1>3 DEF Listed

\* The test of the hasher thread, by hashes_, finds the images of the directory.
LEMMA HashedIsImage ==
  ASSUME TypeOK, Listed, pos < Len(files)
  PROVE  Hashed(files[pos + 1]) <=> Image(files, pos + 1)
<1>1. pos \in Nat /\ (pos + 1) - 1 = pos
  BY DEF TypeOK
<1>2. ASSUME files[pos + 1] \in Hash
      PROVE  files[pos + 1] \in hashes <=> \E j \in 1..pos : files[j] = files[pos + 1]
  BY <1>2 DEF Listed
<1> QED
  BY <1>1, <1>2, Zenon DEF Hashed, Image

\* Every step keeps the list as it should be.
LEMMA NextListed == TypeOK /\ Listed /\ [Next]_vars => Listed'
<1> SUFFICES ASSUME TypeOK, Listed, [Next]_vars
             PROVE  Listed'
  OBVIOUS
<1>1. pos \in Nat /\ Len(entries) \in Nat /\ entries \in Seq(Nat \ {0})
  BY DEF TypeOK
<1>2. ASSUME pos < Len(files), pos' = pos + 1
      PROVE  \A f : (\E j \in 1..pos' : files[j] = f)
                     <=> f = files[pos + 1] \/ \E j \in 1..pos : files[j] = f
  <2>1. \A j : j \in 1..pos' <=> j \in 1..pos \/ j = pos + 1
    BY <1>1, <1>2
  <2> QED
    BY <2>1, Zenon
<1>3. CASE SkipFile
  <2>1. /\ pos < Len(files) /\ pos' = pos + 1 /\ ~Hashed(files[pos + 1])
        /\ files' = files /\ entries' = entries /\ hashes' = hashes
    BY <1>3 DEF SkipFile
  <2>2. Images(files, pos') = Images(files, pos)
    BY <1>1, <2>1, HashedIsImage, ImagesStep
  <2>3. files[pos + 1] \in Hash => files[pos + 1] \in hashes
    BY <2>1 DEF Hashed
  <2>4. hashes = {f \in Hash : \E j \in 1..pos' : files[j] = f}
    BY <1>2, <2>1, <2>3, Zenon DEF Listed
  <2> QED
    BY <2>1, <2>2, <2>4 DEF Listed
<1>4. CASE AppendEntry
  <2>1. /\ pos < Len(files) /\ pos' = pos + 1 /\ Hashed(files[pos + 1])
        /\ files' = files /\ entries' = Append(entries, pos + 1)
        /\ hashes' = hashes \cup {files[pos + 1]}
    BY <1>4 DEF AppendEntry
  <2>2. /\ Images(files, pos') = Images(files, pos) \cup {pos + 1}
        /\ Cardinality(Images(files, pos')) = Cardinality(Images(files, pos)) + 1
    BY <1>1, <2>1, HashedIsImage, ImagesStep
  <2>3. /\ Len(entries') = Len(entries) + 1
        /\ \A k \in 1..Len(entries) : entries'[k] = entries[k]
        /\ entries'[Len(entries) + 1] = pos + 1
    BY <1>1, <2>1
  <2>4. hashes' = {f \in Hash : \E j \in 1..pos' : files[j] = f}
    <3>1. files[pos + 1] \in Hash
      BY <2>1 DEF Hashed
    <3> QED
      BY <1>2, <2>1, <3>1, Zenon DEF Listed
  <2>5. ASSUME NEW k \in 1..(Len(entries) + 1)
        PROVE  /\ entries'[k] \in Images(files, pos')
               /\ Cardinality(Images(files, entries'[k])) = k
    <3>1. CASE k = Len(entries) + 1
      BY <2>1, <2>2, <2>3, <3>1 DEF Listed
    <3>2. CASE k # Len(entries) + 1
      <4>1. k \in 1..Len(entries)
        BY <1>1, <3>2
      <4> QED
        BY <2>2, <2>3, <4>1 DEF Listed
    <3> QED
      BY <3>1, <3>2
  <2>6. Len(entries') = Cardinality(Images(files, pos'))
    BY <2>2, <2>3 DEF Listed
  <2> QED
    BY <2>1, <2>3, <2>4, <2>5, <2>6 DEF Listed
<1>5. CASE CountBatch \/ Finish \/ AbortRun \/ GetWaits \/ GetTakes \/ SpuriousWakeup
           \/ UNCHANGED vars
  <2>1. UNCHANGED <<files, pos, entries, hashes>>
    BY <1>5 DEF CountBatch, Finish, AbortRun, GetWaits, GetTakes, SpuriousWakeup, vars
  <2> QED
    BY <2>1 DEF Listed
<1> QED
  BY <1>3, <1>4, <1>5 DEF Next, Hasher, Consumer, Terminated

\* The list is a beginning of the listing, and all of it at the end.
LEMMA ListBeginsListing ==
  ASSUME TypeOK, Listed
  PROVE  /\ Len(Listing(files)) \in Nat /\ Len(entries) <= Len(Listing(files))
         /\ pos = Len(files) => Len(entries) = Len(Listing(files))
         /\ DOMAIN Listing(files) = 1..Len(Listing(files))
         /\ \A k \in 1..Len(entries) : Listing(files)[k] = entries[k]
<1>1. pos \in Nat /\ Len(files) \in Nat /\ pos <= Len(files) /\ DOMAIN files = 1..Len(files)
  BY DEF TypeOK
<1> DEFINE N == Cardinality(Images(files, Len(files)))
<1>2. N \in Nat /\ Len(entries) <= N /\ (pos = Len(files) => Len(entries) = N)
  BY <1>1, ImagesCounted DEF Listed
<1>3. DOMAIN Listing(files) = 1..N /\ Len(Listing(files)) = N
  <2>1. /\ Listing(files) = [k \in 1..N |-> Listing(files)[k]]
        /\ DOMAIN Listing(files) = 1..N
    BY DEF Listing
  <2> HIDE DEF N
  <2> QED
    BY <1>2, <2>1
<1>4. ASSUME NEW k \in 1..Len(entries)
      PROVE  Listing(files)[k] = entries[k]
  <2>1. /\ entries[k] \in Images(files, pos)
        /\ Cardinality(Images(files, entries[k])) = k
    BY DEF Listed
  <2>2. /\ entries[k] \in DOMAIN files /\ Image(files, entries[k])
        /\ entries[k] \in Nat \ {0}
    BY <1>1, <2>1 DEF Images
  <2>3. k \in 1..N
    BY <1>2 DEF TypeOK
  <2>4. Listing(files)[k]
          = CHOOSE i \in DOMAIN files : Image(files, i) /\ Cardinality(Images(files, i)) = k
    BY <2>3 DEF Listing
  <2>5. /\ Listing(files)[k] \in DOMAIN files /\ Image(files, Listing(files)[k])
        /\ Cardinality(Images(files, Listing(files)[k])) = k
    BY <2>1, <2>2, <2>4, Zenon
  <2>6. Listing(files)[k] \in Nat \ {0}
    BY <1>1, <2>5
  <2> QED
    BY <2>1, <2>2, <2>5, <2>6, NumberedOnce
<1> QED
  BY <1>2, <1>3, <1>4
-----------------------------------------------------------------------------
(* The refinement. *)

\* What has been handed out, after t entries, is a beginning of the listing.
LEMMA HandedOut ==
  ASSUME TypeOK, Listed, NEW t \in 0..Len(entries)
  PROVE  /\ SubSeq(entries, 1, t) = SubSeq(Listing(files), 1, t)
         /\ Len(SubSeq(entries, 1, t)) = t
<1> DEFINE e == entries
           l == Listing(files)
<1>1. /\ e \in Seq(Nat \ {0}) /\ Len(e) \in Nat /\ t \in 0..Len(e)
      /\ \A k \in 1..t : l[k] = e[k]
  <2>1. e \in Seq(Nat \ {0}) /\ Len(e) \in Nat
    BY DEF TypeOK
  <2>2. \A k \in 1..t : k \in 1..Len(e)
    BY <2>1
  <2> QED
    BY <2>1, <2>2, ListBeginsListing
<1> HIDE DEF e, l
<1>2. SubSeq(e, 1, t) = [k \in 1..t |-> e[k]] /\ SubSeq(l, 1, t) = [k \in 1..t |-> l[k]]
  BY <1>1
<1>3. SubSeq(e, 1, t) = SubSeq(l, 1, t)
  BY <1>1, <1>2
<1>4. Len(SubSeq(e, 1, t)) = t
  BY <1>1, <1>2
<1> QED
  BY <1>3, <1>4 DEF e, l

\* What the hasher thread does, the stream does not see, unless it aborts.
LEMMA HasherStutters ==
  ASSUME TypeOK, Accounting, CountedAreLinked, Hasher
  PROVE  Stream!Abort \/ UNCHANGED Stream!vars
<1>1. get # "ended" /\ run # "aborted"
  BY DEF Accounting, Hasher, SkipFile, AppendEntry, CountBatch, Finish, AbortRun
<1>2. UNCHANGED <<files, taken>> /\ (get' = get \/ get' = "calling")
  BY DEF Hasher, SkipFile, AppendEntry, CountBatch, Finish, AbortRun, Notified
<1>3. SubSeq(entries, 1, taken)' = SubSeq(entries, 1, taken)
  <2>1. CASE entries' = entries
    BY <1>2, <2>1
  <2>2. CASE AppendEntry
    <3> DEFINE e == entries
    <3>1. e \in Seq(Nat \ {0}) /\ taken \in 0..Len(e) /\ pos + 1 \in Nat \ {0}
      BY DEF TypeOK, CountedAreLinked
    <3>2. entries' = Append(e, pos + 1) /\ taken' = taken
      BY <2>2 DEF AppendEntry
    <3> HIDE DEF e
    <3>3. SubSeq(Append(e, pos + 1), 1, taken) = SubSeq(e, 1, taken)
      BY <3>1
    <3> QED
      BY <3>2, <3>3 DEF e
  <2> QED
    BY <2>1, <2>2 DEF Hasher, SkipFile, CountBatch, Finish, AbortRun
<1>4. CASE AbortRun
  <2>1. run' = "aborted"
    BY <1>4 DEF AbortRun
  <2> QED
    BY <1>1, <1>2, <1>3, <2>1 DEF Stream!Abort
<1>5. CASE run' # "aborted"
  <2>1. get' # "ended"
    BY <1>1, <1>2
  <2> QED
    BY <1>1, <1>2, <1>3, <1>5, <2>1 DEF Stream!vars
<1> QED
  BY <1>1, <1>4, <1>5 DEF Hasher, SkipFile, AppendEntry, CountBatch, Finish

\* A call of Get that need not wait is one of the stream.
LEMMA TakesDelivers ==
  ASSUME TypeOK, Accounting, CountedAreLinked, Listed, GetTakes
  PROVE  Stream!Deliver
<1> USE HasherAssumption DEF HasherAssumption
<1> DEFINE L == Len(Listing(files))
           E == Len(entries)
           n == IF L - taken < Request THEN L - taken ELSE Request
<1>1. /\ run # "aborted" /\ get = "calling" /\ run' = run
      /\ taken' = taken + Granted /\ files' = files /\ entries' = entries
      /\ get' = IF Granted = 0 THEN "ended" ELSE "calling"
      /\ new_entry_count >= Request \/ done
  BY DEF GetTakes, Ready
<1>2. /\ taken \in Nat /\ new_entry_count \in Nat /\ E \in Nat /\ L \in Nat
      /\ taken + new_entry_count <= E /\ E <= L
      /\ done => taken + new_entry_count = L
  <2>1. done => run = "finished"
    BY Zenon DEF Accounting
  <2>2. run = "finished" => taken + new_entry_count = E /\ pos = Len(files)
    BY DEF Accounting
  <2>3. L \in Nat /\ E <= L /\ (pos = Len(files) => E = L)
    BY ListBeginsListing
  <2>4. taken \in Nat /\ new_entry_count \in Nat /\ E \in Nat /\ taken + new_entry_count <= E
    BY DEF TypeOK, CountedAreLinked
  <2>5. done => taken + new_entry_count = L
    BY <2>1, <2>2, <2>3
  <2> QED
    BY <2>3, <2>4, <2>5
<1> HIDE DEF L, E
<1>3. Granted = n /\ Granted \in Nat /\ taken + Granted \in 0..E /\ taken \in 0..E
  BY <1>1, <1>2 DEF Granted
<1>4. /\ Len(SubSeq(entries, 1, taken)) = taken
      /\ SubSeq(entries, 1, taken + n) = SubSeq(Listing(files), 1, taken + n)
  BY <1>3, HandedOut DEF E
<1>5. Stream!Left = L - taken
  BY <1>4 DEF Stream!Left, L
<1>6. SubSeq(entries, 1, taken)' = SubSeq(Listing(files), 1, taken + n)
  BY <1>1, <1>3, <1>4
<1> HIDE DEF HasherAssumption
<1> QED
  BY <1>1, <1>3, <1>4, <1>5, <1>6 DEF Stream!Deliver

\* The hasher implements the abstract stream, for every directory, threshold
\* and request: the images come out of Get once each, in the order of the
\* directory, in full batches up to the end (exif_hasher.cpp:128-145).
THEOREM HasherStreams == Spec => ImplementsStream
<1>1. Init => Stream!Init
  <2> SUFFICES ASSUME Init PROVE Stream!Init
    OBVIOUS
  <2>1. SubSeq(entries, 1, taken) = <<>>
    BY DEF Init
  <2> QED
    BY <2>1 DEF Init, Stream!Init
<1>2. TypeOK /\ Accounting /\ CountedAreLinked /\ Listed /\ [Next]_vars
        => [Stream!Next]_(Stream!vars)
  <2> SUFFICES ASSUME TypeOK, Accounting, CountedAreLinked, Listed, [Next]_vars
               PROVE  Stream!Next \/ UNCHANGED Stream!vars
    OBVIOUS
  <2>1. CASE Hasher
    BY <2>1, HasherStutters DEF Stream!Next
  <2>2. CASE GetTakes
    BY <2>2, TakesDelivers DEF Stream!Next
  <2>3. CASE GetWaits \/ SpuriousWakeup
    <3>1. /\ UNCHANGED <<files, entries, taken, run>>
          /\ get # "ended" /\ get' # "ended"
      BY <2>3 DEF GetWaits, SpuriousWakeup
    <3> QED
      BY <3>1 DEF Stream!vars
  <2>4. CASE UNCHANGED vars
    BY <2>4 DEF vars, Stream!vars
  <2> QED
    BY <2>1, <2>2, <2>3, <2>4 DEF Next, Consumer, Terminated
<1>3. Spec => []Listed
  BY TypeCorrect, InitListed, NextListed, PTL DEF Spec
<1> QED
  BY <1>1, <1>2, <1>3, TypeCorrect, EntriesAccounted, WalkStaysInList, PTL
     DEF Spec, ImplementsStream, Stream!Safety
=============================================================================
