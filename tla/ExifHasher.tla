----------------------------- MODULE ExifHasher -----------------------------
(***************************************************************************)
(* The background hasher (src/src/exif_hasher.cpp).  Run starts a detached *)
(* thread that hashes one file after the other and appends an entry to a   *)
(* linked list; one other thread calls Get, which waits on a condition     *)
(* variable until a batch of new entries has been counted, and walks the   *)
(* list.  The list itself is not locked: only the count new_entry_count_   *)
(* and the flag done_ are.  An entry is represented by the position of its *)
(* file in the directory.                                                  *)
(***************************************************************************)
EXTENDS Naturals, Sequences, FiniteSets

CONSTANTS
  Hash,              \* the digests of EXIF data that occur
  NoExif,            \* a file HashExif answers false for
  Unreadable,        \* a file HashExif throws on: open, mmap or readMetadata
  Directories,       \* what the path generator may yield: sequences of these
  Threshold,         \* progress_threshold, the first argument of Run
  Unique,            \* the last argument of Run
  Request            \* the batch size passed to Get

File == Hash \cup {NoExif, Unreadable}

\* The callers: Run(26 or 27, gen) with Get(26 or 27) in peer.cpp, Run(1, gen)
\* in jpgln.cpp, Run(1, gen, false) in jpghash.cpp and Get(2) after Run(1, gen)
\* in exif_hasher_test.cpp.  No caller keeps duplicates with a threshold above 1.
ASSUME HasherAssumption ==
  /\ NoExif \notin Hash
  /\ Unreadable \notin Hash \cup {NoExif}
  /\ Directories \subseteq Seq(File)
  /\ Threshold \in Nat \ {0}
  /\ Request \in Nat \ {0}
  /\ Unique \in BOOLEAN
  /\ ~Unique => Threshold = 1

VARIABLES
  files,             \* the files of the directory, in the order of Dir::Next
  pos,               \* how many of them the hasher thread has taken
  entries,           \* the linked list behind dummy_entry_, up to tail_
  hashes,            \* hashes_
  new_entry_count,   \* new_entry_count_
  done,              \* done_
  taken,             \* how far into the list new_entry_ points
  run,               \* the hasher thread: where it is
  get                \* the consumer thread: where it is

vars == <<files, pos, entries, hashes, new_entry_count, done, taken, run, get>>

RunAt == {"hashing", "counting", "finished", "aborted"}
GetAt == {"calling", "waiting", "ended"}

\* notify_one on new_entries_: the consumer, if it waits, evaluates again.
Notified == IF get = "waiting" THEN "calling" ELSE get

Init ==
  /\ files \in Directories
  /\ pos = 0
  /\ entries = <<>>
  /\ hashes = {}
  /\ new_entry_count = 0
  /\ done = FALSE
  /\ taken = 0
  /\ run = "hashing"
  /\ get = "calling"
-----------------------------------------------------------------------------
(* The hasher thread. *)

\* Mutant: duplicates become entries too.
HashedAlways(f) == f \in Hash

\* The next file is turned into an entry: hashed, and new if Unique.
Hashed(f) == f \in Hash /\ ~(Unique /\ f \in hashes)

\* A file without EXIF data, or (if Unique) with a digest seen before.
SkipFile ==
  /\ run = "hashing"
  /\ pos < Len(files)
  /\ files[pos + 1] # Unreadable
  /\ ~Hashed(files[pos + 1])
  /\ pos' = pos + 1
  /\ UNCHANGED <<files, entries, hashes, new_entry_count, done, taken, run, get>>

\* The entry goes behind tail_, before anything says that it is there.
AppendEntry ==
  /\ run = "hashing"
  /\ pos < Len(files)
  /\ Hashed(files[pos + 1])
  /\ pos' = pos + 1
  /\ entries' = Append(entries, pos + 1)
  /\ hashes' = hashes \cup {files[pos + 1]}
  /\ run' = IF (Cardinality(hashes') % Threshold) = 0 THEN "counting" ELSE run
  /\ UNCHANGED <<files, new_entry_count, done, taken, get>>

\* Under mutex_: another Threshold entries are there.
CountBatch ==
  /\ run = "counting"
  /\ new_entry_count' = new_entry_count + Threshold
  /\ get' = Notified
  /\ run' = "hashing"
  /\ UNCHANGED <<files, pos, entries, hashes, done, taken>>

\* Mutant: the whole last batch is counted, full or not.
FinishFull ==
  /\ run = "hashing"
  /\ pos = Len(files)
  /\ new_entry_count' = new_entry_count + Threshold
  /\ done' = TRUE
  /\ get' = Notified
  /\ run' = "finished"
  /\ UNCHANGED <<files, pos, entries, hashes, taken>>

\* Mutant: the last file of the directory is left out.
FinishEarly ==
  /\ run = "hashing"
  /\ pos + 1 >= Len(files)
  /\ new_entry_count' = new_entry_count + (Cardinality(hashes) % Threshold)
  /\ done' = TRUE
  /\ get' = Notified
  /\ run' = "finished"
  /\ UNCHANGED <<files, pos, entries, hashes, taken>>

\* Mutant: the end is marked without a notification.
FinishQuietly ==
  /\ run = "hashing"
  /\ pos = Len(files)
  /\ new_entry_count' = new_entry_count + (Cardinality(hashes) % Threshold)
  /\ done' = TRUE
  /\ run' = "finished"
  /\ UNCHANGED <<files, pos, entries, hashes, taken, get>>

\* Under mutex_: the rest is counted and the end is marked.
Finish ==
  /\ run = "hashing"
  /\ pos = Len(files)
  /\ new_entry_count' = new_entry_count + (Cardinality(hashes) % Threshold)
  /\ done' = TRUE
  /\ get' = Notified
  /\ run' = "finished"
  /\ UNCHANGED <<files, pos, entries, hashes, taken>>

\* An exception leaves the detached thread: std::terminate.  (A file that cannot
\* be mapped is not noticed, as MAP_FAILED is not NULL, and read all the same:
\* SIGSEGV, the same end; an empty one has no EXIF data.)
AbortRun ==
  /\ run = "hashing"
  /\ pos < Len(files)
  /\ files[pos + 1] = Unreadable
  /\ run' = "aborted"
  /\ UNCHANGED <<files, pos, entries, hashes, new_entry_count, done, taken, get>>
-----------------------------------------------------------------------------
(* The consumer: it calls Get(Request) until it is given nothing. *)

Ready == new_entry_count >= Request \/ done

\* Mutant: a full batch is handed out even at the end.
GrantedFull == Request

\* What a call that need not wait hands out.
Granted == IF new_entry_count < Request THEN new_entry_count ELSE Request

GetWaits ==
  /\ run # "aborted"
  /\ get = "calling"
  /\ ~Ready
  /\ get' = "waiting"
  /\ UNCHANGED <<files, pos, entries, hashes, new_entry_count, done, taken, run>>

\* Under mutex_ the batch is claimed; then new_entry_ moves over it.
GetTakes ==
  /\ run # "aborted"
  /\ get = "calling"
  /\ Ready
  /\ new_entry_count' = new_entry_count - Granted
  /\ taken' = taken + Granted
  /\ get' = IF Granted = 0 THEN "ended" ELSE "calling"
  /\ UNCHANGED <<files, pos, entries, hashes, done, run>>

\* A condition variable may wake its waiter without a notification.
SpuriousWakeup ==
  /\ run # "aborted"
  /\ get = "waiting"
  /\ get' = "calling"
  /\ UNCHANGED <<files, pos, entries, hashes, new_entry_count, done, taken, run>>

\* Everything has been handed out, or the process is gone.
Terminated ==
  /\ run = "aborted" \/ get = "ended"
  /\ UNCHANGED vars

Hasher == SkipFile \/ AppendEntry \/ CountBatch \/ Finish \/ AbortRun
Consumer == GetWaits \/ GetTakes

Next == Hasher \/ Consumer \/ SpuriousWakeup \/ Terminated

\* Each thread keeps being scheduled; nothing makes a spurious wakeup happen.
Spec == Init /\ [][Next]_vars /\ WF_vars(Hasher) /\ WF_vars(Consumer)
-----------------------------------------------------------------------------
TypeOK ==
  /\ files \in Seq(File)
  /\ pos \in 0..Len(files)
  /\ entries \in Seq(Nat \ {0})
  /\ hashes \in SUBSET Hash /\ IsFiniteSet(hashes)
  /\ new_entry_count \in Nat
  /\ done \in BOOLEAN
  /\ taken \in Nat
  /\ run \in RunAt
  /\ get \in GetAt

\* Get walks the list without a lock and without testing next for NULL
\* (exif_hasher.cpp:141-143): whatever is counted must already be linked, so
\* that no call, now or later, runs off the end of the list.
CountedAreLinked == taken + new_entry_count <= Len(entries)

\* A consumer that stops because it was given nothing has been given every
\* entry: the empty batch (peer.cpp:106) never comes early, between batches.
EmptyBatchIsLast ==
  get = "ended" => taken = Len(entries) /\ pos = Len(files)

\* A consumer asleep on new_entries_ is owed a notification: the batch it
\* waits for has not been counted, and the hasher thread is still going to.
WaiterIsOwedNotify ==
  get = "waiting" => new_entry_count < Request /\ run # "finished"
-----------------------------------------------------------------------------
(* What the hasher promises, as a stream. *)

\* File i of directory d is an image: it becomes an entry when it is reached.
Image(d, i) ==
  /\ d[i] \in Hash
  /\ Unique => \A j \in 1..(i - 1) : d[j] # d[i]

\* The images among the first n files of directory d.
Images(d, n) == {i \in 1..n : Image(d, i)}

\* All images of directory d, in the order of the directory: in place k is the
\* one up to which, itself included, there are k.
Listing(d) ==
  [k \in 1..Cardinality(Images(d, Len(d))) |->
     CHOOSE i \in DOMAIN d : Image(d, i) /\ Cardinality(Images(d, i)) = k]

Stream == INSTANCE BatchStream WITH
  images <- Listing(files),
  delivered <- SubSeq(entries, 1, taken),
  outcome <- IF run = "aborted" THEN "aborted"
             ELSE IF get = "ended" THEN "ended" ELSE "open"

\* The hasher and its consumer implement the abstract stream: every image of
\* the directory comes out of Get once, in order, in full batches up to the end
\* (exif_hasher.cpp:128-145).
ImplementsStream == Stream!Safety

\* And it keeps flowing: unless the process aborts, the consumer is handed
\* batch after batch and is told that the stream ends (the notifications of
\* exif_hasher.cpp:110, 122).
StreamFlows == Stream!Flow
=============================================================================
