------------------------------ MODULE PeerSync ------------------------------
(***************************************************************************)
(* Peer::Sync (src/src/peer.cpp:59-446) in two processes at once.  Each    *)
(* peer runs a downloader thread, which also publishes what the local      *)
(* hasher finds, an uploader thread, and a detached thread that receives   *)
(* the update of the other side.  Per direction there is one sync          *)
(* connection, from an uploader to the downloader of the other peer, and   *)
(* both share one update connection, which is TCP if Reliable and          *)
(* otherwise DCCP.                                                         *)
(*                                                                         *)
(* An image is named by its hash.  What the hasher yields to Sync is that  *)
(* of BatchStream: the images of entries[p], in batches of UpdateMax and a *)
(* shorter last one.  An offer, and a file with its name, size and bytes,  *)
(* is one token of a stream: FileTransfer tells how it crosses.  A process *)
(* that meets Fatal, or an exception no thread catches, aborts as a whole. *)
(***************************************************************************)
EXTENDS SequencesExt, FoundMask

CONSTANTS
  Peers,             \* the master and the slave
  Hash,              \* the digests of images
  Libraries,         \* what the two may hold: functions from Peers to sequences
  NameLength,        \* how long the file name of an image is, in bytes
  UpdateMax,         \* UpdateProtocol::hashes_per_packet
  OfferMax,          \* SyncProtocol::hashes_per_packet
  Reliable,          \* whether RELIABLE_UPDATE was defined
  MaxCrashes         \* bound: how many processes are killed from outside

ASSUME PeerSyncAssumption ==
  /\ IsFiniteSet(Peers) /\ Cardinality(Peers) = 2
  /\ Libraries \subseteq [Peers -> Seq(Hash)]
  /\ \A library \in Libraries : \A p \in Peers : IsInjective(library[p])
  /\ NameLength \in [Hash -> Nat \ {0}]
  /\ UpdateMax \in Nat \ {0} /\ OfferMax \in Nat \ {0}
  /\ Reliable \in BOOLEAN
  /\ MaxCrashes \in Nat

VARIABLES
  entries,           \* the entries the hasher of a peer finds, in order
  downloader,        \* a thread: at, hasher_entry_count, missing_hashes (how
                     \* many files, or first their hashes, are still to come),
                     \* store (the images stored until it goes astray, in order)
  uploader,          \* a thread: at, total_entry_count, processed_entry_count,
                     \* missing_entries, uploads (its positions that are still
                     \* to be sent), offers (history: every offer it has made)
  receiver,          \* a thread: at, received_hashes
  updates,           \* sent by a peer, not yet received by the other one
  stream,            \* from the uploader of a peer to the other downloader
  acks,              \* and back to that uploader, byte by byte
  status,            \* of the process: "running", "exited" or "aborted"
  crashes            \* how often MaxCrashes has been drawn on

threads == <<downloader, uploader, receiver>>
net == <<updates, stream, acks>>
process == <<entries, status, crashes>>
vars == <<threads, net, process>>

DownAt == {"get", "notify", "last", "byte", "offers", "files", "astray", "done"}
UpAt == {"byte", "load", "check", "wait", "scan", "mask", "files", "done"}

Other(p) == CHOOSE q \in Peers : q # p

Running(p) == status[p] = "running"
Downloads(p, place) == Running(p) /\ downloader[p].at = place
Uploads(p, place) == Running(p) /\ uploader[p].at = place
Receives(p) == Running(p) /\ receiver[p].at = "reading"

\* The tokens of a stream.
OfferOf(hashes) == [kind |-> "offer", hashes |-> hashes]
FileOf(image) == [kind |-> "file", image |-> image]

Kind(tokens, k) == tokens # <<>> /\ Head(tokens).kind = k

\* Its thread, or the end of its process, closes the connection of an uploader.
EndOfStream(p) == stream[p] = <<>> /\ (uploader[p].at = "done" \/ ~Running(p))

\* Fatal, or an exception that leaves a thread: the whole process is gone.
Abort(p) ==
  /\ status' = [status EXCEPT ![p] = "aborted"]
  /\ UNCHANGED <<entries, threads, net, crashes>>

Init ==
  /\ entries \in Libraries
  /\ downloader = [p \in Peers |->
       [at |-> "get", hasher_entry_count |-> 0, missing_hashes |-> 0, store |-> <<>>]]
  /\ uploader = [p \in Peers |->
       [at |-> "byte", total_entry_count |-> 0, processed_entry_count |-> 0,
        missing_entries |-> <<>>, uploads |-> {}, offers |-> <<>>]]
  /\ receiver = [p \in Peers |-> [at |-> "reading", received_hashes |-> {}]]
  /\ updates = [p \in Peers |-> <<>>]
  /\ stream = [p \in Peers |-> <<>>]
  /\ acks = [p \in Peers |-> <<>>]
  /\ status = [p \in Peers |-> "running"]
  /\ crashes = 0
-----------------------------------------------------------------------------
(* The downloader thread of p, up to the end of the update. *)

\* The flag of that name: the downloader clears it with the end of the update.
Hashing(p) == downloader[p].at \in {"get", "notify", "last"}

\* notify_one on hasher_progress: the uploader, if it waits, looks again.
NotifyProgress(p) ==
  uploader' = IF uploader[p].at = "wait"
              THEN [uploader EXCEPT ![p].at = "load"] ELSE uploader

Unhashed(p) == Len(entries[p]) - downloader[p].hasher_entry_count

\* Mutant: as many as were asked for.
FullBatchSize(p) == UpdateMax

\* As many as Get makes of the hash_count it is given.
BatchSize(p) == IF Unhashed(p) < UpdateMax THEN Unhashed(p) ELSE UpdateMax

\* Get hands out the next batch, and the uploader can see its count.
GetBatch(p) ==
  /\ Downloads(p, "get")
  /\ Unhashed(p) > 0
  /\ downloader' = [downloader EXCEPT ![p].at = "notify",
                                      ![p].hasher_entry_count = @ + BatchSize(p)]
  /\ UNCHANGED <<uploader, receiver, net, process>>

\* The batch handed out last.
Batch(p) ==
  LET last == downloader[p].hasher_entry_count
  IN  SubSeq(entries[p], UpdateMax * ((last - 1) \div UpdateMax) + 1, last)

\* The uploader is notified, without the mutex, and the update is sent.
SendUpdate(p) ==
  /\ Downloads(p, "notify")
  /\ NotifyProgress(p)
  /\ updates' = [updates EXCEPT ![p] = Append(@, Batch(p))]
  /\ downloader' = [downloader EXCEPT ![p].at = "get"]
  /\ UNCHANGED <<receiver, stream, acks, process>>

\* Get hands out nothing.
GetNothing(p) ==
  /\ Downloads(p, "get")
  /\ Unhashed(p) = 0
  /\ downloader' = [downloader EXCEPT ![p].at = "last"]
  /\ UNCHANGED <<uploader, receiver, net, process>>

\* Mutant: the uploader is not notified of the end.
HashingDoneQuietly(p) ==
  /\ Downloads(p, "last")
  /\ downloader' = [downloader EXCEPT ![p].at = "byte"]
  /\ UNCHANGED <<uploader, receiver, net, process>>

\* Under hasher_progress_mutex.
HashingDone(p) ==
  /\ Downloads(p, "last")
  /\ downloader' = [downloader EXCEPT ![p].at = "byte"]
  /\ NotifyProgress(p)
  /\ UNCHANGED <<receiver, net, process>>

\* "notify the receiver that all hashes have been sent", by a byte of any value.
SendByte(p) ==
  /\ Downloads(p, "byte")
  /\ \E byte \in Byte : acks' = [acks EXCEPT ![Other(p)] = Append(@, byte)]
  /\ downloader' = [downloader EXCEPT ![p].at = "offers"]
  /\ UNCHANGED <<uploader, receiver, updates, stream, process>>
-----------------------------------------------------------------------------
(* The downloader thread of p, reading what the other peer uploads. *)

\* What p reads next.
Incoming(p) == stream[Other(p)]
Read(p) == stream' = [stream EXCEPT ![Other(p)] = Tail(@)]

\* The positions of an offer whose hash the hasher of p has found.
Held(p, hashes) ==
  {k \in Positions(Len(hashes)) : hashes[k + 1] \in ToSet(entries[p])}

\* The loop over the missing hashes reads a file for each.
Expecting(p, count) ==
  downloader' = [downloader EXCEPT ![p].missing_hashes = count,
                                   ![p].at = IF count = 0 THEN "offers" ELSE "files"]

\* An offer is answered by its mask, and the rest of it is expected.
ReceiveOffer(p) ==
  LET n == Len(Head(Incoming(p)).hashes)
      held == Held(p, Head(Incoming(p)).hashes)
  IN
  /\ Downloads(p, "offers")
  /\ Kind(Incoming(p), "offer")
  /\ Read(p)
  /\ acks' = [acks EXCEPT ![Other(p)] = @ \o MaskBytes(n, Mask(held))]
  /\ Expecting(p, Cardinality(Expected(n, held)))
  /\ UNCHANGED <<uploader, receiver, updates, process>>

\* The file that comes is stored, whichever it is.
ReceiveFile(p) ==
  LET count == downloader[p].missing_hashes - 1 IN
  /\ Downloads(p, "files")
  /\ Kind(Incoming(p), "file")
  /\ Read(p)
  /\ downloader' = [downloader EXCEPT ![p].store = Append(@, Head(Incoming(p)).image),
                                      ![p].missing_hashes = count,
                                      ![p].at = IF count = 0 THEN "offers" ELSE "files"]
  /\ UNCHANGED <<uploader, receiver, updates, acks, process>>

\* The length of a file name is read where hash_count is: Fatal ...
Desync(p) ==
  /\ Downloads(p, "offers")
  /\ Kind(Incoming(p), "file")
  /\ NameLength[Head(Incoming(p)).image] > OfferMax
  /\ Abort(p)

\* ... unless it passes for one: so many hashes are awaited, which the name and
\* the bytes behind it are taken for, and then a file for each of them.
GoAstray(p) ==
  /\ Downloads(p, "offers")
  /\ Kind(Incoming(p), "file")
  /\ NameLength[Head(Incoming(p)).image] <= OfferMax
  /\ downloader' = [downloader EXCEPT
       ![p].missing_hashes = NameLength[Head(Incoming(p)).image], ![p].at = "astray"]
  /\ UNCHANGED <<uploader, receiver, net, process>>

\* From then on bytes of names and images pass for counts, hashes, names and
\* sizes.  Nothing tells where in the loop it is when the bytes of a token are
\* used up: a mask may have been sent (bound: one per token), files stored under
\* what was taken for their names (which are not in store), and any number of
\* hashes or files may be awaited.
ReadAstray(p) ==
  /\ Downloads(p, "astray")
  /\ Incoming(p) # <<>>
  /\ Read(p)
  /\ \/ UNCHANGED acks
     \/ \E n \in 1..OfferMax, byte \in Byte :
          acks' = [acks EXCEPT ![Other(p)] = @ \o MaskBytes(n, byte)]
  /\ \E count \in 0..OfferMax :
       downloader' = [downloader EXCEPT ![p].missing_hashes = count]
  /\ UNCHANGED <<uploader, receiver, updates, process>>

\* A hash_count that is too large, a size that cannot be had, or the end while
\* something is awaited: Fatal.
FailAstray(p) ==
  /\ Downloads(p, "astray")
  /\ \/ Incoming(p) # <<>>
     \/ EndOfStream(Other(p)) /\ downloader[p].missing_hashes > 0
  /\ Abort(p)

\* The end of the connection, where an offer may begin, ends the download.
DownloadEnd(p) ==
  /\ Downloads(p, "offers") \/ Downloads(p, "astray")
  /\ downloader[p].missing_hashes = 0
  /\ EndOfStream(Other(p))
  /\ downloader' = [downloader EXCEPT ![p].at = "done"]
  /\ UNCHANGED <<uploader, receiver, net, process>>

\* The end of the connection in the middle of the files: Fatal.
DownloadCut(p) ==
  /\ Downloads(p, "files")
  /\ EndOfStream(Other(p))
  /\ Abort(p)
-----------------------------------------------------------------------------
(* The uploader thread of p. *)

\* The flag of that name: the other side has sent all its hashes.
Updated(p) == uploader[p].at # "byte"

\* It is set under its mutex.
ReceiveByte(p) ==
  /\ Uploads(p, "byte")
  /\ acks[p] # <<>>
  /\ acks' = [acks EXCEPT ![p] = Tail(@)]
  /\ uploader' = [uploader EXCEPT ![p].at = "load"]
  /\ UNCHANGED <<downloader, receiver, updates, stream, process>>

\* total_entry_count is read, before the mutex is taken.
LoadCount(p) ==
  LET count == downloader[p].hasher_entry_count IN
  /\ Uploads(p, "load")
  /\ uploader' = [uploader EXCEPT
       ![p].total_entry_count = count,
       ![p].at = IF uploader[p].processed_entry_count = count THEN "check" ELSE "scan"]
  /\ UNCHANGED <<downloader, receiver, net, process>>

\* Under hasher_progress_mutex: the end if the hasher is done, else wait.
CheckHashing(p) ==
  /\ Uploads(p, "check")
  /\ uploader' = [uploader EXCEPT ![p].at = IF Hashing(p) THEN "wait" ELSE "done"]
  /\ UNCHANGED <<downloader, receiver, net, process>>

SpuriousWakeup(p) ==
  /\ Uploads(p, "wait")
  /\ uploader' = [uploader EXCEPT ![p].at = "load"]
  /\ UNCHANGED <<downloader, receiver, net, process>>

\* The positions behind those processed, up to the k-th, of the entries that were
\* not confirmed.
Unconfirmed(p, k) ==
  {j \in (uploader[p].processed_entry_count + 1)..k :
     entries[p][j] \notin receiver[p].received_hashes}

\* The entry at which the scan stops: an offer is full, or there are no more.
ScanEnd(p) ==
  LET ahead == (uploader[p].processed_entry_count + 1)..uploader[p].total_entry_count
      full == {k \in ahead : Cardinality(Unconfirmed(p, k)) = OfferMax}
  IN  IF full = {} THEN uploader[p].total_entry_count
      ELSE CHOOSE k \in full : \A j \in full : k <= j

\* The elements of a set of positions, in order.
Ascending(S) ==
  CHOOSE s \in [1..Cardinality(S) -> S] : \A i, j \in DOMAIN s : i < j => s[i] < s[j]

\* What the scan leaves in missing_entries.
Scanned(p) ==
  LET positions == Ascending(Unconfirmed(p, ScanEnd(p)))
  IN  [i \in DOMAIN positions |-> entries[p][positions[i]]]

\* Nothing to offer: the uploader looks for progress again.
ScanNothing(p) ==
  /\ Uploads(p, "scan")
  /\ Scanned(p) = <<>>
  /\ uploader' = [uploader EXCEPT ![p].at = "load",
                                  ![p].processed_entry_count = ScanEnd(p),
                                  ![p].missing_entries = <<>>]
  /\ UNCHANGED <<downloader, receiver, net, process>>

\* The offer of what was scanned goes out, with k entries processed by now.
SendScanned(p, k) ==
  /\ Uploads(p, "scan")
  /\ Scanned(p) # <<>>
  /\ stream' = [stream EXCEPT ![p] = Append(@, OfferOf(Scanned(p)))]
  /\ uploader' = [uploader EXCEPT ![p].at = "mask",
                                  ![p].processed_entry_count = k,
                                  ![p].missing_entries = Scanned(p),
                                  ![p].offers = Append(@, Scanned(p))]
  /\ UNCHANGED <<downloader, receiver, updates, acks, process>>

\* Mutant: entries counted but not scanned are taken for processed.
SendOfferForAll(p) == SendScanned(p, uploader[p].total_entry_count)

\* Mutant: with the two conditions of the loop swapped, the entry that fills the
\* offer is not counted as processed.
SendOfferSwapped(p) ==
  SendScanned(p, IF Len(Scanned(p)) = OfferMax THEN ScanEnd(p) - 1 ELSE ScanEnd(p))

SendOffer(p) == SendScanned(p, ScanEnd(p))

\* How many bytes of the other side the uploader waits for.
Awaited(p) ==
  CASE uploader[p].at = "byte" -> 1
    [] uploader[p].at = "mask" -> MaskSize(Len(uploader[p].missing_entries))
    [] OTHER -> 0

\* The loop over missing_entries sends a file wherever the mask leaves it to.
Sending(p, rest) ==
  uploader' = [uploader EXCEPT ![p].uploads = rest,
                               ![p].at = IF rest = {} THEN "load" ELSE "files"]

ReceiveMask(p) ==
  /\ Uploads(p, "mask")
  /\ Len(acks[p]) >= Awaited(p)
  /\ acks' = [acks EXCEPT ![p] = SubSeq(@, Awaited(p) + 1, Len(@))]
  /\ Sending(p, Uploaded(Len(uploader[p].missing_entries), Head(acks[p])))
  /\ UNCHANGED <<downloader, receiver, updates, stream, process>>

UploadFile(p) ==
  \E k \in uploader[p].uploads :
    /\ Uploads(p, "files")
    /\ \A j \in uploader[p].uploads : k <= j
    /\ stream' = [stream EXCEPT
         ![p] = Append(@, FileOf(uploader[p].missing_entries[k + 1]))]
    /\ Sending(p, uploader[p].uploads \ {k})
    /\ UNCHANGED <<downloader, receiver, updates, acks, process>>

\* The byte or the mask will not come any more: Fatal.
UploadCut(p) ==
  /\ Running(p)
  /\ Len(acks[p]) < Awaited(p) /\ ~Running(Other(p))
  /\ Abort(p)
-----------------------------------------------------------------------------
(* The update receiver of p, a detached thread. *)

\* Packet k of the other peer can be read: over DCCP any of them, over TCP the
\* next one, when ReadFully has filled its buffer or met the end.
Readable(p, k) ==
  Reliable => k = 1 /\ (Len(updates[Other(p)][k]) = UpdateMax \/ ~Running(Other(p)))

\* Mutant: the hashes of a packet are taken even when the update has ended.
TakenLate(p, hashes) == ToSet(hashes)

\* What is inserted of a packet: nothing, when the update has ended.
Taken(p, hashes) == IF Updated(p) THEN {} ELSE ToSet(hashes)

\* Under updated_mutex: its hashes are taken, or the update has ended.  (A packet
\* cut short, by the end of the process that sent it, is read and warned of, and
\* so not in updates at all.)
ReceiveUpdate(p) ==
  \E k \in DOMAIN updates[Other(p)] :
    /\ Receives(p)
    /\ uploader[p].at # "done"
    /\ Readable(p, k)
    /\ updates' = [updates EXCEPT ![Other(p)] = RemoveAt(@, k)]
    /\ receiver' = [receiver EXCEPT
         ![p].received_hashes = @ \cup Taken(p, updates[Other(p)][k]),
         ![p].at = IF Updated(p) THEN "done" ELSE "reading"]
    /\ UNCHANGED <<downloader, uploader, stream, acks, process>>

\* The uploader has returned, and with it went the stack that updated_mutex,
\* updated and received_hashes are on: the receiver stops or crashes.
ReceiveLate(p) ==
  \E k \in DOMAIN updates[Other(p)] :
    /\ Receives(p)
    /\ uploader[p].at = "done"
    /\ Readable(p, k)
    /\ updates' = [updates EXCEPT ![Other(p)] = RemoveAt(@, k)]
    /\ receiver' = [receiver EXCEPT ![p].at = "done"]
    /\ status' \in {status, [status EXCEPT ![p] = "aborted"]}
    /\ UNCHANGED <<entries, downloader, uploader, stream, acks, crashes>>

\* The other process is gone and nothing (more) arrives: end of update.
EndOfUpdate(p) ==
  /\ Receives(p)
  /\ ~Running(Other(p))
  /\ Reliable => updates[Other(p)] = <<>>
  /\ receiver' = [receiver EXCEPT ![p].at = "done"]
  /\ UNCHANGED <<downloader, uploader, net, process>>
-----------------------------------------------------------------------------
(* Processes. *)

\* Mutant: only the uploader is joined.
ExitEarly(p) ==
  /\ Uploads(p, "done")
  /\ status' = [status EXCEPT ![p] = "exited"]
  /\ UNCHANGED <<entries, threads, net, crashes>>

\* Both threads are joined, Sync returns and the process exits with it.
Exit(p) ==
  /\ Downloads(p, "done") /\ Uploads(p, "done")
  /\ status' = [status EXCEPT ![p] = "exited"]
  /\ UNCHANGED <<entries, threads, net, crashes>>

\* Sync has closed update_fd on its return, but the detached receiver goes on
\* until the process has exited: its next read throws.
ReadClosed(p) ==
  /\ Downloads(p, "done") /\ Uploads(p, "done")
  /\ Receives(p)
  /\ Abort(p)

\* A process is killed, the hasher meets a file that it cannot read, or the
\* uploader one that it cannot open any more (peer.cpp:411-413).
Crash(p) ==
  /\ Running(p)
  /\ crashes < MaxCrashes
  /\ crashes' = crashes + 1
  /\ status' = [status EXCEPT ![p] = "aborted"]
  /\ UNCHANGED <<entries, threads, net>>

\* A connection to an aborted process is reset: a system call throws.
ConnectionReset(p) ==
  /\ Running(p)
  /\ status[Other(p)] = "aborted"
  /\ Abort(p)

\* The other process has exited and left packets of the update unread, so that
\* the update connection is reset: the read of the receiver throws.
UpdateReset(p) ==
  /\ Receives(p)
  /\ status[Other(p)] = "exited"
  /\ updates[p] # <<>>
  /\ Abort(p)

Terminated ==
  /\ \A p \in Peers : ~Running(p)
  /\ UNCHANGED vars

Downloader(p) ==
  \/ GetBatch(p) \/ SendUpdate(p) \/ GetNothing(p) \/ HashingDone(p) \/ SendByte(p)
  \/ ReceiveOffer(p) \/ ReceiveFile(p) \/ Desync(p)
  \/ GoAstray(p) \/ ReadAstray(p) \/ FailAstray(p)
  \/ DownloadEnd(p) \/ DownloadCut(p)

Uploader(p) ==
  \/ ReceiveByte(p) \/ LoadCount(p) \/ CheckHashing(p)
  \/ ScanNothing(p) \/ SendOffer(p) \/ ReceiveMask(p) \/ UploadFile(p)
  \/ UploadCut(p)

Receiver(p) == ReceiveUpdate(p) \/ ReceiveLate(p) \/ EndOfUpdate(p) \/ ReadClosed(p)

Environment(p) ==
  SpuriousWakeup(p) \/ Crash(p) \/ ConnectionReset(p) \/ UpdateReset(p)

Next ==
  \/ \E p \in Peers :
       Downloader(p) \/ Uploader(p) \/ Receiver(p) \/ Exit(p) \/ Environment(p)
  \/ Terminated

\* The threads that Sync joins keep being scheduled, and a process that can exit
\* does.  No packet of the update need ever arrive, nothing need crash, and
\* nobody is woken without reason.
Fairness ==
  \A p \in Peers :
    WF_vars(Downloader(p)) /\ WF_vars(Uploader(p)) /\ WF_vars(Exit(p))

Spec == Init /\ [][Next]_vars /\ Fairness
-----------------------------------------------------------------------------
Token ==
  [kind : {"offer"}, hashes : {s \in Seq(Hash) : Len(s) \in 1..OfferMax}]
    \cup [kind : {"file"}, image : Hash]

DownloaderState ==
  [at : DownAt, hasher_entry_count : Nat, missing_hashes : 0..OfferMax, store : Seq(Hash)]

UploaderState ==
  [at : UpAt, total_entry_count : Nat, processed_entry_count : Nat,
   missing_entries : Seq(Hash), uploads : SUBSET Nat, offers : Seq(Seq(Hash))]

ReceiverState == [at : {"reading", "done"}, received_hashes : SUBSET Hash]

TypeOK ==
  /\ entries \in Libraries
  /\ downloader \in [Peers -> DownloaderState]
  /\ uploader \in [Peers -> UploaderState]
  /\ receiver \in [Peers -> ReceiverState]
  /\ \A p \in Peers :
       /\ downloader[p].hasher_entry_count <= Len(entries[p])
       /\ uploader[p].total_entry_count <= downloader[p].hasher_entry_count
       /\ uploader[p].processed_entry_count <= uploader[p].total_entry_count
       /\ uploader[p].uploads \subseteq Positions(Len(uploader[p].missing_entries))
  /\ updates \in [Peers -> Seq(Seq(Hash))]
  /\ stream \in [Peers -> Seq(Token)]
  /\ acks \in [Peers -> Seq(Byte)]
  /\ status \in [Peers -> {"running", "exited", "aborted"}]
  /\ crashes \in 0..MaxCrashes

\* What is on its way to the downloader before the next offer: files in the
\* stream, and those the uploader has still to send for the same offer.
LeadingFiles(p) ==
  {k \in DOMAIN stream[p] : \A j \in 1..k : stream[p][j].kind = "file"}

OfferOnItsWay(p) == \E k \in DOMAIN stream[p] : stream[p][k].kind = "offer"

StillToSend(p) ==
  IF OfferOnItsWay(p) THEN {}
  ELSE IF uploader[p].at = "mask"
       THEN Uploaded(Len(uploader[p].missing_entries), Head(acks[p]))
       ELSE uploader[p].uploads

OnItsWay(p) == Cardinality(LeadingFiles(p)) + Cardinality(StillToSend(p))

\* A misread mask alone does not starve a downloader: until it has taken a file
\* for an offer, it never waits for more files than come (peer.cpp:204), and is
\* not left blocked in a read while the uploader waits for the mask of the next
\* offer.
DownloaderNotStarved ==
  \A p \in Peers :
    \/ downloader[Other(p)].at = "astray"
    \/ downloader[Other(p)].missing_hashes <= OnItsWay(p)

\* Offer k of p is one that its receiver finds more than one hash of, or one
\* beyond the bits of a byte.
Misread(p, k) == ~Understood(Held(Other(p), uploader[p].offers[k]))

SomeMisread(p) == \E k \in DOMAIN uploader[p].offers : Misread(p, k)

\* As long as no offer is misread the two ends count alike: no file arrives
\* where an offer is read (peer.cpp:161-166), the files on their way are those
\* expected, no image that the receiver holds is stored again, and nobody has gone
\* astray, to store garbage.
InStepUnlessMisread ==
  \A p \in Peers : SomeMisread(p) \/
    /\ downloader[Other(p)].missing_hashes = OnItsWay(p)
    /\ ToSet(downloader[Other(p)].store) \cap ToSet(entries[Other(p)]) = {}
    /\ downloader[Other(p)].at # "astray"

\* Once the uploader has seen the end of the update it reads received_hashes
\* without a lock (peer.cpp:351): a hash the update confirmed is never offered,
\* and one that was offered is not confirmed later by a packet that was late.
OffersAvoidUpdate ==
  \A p \in Peers : \A k \in DOMAIN uploader[p].offers :
    ToSet(uploader[p].offers[k]) \cap receiver[p].received_hashes = {}

\* In whatever order threads and packets run, whatever the masks say and whoever
\* crashes, what a peer stores until it goes astray is images that the other one
\* has found, each at most once and in the order of that one's directory.  Of
\* what it stores astray nothing is promised, nor is it taken for given.
Exchanged == INSTANCE Exchange WITH
  library <- entries,
  given <- [p \in Peers |-> downloader[Other(p)].store],
  running <- {p \in Peers : Running(p)}

ImplementsExchange == Exchanged!Spec

\* The images of p that its peer neither had nor has been given, as far as one
\* can rely on (an astray one may have an image somewhere in its garbage).
Lost(p) ==
  ToSet(entries[p]) \ (ToSet(entries[Other(p)]) \cup ToSet(downloader[Other(p)].store))

BothFinished ==
  \A p \in Peers : downloader[p].at = "done" /\ uploader[p].at = "done"

\* Offer k of p got a wrong answer: it was misread, or it followed one that was
\* while a file name was short enough to be taken for an offer.
WrongAnswer(p, k) ==
  \/ Misread(p, k)
  \/ \E j \in 1..k, h \in ToSet(entries[p]) : Misread(p, j) /\ NameLength[h] <= OfferMax

\* If the threads of both processes end normally, an image was left behind only
\* in an offer with a wrong answer, or among the entries that the uploader never
\* looked at.
LossIsExplained ==
  BothFinished =>
    \A p \in Peers : \A h \in Lost(p) :
      \/ \E k \in DOMAIN uploader[p].offers :
           h \in ToSet(uploader[p].offers[k]) /\ WrongAnswer(p, k)
      \/ \E k \in (uploader[p].processed_entry_count + 1)..Len(entries[p]) :
           entries[p][k] = h

\* What sample.py:274-277 asserts: each side ends up with every image.
AllTransferred ==
  (\A p \in Peers : status[p] = "exited") => \A p \in Peers : Lost(p) = {}

\* Threads that outlive the stack or the connection they use can bring a process
\* down (peer.cpp:305, :446), but if nobody is killed and no offer misread, the
\* first process to fall has uploaded everything it was going to.
FallsOnlyAfterUpload ==
  \/ \A p \in Peers : status[p] # "aborted"
  \/ crashes > 0 \/ \E p \in Peers : SomeMisread(p)
  \/ \E p \in Peers : status[p] = "aborted" /\ uploader[p].at = "done"

\* Nobody waits forever: not the uploader for progress of the hasher, whose
\* notification may come before it waits (peer.cpp:112, :342), nor one process
\* for the other, whatever happens to that one; but a downloader that has gone
\* astray may wait for hashes or files that nobody sends.
Termination ==
  \A p \in Peers : <>(~Running(p)) \/ <>[](\E q \in Peers : Downloads(q, "astray"))
=============================================================================
