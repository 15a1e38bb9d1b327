# A specification of jpgsync

jpgsync makes two directories of JPEG images equal, across two hosts, by what
is in the images rather than by their names: an image is known by the SHA-1 of
its EXIF data.  One process is the *master* (it listens), the other the *slave*
(it connects); from then on the two do the same, each in three threads next to
a background hasher.  This directory holds TLA+ modules that model that program,
configurations that check them with TLC, and theorems about them that TLAPS
checks.  `PROJECT.json` lists the runs, which lines of the source each
definition stands for, the hazards of the code, and the theorems.

Contents: 1 the system; 2 the modules; 3 what the runs check; 4 bounds;
5 fairness; 6 proofs; 7 where the code and its comments part; 8 assumptions, and
what is not modelled; 9 what is left open.

## 1. The system

Paths are below `src/src/` of the repository.

| component | source | state | operations |
|---|---|---|---|
| exif hasher | `exif_hasher.cpp` | linked list of entries (not locked), `hashes_`, and under `mutex_`: `new_entry_count_`, `done_`; the consumer's `new_entry_` | `Run` (detached thread), `Get`, `Contains` |
| synchronisation | `peer.cpp`, `protocol.hpp` | `hashing`, `hasher_entry_count`, `updated`, `received_hashes`, `missing_hashes`, `missing_entries`, `found_bitmask`; three connections | the threads of `Peer::Sync` |
| connection handshake | `peer.cpp`, `master.cpp`, `slave.cpp` | `download_fd`, `upload_fd`, `update_fd`, `init_update_mutex`, the listening sockets | `InitSyncConnection`, `InitUpdateConnection` |
| image store | `peer.cpp`, `util/fstream_utils.hpp` | the directory, the error count | `ReopenEnd`, `Download` |
| launcher | `jpgsync.cpp` | exit status, pipes of the children | `InitDefaults`, `Execute`, `Wait`, `main` |
| options parser | `util/program_options.hpp` | `argv`, arguments, options | `Parse` |
| directory listing | `util/dir.cpp` | one `DIR*` | `Next` |
| digest | `exif_hash.cpp` | five words | to and from bytes |
| utilities | `util/fd.cpp`, `util/closeable.hpp`, `util/logger.cpp`, `util/syscall.cpp`, ... | a descriptor | `sys_call`, `Fatal` |
| command line tools | `jpghash.cpp`, `jpgln.cpp` | none | the hasher with a threshold of 1 |

How they interact:

- The *launcher* starts the master through `popen` (locally or by ssh), reads
  the port the master prints, starts the slave with that port, and waits for
  both.
- Master and slave *connect*: two threads per side initialise one sync
  connection each, then race for the single update connection.  A sync
  connection carries offers and files one way, and masks the other way.
- The *downloader* thread drains the hasher with `Get`, counts what it gets for
  the uploader (an atomic and a condition variable), and sends the hashes to the
  other side as its *update*.  When the hasher is done it writes one byte on the
  sync connection, and then answers offers: an offer is up to `hashes_per_packet`
  digests, the answer a bit mask of those it has, and then come the files of the
  others.
- The *update receiver*, a detached thread, inserts the hashes of the other side
  in `received_hashes` under a mutex, until it finds the flag `updated`.
- The *uploader* reads the byte, sets `updated`, and then scans the entries of
  the local hasher in order, skips those in `received_hashes`, offers the others,
  and sends the files that the mask leaves to it.
- The downloader writes each file to the *image store*, under its name, or under
  its name and digest if that name is taken.

What is hard here:

- **Threads.** The list of the hasher is walked without a lock.  The count for
  the uploader is raised outside the mutex under which the uploader decides to
  sleep or to stop.  The update receiver outlives the stack frame it uses.
- **Two channels.** The byte that ends an update and the packets of the update
  travel on different connections, so that packets may come late; over DCCP they
  may also be lost or overtake each other.
- **Framing.** Nothing on a sync connection says what comes next: both ends
  derive it from the mask, by two loops that must count alike, and from sizes that
  are announced before the bytes are read.  An end that is out of step may take the
  length of a name for a count of hashes, and bytes of images for anything.
- **Failure.** Either process may be killed at any time, and `Fatal` and uncaught
  exceptions end a whole process; the end of a stream is the normal end of a
  download too.  The launcher sees of all that one exit status per child.

What makes it correct, by component:

| component | property |
|---|---|
| hasher | every image of the directory comes out of `Get` once, in order, in full batches to the end; the walk stays in the list; nobody sleeps through a notification |
| synchronisation | whatever happens, a peer is given images of the other one, as they are, each at most once and in order, as long as it has not taken a file for an offer; up to then it never waits for a file that does not come; what the update has confirmed is not offered; an image left behind has a known cause; the two ends of a connection stay in step over bytes; both processes end, whatever happens to the other one, unless one has gone astray in a misread offer |
| handshake | each download end is connected to the other side's upload end; one update connection is shared; nobody falls or waits for ever because of an order of threads |
| image store | no file with contents is written to; until an offer is misread an image is given up only over the remains of itself or a file of the user; with exit status 0 all that was offered is there, as long as it was understood |
| launcher | status 0 means that both children succeeded; the slave is sent to the master's host, or to what the user called it; it ends, unless the master is left without a slave or both children hang in a misread offer |
| options | no child is run for what the user did not say; the children understand the command line as the launcher did |

The complete list of what is hard to test, at its lines, is under "hazards" in
`PROJECT.json`.

## 2. The modules

| module | models | composes / extends |
|---|---|---|
| `BatchStream` | the contract of the hasher, as its consumer sees it | |
| `ExifHasher` | `Run` and `Get`, one action per critical section | implements `BatchStream` |
| `FoundMask` | the mask of one offer in closed form | used by `Offer`, `PeerSync`, `ImageStore` |
| `Offer` | the two loops over one offer, step by step | computes `FoundMask` |
| `Exchange` | what a synchronisation promises, in two actions | |
| `PeerSync` | two processes in `Sync`: downloader, uploader, update receiver, three connections, crashes | implements `Exchange`; takes the hasher as in `BatchStream`, an offer as in `FoundMask` |
| `FileTransfer` | the files of one offer, byte by byte | details the token "file" of `PeerSync` |
| `Connect` | the handshake before `PeerSync`, with up to two slaves | |
| `ImageStore` | what `PeerSync`'s "store" does to a directory, over several runs | takes an offer as in `FoundMask` |
| `Launcher` | start and end of the processes | its children are `Connect` and `PeerSync` in outline |
| `ProgramOptions` | the parser of options: what is a flag, a value, a root, and how `argv` is put in order | |
| `CommandLine` | parsing and rewriting of `argv`, and the shell in between | extends `ProgramOptions` |
| `MCExifHasher`, `MCPeerSync`, `MCFileTransfer`, `MCImageStore`, `MCCommandLine` | the instances TLC checks | |
| `ExifHasherProof`, `FoundMaskProof`, `OfferProof` | theorems on the hasher and on one offer | `OfferProof` extends `FoundMaskProof` |
| `PeerSyncProof` | theorems on the synchronisation: single threads, then the two ends of a connection | extends `FoundMaskProof` |
| `FileTransferProof` | theorems on the files of an offer, byte by byte | |
| `ConnectProof`, `ImageStoreProof` | theorems on those modules | |
| `LauncherProof` | theorems on `Launcher` and on `ProgramOptions` | |

Variables have the names of the code's where the code has one.  Operators marked
"Mutant" are the code as a plausible bug would have it: they are no part of
the specifications; putting one in the place of the definition that follows it
breaks a property, which shows that the property depends on that definition.

**ExifHasher.**  `entries` is the linked list, `hashes` the set `hashes_`,
`taken` how far `new_entry_` has moved.  `AppendEntry` links an entry
(`exif_hasher.cpp:98-107`) without the lock; `CountBatch` and `Finish` are the two
critical sections of the hasher thread (`:107-122`); `GetWaits` and `GetTakes` are
the two ways through `Get`.  The walk that follows the unlock in `Get` is part of
`GetTakes`: it only reads links that are there before they are counted, which is
`CountedAreLinked`.  An unreadable file ends the process (`AbortRun`), for the
exception leaves a detached thread; so does one that cannot be mapped, which the
code does not notice (`MAP_FAILED` is not `NULL`) and reads all the same.  The images of
a directory, in order, are its `Listing`; with that, what has been taken, and the
places of the two threads, the module maps to `BatchStream`.

**FoundMask and Offer.**  `Offer` keeps the pointer `found`, the counter
`found_bit` and the bytes of `found_bitmask`.  The downloader's `LookupFound` sets
a bit and advances *nothing*, because `continue` skips the increment;
`LookupMissing` advances; the uploader's `WalkSend` and `WalkSkip` both advance.  As
`found_bit` is never reduced modulo `CHAR_BIT`, a bit from the ninth position on
does not fit the byte.  `FoundMask` says what this comes to: the mask is
determined by how many hashes were missing before each found one, and only its
first byte is ever used.

**Exchange and PeerSync.**  `Exchange` has the images each peer finds (`library`),
what the other one has been given of them (`given`), and who runs.  `Give` appends
an image none of whose successors, and not itself, has been given; it asks for
the receiver to run, not for the giver, whose files may still be on their way.
`PeerSync` maps to it with the stores of the downloaders.

In `PeerSync` a thread of a peer is a record: its place `at`, and the locals that
outlive a place.  The uploader's look for progress is two actions, `LoadCount`
(the count is read) and `CheckHashing` (under the mutex), since the hasher may run
in between; likewise `GetBatch` and `SendUpdate`, before and after the count is
raised.  The scan of entries, the loop at `peer.cpp:350-361`, reads only what is
stable by then and is one action, `SendOffer` or `ScanNothing`.  What travels to a
downloader is a sequence of tokens, an offer or a file; what travels back is a
sequence of bytes, for the uploader takes any byte as the end of the update, and as
many as it awaits for a mask.  The update connection is a sequence of packets,
from which a DCCP receiver takes any and a TCP one only the next, once its buffer
is full or the other side has ended.

A file read where an offer is expected ends the process (`Desync`) if the length
of its name is no valid count.  If it is one, the downloader goes *astray*
(`GoAstray`): it awaits as many hashes, which the name and what follows are taken
for, and then as many files.  From then on the bytes of a token may be anything to
it (`ReadAstray`): a mask may go out or not, files may be stored under garbage
names, which are not part of `store`, and any number of hashes or files may be
awaited when the token is used up.  It may fall (`FailAstray`), end where an offer
may begin (`DownloadEnd`), or wait for what nobody sends.  `ReceiveLate` is the packet that arrives when
`updated` and its mutex are gone with the stack they were on; `ReadClosed` the read
of the detached receiver after `Sync` has closed `update_fd`; `UpdateReset` the read
after the other process has exited with packets unread.  Each may abort a process.

**FileTransfer.**  The length of a name, the name, the size and the bytes of each
file go through `WriteFully` and `ReadFully` over a pipe of bounded capacity;
`Write` and `Read` move any number of bytes that fits.  `SendSize` reads the size
when the file is opened, `SendData` the bytes later, with `Change` in between.  The
size is sent as four bytes, most significant first, and what does not fit is cut
off.  A reader that is left with bytes of files where a count of hashes is due is
"lost" and not followed: what it does then is `GoAstray` of `PeerSync`.

**Connect.**  A sync connection is named by the slave's thread that opened it;
the master's threads accept in any order, so a download may meet a download.
Each side compares two bytes; only the master acts on a mismatch, by swapping.
`backlog` and `update_backlog` are the connections that the kernel has made and the
master not accepted; a slave goes on with either.  `EnterUpdate` takes
`init_update_mutex`, which is held while accepting and while connecting.  `Cut` is
what a thread meets when the process at the other end is gone; a master in
`accept` meets nothing.

**ImageStore.**  A path is a name, alone or with a digest; contents are told
apart as far as the code can: absent, empty, something else, or an image that is
whole, cut within its EXIF data ("stub") or cut behind it ("part", which has the
digest of the whole image).  In each run some other peer has a `library` of files
and offers them in any order and in offers of any size.  `Offer` computes from
`FoundMask` the positions whose digests the downloader awaits (`missing_hashes`) and
those of the files that come (`uploads`), which differ after a misread offer: so
`Receive` pairs the next file that comes with the next digest awaited, and the second
name is that of the file with that digest, as `peer.cpp:204` and `:224` have it.
A run ends wherever an offer is read (`Exit`), whatever was not offered or sent; a
file that comes there ends it, or leads it astray (`Desync`), after which any free
path may be filled with `Garbage` (`StoreAstray`) and any name be given up.

**Launcher.**  A child is "starting", "accepting", and so on, as far as launcher
and the other child can tell.  A host that is named counts as remote, be it
"localhost": it is reached by ssh, and the slave is told what the user called it.
`Execute` starts a child, with `Distribute` (rsync) before
if `-d` was given; where the program is missing the shell ends with 127.  rsync goes
to the host without the user of the root, so that it does not help a root with a
user.  `Statuses` is `WEXITSTATUS` of what `pclose` returns, which for a child killed
by a signal depends on the shell in between.  `Hang` is what a downloader astray in
`PeerSync` comes to: both children are "stuck" until one of them is killed.

**ProgramOptions and CommandLine.**  A word is a sequence of characters, so that
`HOST:DIR`, `HOST:PORT` and a word with a blank are what they are to each reader of
them.  `ProgramOptions` is the parser, for any command line: `ArgInds` are the
places of the roots, `RootsMoved` the swaps, one for each root, by which `Parse`
brings them to the front of `argv`. `RunBoth` and `RunOne` are the command lines
that the launcher composes from it, `Split` what a shell makes of their words, and
`Accepted` is applied to the command line of the user and to those of the children.

## 3. What the runs check

| run | states | what it shows |
|---|---|---|
| `hasher_peer` | 8,536 | with threshold and request 2: `CountedAreLinked` (the unlocked walk), `EmptyBatchIsLast`, `WaiterIsOwedNotify`, that the module implements `BatchStream` (`ImplementsStream`), and that the stream flows to its end (`StreamFlows`) |
| `offer_mask` | 3,838 | the loops stay in the mask (`MaskInBounds`), compute its closed form (`LoopsAgree`), send enough (`NeverStarved`) and send exactly what is expected if and only if at most one hash was found, in the first byte (`UnderstoodExactly`) |
| `sync_dccp` | 129,512 | updates lost and reordered: `ImplementsExchange`, `OffersAvoidUpdate`, `DownloaderNotStarved`, `InStepUnlessMisread`, `LossIsExplained`, `FallsOnlyAfterUpload`, `Termination` |
| `sync_tcp` | 453,983 | updates over TCP, offers beyond one byte, either process killed at any moment, a name that passes for an offer: `InStepUnlessMisread`, `LossIsExplained`, `Termination` |
| `file_transfer` | 204,018 | reads and writes of any length, a file that changes, an uploader killed: `CrossInStep`, `DownloadIsOver` |
| `connect` | 206,221 | up to two slaves, one process killed: `Wired`, `NobodyFalls`, `HandshakeEnds`, for all interleavings |
| `launcher` | 13,944 | `SuccessOfAll`, `SlaveFindsMaster`, `EndsUnlessStranded`, hosts named or not, children killed at any moment or hanging, programs missing |
| `image_store` | 584,476 | `KeepsFiles`, `GivenUpOverOwnStub`, `StatusTellsLoss`, over several runs, with misread offers, early ends and runs cut short |
| `command_line` | 556,070 | `RootsComeFirst`, `NeverMisled`, `ChildrenUnderstand`, for every command line of up to five of twelve words |
| `offer_acks`, `sync_unoffered`, `connect_slaves` | | counterexamples to what comments, tests and messages say (section 7) |

Some of the properties say less than one would like, because the code does less:

- `InStepUnlessMisread` and `LossIsExplained` are conditional on the mask being
  read as it was meant.  `DownloaderNotStarved` is not: the uploader may send too
  many files, never too few, so that a misread mask alone does not make the two sides
  wait for each other.  The surplus file makes the downloader `Fatal`, or, if its name
  is short enough to pass for an offer, leads it astray; of a downloader that has
  gone astray the property says nothing.
- `LossIsExplained` allows two causes for an image left behind by two processes
  whose threads both end normally: an offer with a wrong answer (it was misread, or
  came behind one that was, while the receiver was astray), or an entry that the
  uploader has never looked at (section 7).  A lost or late packet of the update
  is *not* among them, nor is any interleaving of scan, offer and update.
- `ImplementsExchange` holds over any loss, order and kill, but promises no image to
  arrive, and is about what is stored until a downloader goes astray.  It is run
  where no name is short enough for that; the theorem is for all names.
- `FallsOnlyAfterUpload` allows the races of the detached receiver to abort a
  process, but only one that has uploaded all it was going to: what is lost by them
  is at most what the *other* process was still sending to it.
- `Termination` excepts a downloader that has gone astray: it may wait for bytes
  that nobody sends.
- `CrossInStep` is conditional on sizes that fit in what they are sent in
  (`protocol.hpp:85`); the run has sizes that do not.
- `NobodyFalls` is conditional on a single slave, and `HandshakeEnds` too: with two,
  any of them may be left waiting (section 7).  `HandshakeEnds` excepts a master
  whose slaves are all gone and that is in `accept`.
- `SuccessOfAll` excepts a child that was killed by a signal behind a local shell
  which replaced itself with the child: `WEXITSTATUS` of that is 0.
- `SlaveFindsMaster` excepts a master's host that the user named localhost (or
  127.0.0.1): for `jpgsync localhost:D1 other:D2` nothing is swapped, since a host that
  is named counts as remote, and the slave on `other` is told to connect to localhost
  (`jpgsync.cpp:119-128`, `:341-344`).
- `EndsUnlessStranded` excepts a master whose slave has died before it had made all
  its connections: the master waits in `accept` without a timeout and the launcher
  in `pclose` (`jpgsync.cpp:353`), for ever.  It also excepts two children one of which
  has gone astray in a misread offer, and waits for what the other one will not send.
- `ChildrenUnderstand` assumes that no option in front of a root has a value, as
  the usage text shows them, that no `--` is used (the role is appended behind it, as
  one root too many), that no word has a blank, and no directory looks like an option.
  `NeverMisled` assumes only the last two.  For `jpgsync -v 3 -m DIR` the swaps put another word
  behind `-v`, and for `jpgsync -s HOST:PORT DIR` the slave loses its address.
- `StatusTellsLoss` speaks of digests, of disks that were never full, and of runs in
  which no offer was misread.  It is about what was offered: what the other peer has
  not offered when it is killed, or never offers (section 7), is missing with status 0.
- `GivenUpOverOwnStub` holds up to the first misread offer.  After one, a file is
  stored under the digest of another: with hashes 0 and 1 found and 2 missing, the
  image that comes is 1, its second name has the digest of 2, and a later image 2 of
  the same name is given up over it.

Modules that may stop have an explicit `Terminated` step, with the condition under
which they may, and deadlock is checked, with two exceptions: in `connect` a master
without a slave stops in `accept` (`Stranded` says when), and in `sync_tcp` a
downloader that has gone astray may stop in a read.

## 4. Bounds

Names are those of the configurations.

- **Hasher.**  Every directory of up to four files, over three digests, a file
  without EXIF data and an unreadable one, and some with a fifth file or a fourth
  digest.  With batches of two this has directories that fill their last batch,
  do not, or fill it with duplicates; the end of hashing before, between and
  after waits; aborts at each place.  `ExifHasherProof` removes the bounds from
  the safety properties, and covers the threshold of 1 with which `jpghash` and
  `jpgln` call the hasher.
- **Offer.**  All sets of found hashes for all offers of one to seven hashes,
  with bytes of two bits: the mask has up to four bytes, and offers end within and
  at the end of a byte.  `OfferProof` removes the bounds from all
  properties of the run `offer_mask`.
- **PeerSync.**  Five images; libraries with nothing, one, all in common, and
  with a common image found last, so that it may be offered before the update
  tells of it.  `UpdateMax` is 2: full and partial packets.  `OfferMax` is 2 or 3
  with a `CharBit` of 1 or 2: a side needs two offers, and offers go beyond the
  first byte.  At most one process is killed from outside (`MaxCrashes`, in `sync_tcp`);
  with both gone nothing is left to check, and aborts that follow from a crash are
  not bounded.  In `sync_tcp` one file name has the length of an offer
  (`NameLength`); a downloader that has gone astray answers at most once per token.
  In `sync_tcp` the libraries are fewer (`MCFewLibraries`).
  Channels are bounded by the number of images, not by a constraint.
  `PeerSyncProof` removes the bounds from all properties but `Termination`.
- **FileTransfer.**  Two files, so that one follows another.  A byte has two values,
  so that the four bytes of a size tell sizes up to 15: the files of 16 and 17 bytes do
  not fit, as files of 4 GiB do not with bytes of eight bits.  The pipe holds three
  bytes, fewer than most files and than a size.  One change (`MaxChanges`) to any other
  content, and one kill.  `FileTransferProof` removes the bounds from `CrossInStep`.
- **Connect.**  Up to two slaves, a `Backlog` of 2 as in `listen(sock, 2)`, and one
  process killed (`MaxKills`).  Sides and threads are what the code has.
  `ConnectProof` removes the bounds from all but `HandshakeEnds`.
- **Launcher.**  Exact: no bound on anything.
- **ImageStore.**  Three images and three names; the other peers have all images, one
  of them under the name of another, or two with their names exchanged, and the
  directories have files of those names in the way or two of the images, so that an
  offer of three (`OfferMax`) is misread.  A `CharBit` of 2 makes that happen with one
  hash found, too.  Two runs (`MaxRuns`): one that leaves remains and one that meets
  them; one is cut short (`MaxCrashes`), one write is cut by a full disk (`MaxFull`),
  and one file of garbage is made (`MaxGarbage`), which is no image or passes for one
  (`Garbage`).  `ImageStoreProof` removes the bounds.
- **CommandLine.**  `MaxArgs` is five: both roots and three more arguments, enough
  for an option with its value on either side of a root, and for swaps that move
  an option twice.  Twelve words: options with and without a value, `--`, names,
  numbers, addresses (a port of two digits is too large, as `MaxPort` is 9), a root
  with user and host, and a word with a blank.

## 5. Fairness

- `ExifHasher`: weak fairness of the hasher thread and of the consumer.  Both are
  plain threads that never block but in what their guards say.  Spurious wakeups
  have none.
- `PeerSync`: weak fairness of each downloader thread and each uploader thread,
  and of the exit of a process whose threads are joined.  None for the update
  receiver: a packet may never arrive, and the receiver, being detached, is
  waited for by nobody.  None for crashes, resets and spurious wakeups.  So
  `Termination` holds although every packet may be lost, and a notification that
  is missed (`peer.cpp:112` notifies without the mutex) is made good by the next
  one, of which the last is sent under the mutex.
- `Connect`: weak fairness of each thread of each side; accept and read block as
  long as their guards are false.  None for kills.
- `FileTransfer`: weak fairness of uploader and downloader, none for changes, kills
  and resets.
- `Launcher`: weak fairness of the launcher and of each child's own steps.  That
  a child ends once it has all connections is taken from `Termination` of
  `PeerSync`, with what that excepts: `Hang` may come before, and two children that are
  stuck stay so until one of them is killed.  Being killed, stuck, or rejecting options,
  is never due.
- `ImageStore`, `CommandLine`, `Offer`, `Exchange`: none; only safety is claimed.

Weak fairness of a thread as a whole is enough, since a thread has at every
place either one enabled action or several of which any goes on.

## 6. Proofs

All theorems hold for every value of the constants that satisfies the named
assumptions of the modules (`HasherAssumption`, `CharBitAssumption`,
`OfferMaxAssumption`, `PeerSyncAssumption`, `ImageStoreAssumption`,
`ConnectAssumption`, `ModesAssumption`, `FileTransferAssumption`); one of them,
`GivenUpOverOwn`, has a hypothesis besides.  Those on `PeerSync` are for two peers
with any directories, in which no image is twice (the hasher yields each digest
once), any sizes of packets and offers, any width of a byte, both transports and any
number of kills.

| property | theorem |
|---|---|
| `ExifHasher`: `TypeOK`, `CountedAreLinked`, `EmptyBatchIsLast`, `WaiterIsOwedNotify`, `ImplementsStream` | `ExifHasherProof`: `TypeCorrect`, `WalkStaysInList`, `EmptyBatchEndsStream`, `NoLostWakeup`, `HasherStreams` |
| `Offer`: `TypeOK`, `MaskInBounds`, `LoopsAgree`, `NeverStarved`, `UnderstoodExactly` | `OfferProof`: `TypeCorrect`, `StaysInBounds`, `LoopsComputeMask`, `DownloaderServed`, `UnderstoodOnly` |
| `PeerSync`: `TypeOK`, `OffersAvoidUpdate`, `DownloaderNotStarved`, `InStepUnlessMisread`, `FallsOnlyAfterUpload`, `ImplementsExchange`, `LossIsExplained` | `PeerSyncProof`: `TypeCorrect`, `OffersAvoid`, `NeverStarved`, `InStepAlways`, `FallsLate`, `Exchanges`, `LossExplained` |
| `FileTransfer`: `TypeOK`, `CrossInStep` | `FileTransferProof`: `TypeCorrect`, `FilesCrossInStep` |
| `Connect`: `TypeOK`, `Wired`, `NobodyFalls` | `ConnectProof`: `TypeCorrect`, `AlwaysPaired`, `AlwaysStanding` |
| `ImageStore`: `TypeOK`, `KeepsFiles`, `StatusTellsLoss`, `GivenUpOverOwnStub` | `ImageStoreProof`: `TypeCorrect`, `FilesKept`, `StatusTells`, `GivenUpOverOwn` |
| `Launcher`: `TypeOK`, `SuccessOfAll`, `SlaveFindsMaster` | `LauncherProof`: `TypeCorrect`, `AllSucceed`, `SlaveArrives` |
| `ProgramOptions`: `RootsFirst`, which `RootsComeFirst` says of the command lines of the run | `LauncherProof`: `SwapsBringRootsFirst` |

**ExifHasherProof.**  `TypeCorrect`: types.  `EntriesAccounted`: the invariant
`Accounting`, which says where each entry of the list is: handed out, counted,
in the batch that is being counted, or in the batch that is not yet full.  It is
inductive together with `TypeOK`, and is needed because `CountedAreLinked` alone is
not: that a count may be raised by a whole threshold follows only from knowing
that `hashes_.size()` has just become a multiple of it, hence lemmas on remainders
(`RemainderStep`).  From it follow `WalkStaysInList`, `EmptyBatchEndsStream` and
`NoLostWakeup`.  `HasherAssumption` excludes keeping duplicates with a threshold
above 1, which no caller does: `hashes_.size()` would not count the entries.

`HasherStreams` is the refinement of `BatchStream`.  `Accounting` says how many entries
there are where, not which: `Listed` adds that the list holds the images among the files
taken so far, each at the place that its number gives it, and that `hashes_` has the
digests of those files, so that the test by `hashes_` finds exactly the images
(`HashedIsImage`).  Hence the list begins the `Listing` of the directory, and is all of it
at the end (`ListBeginsListing`).  A step of the hasher thread is then a stutter of the
stream, or its `Abort`; a `GetTakes` is a `Deliver`, of a full batch or, once `done_` is
set, of all that is left.

**FoundMaskProof.**  `EnoughUploaded`: the uploader sends at least as many files as
the downloader waits for.  Each found hash sets at most one bit (`MaskSmall`), so at
most that many positions are skipped.  `ExactlyUnderstood`: the files sent are
those waited for if and only if at most one hash was found and its position has a
bit in the first byte.  With two found, the positions from the second on would
each have to be reported by a bit that a later one sets (`MissingBound`: a found
hash behind another one sets a bit smaller than its position), and there are too
few of those; that is the injection in `ReportedOnce`.

**OfferProof.**  `LoopsComputeMask` and `DownloaderServed`: the loops of `Offer`
compute the closed forms (`LoopsAgree`), so that `EnoughUploaded` holds of them
(`NeverStarved`).  The inductive invariant `LoopInv` says how far each loop has come:
`found_bit` counts the hashes missing so far, the first byte has `BitsBefore(i)`,
`missing_hashes` and `sent` are those of the first `i` positions.  Its conjunct
`InFirstByte`, that `found` still points to the first byte as long as `found_bit` has
a bit in it, is what makes the other bytes stay empty.  `TypeCorrect` bounds `found`
by `found_bit \div CharBit`, from which `StaysInBounds` follows.  For `UnderstoodOnly`
sets are not enough, as `sent` and `missing_hashes` are sequences: both are in
ascending order (`MissingInOrder`, `SentInOrder`), and two such sequences over one
set are equal; the rest is `ExactlyUnderstood`.

**PeerSyncProof.**  `TypeCorrect` rests on `Typed`, which is `TypeOK` and facts about
single threads.  What the scan offers is `Ascending` of a set of positions, defined
by a choice; `RankTaken` and the lemmas after it show that such a sequence exists, so
that an offer is a subsequence of the entries.  `OffersAvoid`: an offer leaves
out what `received_hashes` has, and that set does not grow once the uploader has
passed its first read (`OffersOK`: before, nothing has been offered).

The second half is about the two ends of a connection.  The invariant `Protocol` has
`Direction(p)` for each peer: how the uploader of `p`, the downloader of the other
peer, and what is on its way in between fit together.

- `InTouch`: either the downloader has met a misread offer and gone astray (or ended
  after that), which takes a file name short enough to pass for an offer; or the two
  are in a `Phase` of the protocol, with at most one offer between them, which lies
  unread behind files or has been answered by the mask of what is held, and files
  otherwise, and `Enough` files are coming.  `Enough` across a mask is `EnoughUploaded`.
- `InStep`: as long as no offer that has been read was misread, the files that come
  are `Exact` and none of them is held by the taker (`ExactlyUnderstood`).  It has to
  be about offers that have been *read*: one that is misread later does no harm to
  what was sent before it.
- `Ended`: a downloader that is done has left nothing behind; `CurrentOffered`:
  `missing_entries` is the last of the offers while its mask is awaited.
- `InOrder`: what is stored, what is on its way and what may still be sent are, in
  that order, entries of the directory in their order, without repetition, and all of
  them among the entries processed.

`NeverStarved` and `InStepAlways` are read off from `Protocol`; once the downloader is
astray, `InTouch` promises nothing of what it awaits.  `FallsLate`: a
process is brought down by a packet or a read that comes after `Sync` has
returned (`ReceiveLate`, `ReadClosed`), which needs its own uploader to be done; by
the end of the other process (`UpdateReset`, `UploadCut`, `DownloadCut`), which has
exited by then, so that this one has read all of it and sent its own; or by a file
where none is due (`Desync`, `FailAstray`), which needs a misread offer.
`Exchanges` is the refinement: `Init` maps to `Init` of `Exchange`, and each action to
`Give` (a file is stored in step; one that is stored astray is not in `store`), to
`End`, or to a stutter; `InOrder`
shows that no successor of the image given has been given before it.
`LossExplained` needs to know what has become of every processed entry
(`Reckoned`): each is held by the other peer or was offered (`Covered`); what
was offered and answered rightly is held, stored, or on its way (`Accounted`); and at
the first misread answer, all that was offered before it has arrived already, since
an offer is read only when no file is due (`Settled`).  At the end nothing is on its
way (`Ended`).

**FileTransferProof.**  `FilesCrossInStep` holds for any files, contents, capacity,
and number of changes, and any base of at least two in place of 256.  The inductive
invariant `InStep` takes what is
in the reader's buffer, in the pipe, and still to be written as one sequence,
`OnTheWay`, which `Write` and `Read` do not change. `Placed` gives each file k of
the offer a position `o[k]` in it behind which the file begins, one after the other
without a gap, negative once its first bytes have been taken; `Filled` says that the
name, the size and the bytes of each file are found there (`Carried`, which ignores
what has been taken).  `Sending` and `Reading` tie the places of the two threads to
these positions: what is to be read next begins at the front.  So when `ReadFully`
has what it was to read, that *is* the next part (`ReadIsFirst`, `ReadWasSent`); and
a reader that meets the end within a file finds an uploader that has not sent it all
(`ReadEndMatched`). That the size is understood is `SizeUnderstood`: four divisions
undone by four multiplications, from the law of division.  As a size that does not
fit breaks the invariant, it is claimed under `AllFit` only; `FittedBefore` carries
that backwards, since sizes once sent do not change.  `InOrder` is the uploader's
part, which needs no such condition.

**ConnectProof.**  For any number of slaves.  `IPlaced` says what each thread's place
tells of its locals, of the mutex and of `update_open`.  `IWired` adds the three
facts that make `Wired` inductive: each connection is accepted once (`Accepted`), a
slave hears nothing on a connection and does not go on before the master has
accepted it (`Heard`), and `swapped` is the opposite of what the upload thread found
(`Joined`).  So a slave that synchronises has had both its connections accepted, by
both threads of the master, which leaves two ways to pair them: the ends that want
the same have to be told from those that do not, which is the comparison of the two
bytes (`Ids`).  If the two connections come from two slaves, neither gets this far.
`AlwaysStanding`: `Sharing` says that a slave is in the backlog of the update
connection at most once and only after it has opened its end, and that the master
closes `update_sock_` only as it takes such a connection.  With one slave, hence, the
master has never taken a connection when another thread, under
`init_update_mutex`, comes to accept one.  That no slave is in `update_backlog`
twice, a part of `TypeOK`, comes from the same.

**ImageStoreProof.**  `FilesKept` from `Writing`: the file being written was made, or
found empty, by this run, so that `Store`, `StoreCut` and `Crash` fill nothing else.
`StatusTells` from `InStep`: in a run without a misread offer, what comes is what is
awaited (`missing_hashes` and `uploads` are the same positions, by `ExactlyUnderstood` of
`FoundMaskProof`), and what was offered is found, awaited, being written, or given up.
So nothing is left of an offer when no hash is awaited, which is where a run may end.
`GivenUpOverOwn` needs `OwnOnly`: what lies under the name with the digest of an image is
of that image, or is no image.  Until an offer is misread it is kept by all runs, for
the file that comes is then that of the digest; it is assumed of the directories in the
beginning: if a user has put one image under the digest name of another one, the other
is given up over a whole image, by the code too.  The directories of the run
`image_store` meet the hypothesis.

**LauncherProof.**  `Telling` says which places the launcher comes to in each mode
and that status 0 speaks for each child already waited for (`Told`); a child that is
waited for stays as it ended.  `InOrder`: before the roots are put in order no
slave is run, and afterwards the slave's view of the host is one where the
master is, or the user named the master's host localhost (`Named`).

`SwapsBringRootsFirst` is about the parser, for every command line.  The places of the
roots grow and none is in front of its number (`ArgIndsType`, by `RankTaken`), so that the
swap of a root with what is in front disturbs neither the roots already in front nor
those still to come (`OneMoreInFront`).  That the recursive function of the swaps exists,
and what holds after all of them, are inductions; the library's induction
theorems have an operator for a parameter, which the provers cannot instantiate, so
`Inductively` states the principle for a set of numbers, and proves it by the first number
that is not in it.

Only model-checked:

- all liveness, which is beyond the prover: `Termination`, `DownloadIsOver`,
  `HandshakeEnds`, `EndsUnlessStranded`, `StreamFlows`;
- `CommandLine`: `NeverMisled` and `ChildrenUnderstand` compare what two parsers and a shell
  make of words taken apart and put together again, by folds and choices over
  characters, each of which would need an induction of its own.  `RootsComeFirst` is stated of
  `ProgramOptions`, for any command line; it is not restated for the specification,
  where the command line given does not change.

## 7. Where the code and its comments part

Three runs are counterexamples, each to a statement in the repository.

- `offer_acks` / `NothingHeldIsSent`.  "figure out missing hashes and confirm found
  ones via found_bitmask" (`peer.cpp:176`), "receive negative acks (what receiver
  already has) in found_bitmask" (`peer.cpp:388`).  The downloader advances its bit
  only for missing hashes, the uploader for all (`peer.cpp:189`, `:193`, `:436`): with two
  hashes found at positions 0 and 1, both set bit 0, and the second image is sent
  although it was found.
- `sync_unoffered` / `AllTransferred`.  "wait until new hasher entries are found or
  hashing is done" (`peer.cpp:335`), and `sample.py:274-277` asserts that all images
  are at both sides in the end.  The count is read before the mutex (`peer.cpp:336`);
  the hasher publishes its last batch and clears `hashing` in between, and the
  uploader stops without a look at that batch.
- `connect_slaves` / `OneSlave`.  "Cannot connect to multiple slaves" (`master.cpp:54`):
  the master means to fall when a second slave connects.  `InitUpdateConnection` is
  only called while `update_fd` is closed (`peer.cpp:72-74`), that is once, when
  `update_sock_` is still open, so that the message is never reached.  With two
  slaves the master accepts a sync connection from each and goes on; either slave
  waits for an answer on its other connection.

## 8. Assumptions, and what is not modelled

Assumptions of the models, beyond the named ones:

- A write to a process that has aborted fails as `ConnectionReset` says, at some
  time or never; nothing is said about when.
- What a downloader stores once it has gone astray is not in `store` of `PeerSync`,
  which promises nothing of it; `ImageStore` has it as `Garbage` under any path that is
  free.  The bytes of names and images are taken for no hash of any image.
- An uploader that cannot open a file it has offered (`peer.cpp:411-413`) falls like one
  that is killed: `Crash`.  An update packet of an invalid length (`peer.cpp:271-275`)
  changes no state, and no peer sends one.
- An ssh client that is killed by a signal on the launcher's own host would hide the
  status of its child as a local shell does; `Statuses` has only the child killed.
- Name conflicts of files are not in `PeerSync`, whose store is a sequence of
  images; they are in `ImageStore`, which takes from `PeerSync` only that offers come
  one after the other, and that no image is offered twice in a run.
- `Launcher` assumes, in mode "both", that a slave accepts the options that a
  master has accepted; `CommandLine` is about that.
- `CommandLine` knows the shell as what splits words at blanks; that it also expands
  quotes, `$`, `*` and `~` is left out, as is the word `-l`, which the launcher adds
  itself.  The port that the master has printed is a fixed one.
- In `Connect` the host is resolved to one address, always the same, and the list
  that a second `Resolve` replaces stays allocated, as in the code.

Not modelled:

- The directory listing: one loop over `readdir`.  It does not overlap a download,
  for the thread that stores images has waited for the hasher, and with it for the
  end of the listing.
- The digest: five words to and from twenty bytes, without state.
- The wrappers of descriptors and system calls, logging, and the usage text.
- What `jpghash` and `jpgln` print or link.
- `MultiOption` and option types of the parser that no program here uses.
- The netcat test mode (`--nc-test`), which runs another program in place of the
  synchronisation.

## 9. What is left open

1. `NeverMisled` and `ChildrenUnderstand` for command lines of any length: first that the
   swaps permute `argv`, and then what `Split` makes of words without blanks.
2. That `FileTransfer` implements the token "file" of `PeerSync`: the two modules are
   composed by reading, as the comments say, not by a refinement mapping, for
   `PeerSync` goes on where `FileTransfer` stops, with a downloader that is lost.
3. The liveness properties, with a prover that handles fairness.
