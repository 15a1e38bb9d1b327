----------------------------- MODULE ImageStore -----------------------------
(***************************************************************************)
(* What the downloads of a peer leave in its directory (src/src/peer.cpp:  *)
(* 161-246, :448-453), over several runs of the program and with runs that *)
(* are cut short.  In each run the other peer has some files, and offers   *)
(* the digests of some of them; what it sends then depends on FoundMask.   *)
(* What is never offered was confirmed by the update, or is left behind:   *)
(* that is PeerSync's matter.                                              *)
(*                                                                         *)
(* The digest of an image covers its EXIF data, which comes first in the   *)
(* file: a file cut behind it has the digest of the whole image.           *)
(***************************************************************************)
EXTENDS FoundMask, Sequences, Functions

CONSTANTS
  Image,             \* the images that other peers may have
  Name,              \* file names
  NoSuffix,          \* in place of an image: no digest in the name
  Libraries,         \* what other peers may hold: sets of files
  Directories,       \* how the directory may look in the beginning
  OfferMax,          \* SyncProtocol::hashes_per_packet
  MaxRuns,           \* bound: how often the program is run
  MaxCrashes,        \* bound: how many runs are cut short
  MaxFull,           \* bound: how often the disk is full
  Garbage,           \* bound: what a file may be that is made of other bytes
  MaxGarbage         \* bound: how many such files are made

File == [name : Name, image : Image]

\* A path is a name, or a name with a digest appended to it.
Path == Name \X (Image \cup {NoSuffix})

\* What may be at a path.  "other" is anything that is in the way and has no
\* digest; a "stub" is cut within the EXIF data, a "part" behind it.
Content ==
  {<<"absent">>, <<"empty">>, <<"other">>} \cup ({"stub", "part", "whole"} \X Image)

ASSUME ImageStoreAssumption ==
  /\ NoSuffix \notin Image
  /\ Libraries \subseteq SUBSET File
  /\ \A library \in Libraries : \A f, g \in library :
       f.name = g.name \/ f.image = g.image => f = g
  /\ Directories \subseteq [Path -> Content]
  /\ OfferMax \in Nat \ {0}
  /\ Garbage \subseteq Content
  /\ MaxRuns \in Nat /\ MaxCrashes \in Nat /\ MaxFull \in Nat /\ MaxGarbage \in Nat

VARIABLES
  dir,
  at,                \* "off", "receiving", "writing", or "astray"
  library,           \* the files of the other peer in this run
  offered,           \* the images it has offered so far
  offer,             \* the files it has offered last
  missing_hashes,    \* the positions of those whose digest is awaited
  uploads,           \* the positions of those that come
  image,             \* the image that comes now
  target,            \* the paths that it is being written to: one, or /dev/null
  given_up,          \* the names given up in this run; exit status 2 if any
  misread,           \* history: the runs in which an offer was not understood
  runs,
  crashes,
  full,              \* how often the disk was full
  garbage            \* how many files were made of what is no file

download == <<offer, missing_hashes, uploads, image, target>>
bounds == <<runs, crashes, full, garbage>>
vars == <<dir, at, library, offered, download, given_up, misread, bounds>>

\* The images that the hasher finds in the directory.  One that has not been
\* offered in this run has not come since the hasher looked.
Found == {i \in Image : \E p \in Path : dir[p] \in {<<"part", i>>, <<"whole", i>>}}

HasStub == \E p \in Path, i \in Image : dir[p] = <<"stub", i>>

Init ==
  /\ dir \in Directories
  /\ at = "off"
  /\ library = {} /\ offered = {}
  /\ offer = <<>> /\ missing_hashes = {} /\ uploads = {}
  /\ image = NoSuffix /\ target = {}
  /\ given_up = {} /\ misread = {}
  /\ runs = 0 /\ crashes = 0 /\ full = 0 /\ garbage = 0
-----------------------------------------------------------------------------
\* The program is started, with some other peer.
Run ==
  /\ at = "off" /\ runs < MaxRuns
  /\ library' \in Libraries
  /\ at' = "receiving"
  /\ given_up' = {}
  /\ runs' = runs + 1
  /\ UNCHANGED <<dir, offered, download, misread, crashes, full, garbage>>

\* Reading the EXIF data of a file that is cut within them may throw, in the
\* hasher's thread: this run ends before anything is received.
HasherFails ==
  /\ at = "off" /\ runs < MaxRuns
  /\ HasStub
  /\ given_up' = {}
  /\ runs' = runs + 1
  /\ UNCHANGED <<dir, at, library, offered, download, misread, crashes, full, garbage>>

\* What may be offered next.
Offers ==
  {files \in UNION {[1..n -> library] : n \in 1..OfferMax} :
     IsInjective(files) /\ \A k \in DOMAIN files : files[k].image \notin offered}

Held(files) == {k \in Positions(Len(files)) : files[k + 1].image \in Found}

\* The positions of the files that come, and of the digests they are taken to
\* have, are those of either side.
Offer ==
  /\ at = "receiving" /\ missing_hashes = {} /\ uploads = {}
  /\ \E files \in Offers :
       LET n == Len(files)
           held == Held(files)
       IN
       /\ offer' = files
       /\ offered' = offered \cup {files[k].image : k \in DOMAIN files}
       /\ missing_hashes' = Expected(n, held)
       /\ uploads' = Uploaded(n, Mask(held))
       /\ misread' = IF Understood(held) THEN misread ELSE misread \cup {runs}
  /\ UNCHANGED <<dir, at, library, image, target, given_up, bounds>>

\* Mutant: a file that cannot be appended to is enough.
Overwritable(p) == dir[p] # <<"other">>

\* ReopenEnd: the file can be opened, and is empty then.
Free(p) == dir[p] \in {<<"absent">>, <<"empty">>}

\* Opened to append, a file that did not exist is empty now.
Open(p) == dir' = [dir EXCEPT ![p] = <<"empty">>]

FirstPath(name) == <<name, NoSuffix>>

\* Mutant: the second name has nothing of the image in it.
SharedPath(name, hash) == <<name, CHOOSE i \in Image : TRUE>>

\* <filename>-<sha1>
SecondPath(name, hash) == <<name, hash>>

Least(k, S) == k \in S /\ \A j \in S : k <= j

\* The next file that comes, at position k, is taken for the next one awaited, at
\* position l, and may be opened under this name and this digest.
Receive(k, l) ==
  /\ at = "receiving"
  /\ Least(k, uploads) /\ Least(l, missing_hashes)
  /\ uploads' = uploads \ {k}
  /\ missing_hashes' = missing_hashes \ {l}
  /\ image' = offer[k + 1].image
  /\ at' = "writing"
  /\ UNCHANGED <<library, offered, offer, misread, bounds>>

First(k) == FirstPath(offer[k + 1].name)
Second(k, l) == SecondPath(offer[k + 1].name, offer[l + 1].image)

\* "create file <filename> ..."
OpenFirst(k, l) ==
  /\ Receive(k, l)
  /\ Free(First(k)) /\ Open(First(k))
  /\ target' = {First(k)}
  /\ UNCHANGED given_up

\* "... or <filename>-<sha1> (if former exists)"
OpenSecond(k, l) ==
  /\ Receive(k, l)
  /\ ~Free(First(k))
  /\ Free(Second(k, l)) /\ Open(Second(k, l))
  /\ target' = {Second(k, l)}
  /\ UNCHANGED given_up

\* Mutant: nobody is told.
GiveUpQuietly(k, l) ==
  /\ Receive(k, l)
  /\ ~Free(First(k)) /\ ~Free(Second(k, l))
  /\ target' = {}
  /\ UNCHANGED <<dir, given_up>>

\* Neither name is free: Error, and the image goes to /dev/null.
GiveUp(k, l) ==
  /\ Receive(k, l)
  /\ ~Free(First(k)) /\ ~Free(Second(k, l))
  /\ target' = {}
  /\ given_up' = given_up \cup {Second(k, l)}
  /\ UNCHANGED dir

\* Every target has this content.
Write(content) == dir' = [p \in Path |-> IF p \in target THEN content ELSE dir[p]]

\* Mutant: without the guard the file stays open.
CloseUnguarded(content) ==
  /\ Write(content)
  /\ at' = "receiving"
  /\ UNCHANGED <<library, offered, download, given_up, misread, runs, crashes, garbage>>

\* The file is closed with this content, and the next one or an offer comes.
Close(content) ==
  /\ Write(content)
  /\ at' = "receiving"
  /\ image' = NoSuffix /\ target' = {}
  /\ UNCHANGED <<library, offered, offer, missing_hashes, uploads, given_up, misread,
                 runs, crashes, garbage>>

Store ==
  /\ at = "writing"
  /\ Close(<<"whole", image>>)
  /\ UNCHANGED full

Truncated(i) == {<<"empty">>, <<"stub", i>>, <<"part", i>>}

\* The disk is full: ofs->write fails, and nobody looks.
StoreCut ==
  /\ at = "writing" /\ target # {}
  /\ full < MaxFull
  /\ full' = full + 1
  /\ \E content \in Truncated(image) : Close(content)

\* Nothing is left of this run but the directory and the exit status.
End ==
  /\ at' = "off"
  /\ library' = {} /\ offered' = {}
  /\ offer' = <<>> /\ missing_hashes' = {} /\ uploads' = {}
  /\ image' = NoSuffix /\ target' = {}
  /\ UNCHANGED <<given_up, misread>>

\* The end of the connection, where an offer may begin, ends the download, whatever
\* has not been offered, or sent.  The exit status is 2 if an image was given up.
Exit ==
  /\ at = "receiving" /\ missing_hashes = {}
  /\ End
  /\ UNCHANGED <<dir, bounds>>

\* A file comes where an offer is read: Fatal, or it passes for an offer.
Desync ==
  /\ at = "receiving" /\ missing_hashes = {} /\ uploads # {}
  /\ \/ End
     \/ /\ at' = "astray"
        /\ UNCHANGED <<library, offered, download, given_up, misread>>
  /\ UNCHANGED <<dir, bounds>>

\* Whatever bytes make a file then, under whatever they make of a name and a
\* digest: a free path here, or none of these names at all.
StoreAstray(p) ==
  /\ at = "astray" /\ garbage < MaxGarbage
  /\ garbage' = garbage + 1
  /\ Free(p)
  /\ \E content \in Garbage : dir' = [dir EXCEPT ![p] = content]
  /\ UNCHANGED <<at, library, offered, download, given_up, misread, runs, crashes, full>>

\* Or neither name is free.
GiveUpAstray(p) ==
  /\ at = "astray"
  /\ p[2] # NoSuffix /\ ~Free(FirstPath(p[1])) /\ ~Free(p)
  /\ given_up' = given_up \cup {p}
  /\ UNCHANGED <<dir, at, library, offered, download, misread, bounds>>

\* The end of the connection, or Fatal.
EndAstray ==
  /\ at = "astray"
  /\ End
  /\ UNCHANGED <<dir, bounds>>

\* The run ends in the middle of something: before, while or after writing.
Crash ==
  /\ at # "off" /\ crashes < MaxCrashes
  /\ crashes' = crashes + 1
  /\ \E content \in Truncated(image) \cup {<<"whole", image>>} : Write(content)
  /\ End
  /\ UNCHANGED <<runs, full, garbage>>

Terminated == at = "off" /\ runs = MaxRuns /\ UNCHANGED vars

Next ==
  \/ Run \/ HasherFails \/ Offer
  \/ \E k \in uploads, l \in missing_hashes :
       OpenFirst(k, l) \/ OpenSecond(k, l) \/ GiveUp(k, l)
  \/ Store \/ StoreCut \/ Exit \/ Desync
  \/ \E p \in Path : StoreAstray(p) \/ GiveUpAstray(p)
  \/ EndAstray \/ Crash
  \/ Terminated

Spec == Init /\ [][Next]_vars
-----------------------------------------------------------------------------
TypeOK ==
  /\ dir \in [Path -> Content]
  /\ at \in {"off", "receiving", "writing", "astray"}
  /\ library \in SUBSET File /\ offered \in SUBSET Image
  /\ offer \in Seq(library) /\ Len(offer) <= OfferMax
  /\ missing_hashes \subseteq Positions(Len(offer))
  /\ uploads \subseteq Positions(Len(offer))
  /\ IF at = "writing" THEN image \in offered ELSE image = NoSuffix /\ target = {}
  /\ target \subseteq Path /\ \A p, q \in target : p = q
  /\ given_up \subseteq Path
  /\ misread \subseteq 1..runs
  /\ runs \in 0..MaxRuns /\ crashes \in 0..MaxCrashes
  /\ full \in 0..MaxFull /\ garbage \in 0..MaxGarbage

\* What is in a file, the user's or one of an earlier run, stays there: no
\* download, in step or astray, writes to a file that is not empty
\* (peer.cpp:222-224).
KeepsFiles ==
  [][\A p \in Path :
       dir[p] \notin {<<"absent">>, <<"empty">>} => dir'[p] = dir[p]]_vars

\* Wherever a download may end with exit status 0, which is wherever an offer is
\* read (peer.cpp:161), every image that was offered is in the directory, as far
\* as digests tell, unless the disk was full at some time or an offer of this run
\* was misread.  Of what was not offered the status tells nothing.
StatusTellsLoss ==
  at = "receiving" /\ missing_hashes = {} /\ given_up = {} /\ full = 0
    /\ runs \notin misread => offered \subseteq Found

\* The digest in the second name keeps images apart (peer.cpp:224), as long as it
\* is that of the image, which is as long as no offer is misread: up to then an
\* image is given up only where an attempt to store the same image was cut short,
\* or where the user has put something under that name.
GivenUpOverOwnStub ==
  misread = {} =>
    \A p \in given_up : dir[p] \in {<<"other">>, <<"stub", p[2]>>}
=============================================================================
