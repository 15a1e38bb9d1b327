-------------------------- MODULE ImageStoreProof --------------------------
(***************************************************************************)
(* What a peer's directory holds, for every set of images and of names,    *)
(* everything that other peers may hold, every directory in the beginning, *)
(* every size of an offer, and any number of runs, of crashes, of times    *)
(* that the disk is full, and of files made of garbage.                    *)
(***************************************************************************)
EXTENDS ImageStore, FoundMaskProof

\* A run that is over has left nothing; what is offered is offered for good.
Shape ==
  /\ at = "off" => offered = {} /\ offer = <<>> /\ missing_hashes = {} /\ uploads = {}
  /\ at # "off" => runs > 0
  /\ \A k \in DOMAIN offer : offer[k].image \in offered
  /\ library \in Libraries \cup {{}}

IType == TypeOK /\ Shape

\* The file being written has just been made, or was empty; without one, the
\* image has been given up.
Writing ==
  at = "writing" =>
    /\ \A p \in target : dir[p] = <<"empty">>
    /\ target = {} => given_up # {}

\* No image is twice in an offer.
Distinct == \A j, k \in DOMAIN offer : offer[j].image = offer[k].image => j = k

\* As long as no offer of this run was misread, the files that come are those that
\* are awaited, none of them is there yet, and all the others that were offered are.
InStep ==
  at # "off" /\ runs \notin misread =>
    /\ at # "astray"
    /\ uploads = missing_hashes
    /\ \A k \in missing_hashes : offer[k + 1].image \notin Found \cup {image}
    /\ full = 0 /\ given_up = {} =>
         \A i \in offered : \/ i \in Found \/ i = image
                            \/ \E k \in missing_hashes : offer[k + 1].image = i

IInv == IType /\ Writing /\ Distinct /\ InStep

\* What may be at the path that has an image's digest in its name.
Own(i) ==
  {<<"absent">>, <<"empty">>, <<"other">>, <<"stub", i>>, <<"part", i>>, <<"whole", i>>}

Suffixed == {p \in Path : p[2] # NoSuffix}

\* Under the digest of an image there is no other one, nor is one written there.
OwnOnly ==
  misread = {} =>
    /\ \A p \in Suffixed : dir[p] \in Own(p[2])
    /\ target \cap Suffixed \subseteq {p \in Suffixed : p[2] = image}
-----------------------------------------------------------------------------
(* Types. *)

\* What is known of an offer.
LEMMA OfferFacts ==
  ASSUME TypeOK
  PROVE  /\ offer \in Seq(library) /\ Len(offer) \in Nat
         /\ library \in SUBSET File
         /\ \A k \in Positions(Len(offer)) :
              k + 1 \in DOMAIN offer /\ offer[k + 1] \in library /\ offer[k + 1] \in File
<1>1. offer \in Seq(library) /\ library \in SUBSET File /\ Len(offer) \in Nat
  BY DEF TypeOK
<1>2. ASSUME NEW k \in Positions(Len(offer))
      PROVE  k + 1 \in DOMAIN offer /\ offer[k + 1] \in library
  <2>1. k + 1 \in 1..Len(offer)
    BY <1>1, <1>2 DEF Positions
  <2> QED
    BY <1>1, <2>1
<1> QED
  BY <1>1, <1>2

\* The names under which a file that comes may be opened are paths.
LEMMA Paths ==
  ASSUME TypeOK, NEW k \in uploads, NEW l \in missing_hashes
  PROVE  /\ offer[k + 1] \in File /\ offer[l + 1] \in File
         /\ First(k) \in Path /\ Second(k, l) \in Path
         /\ First(k)[2] = NoSuffix /\ Second(k, l)[2] = offer[l + 1].image
<1>1. k \in Positions(Len(offer)) /\ l \in Positions(Len(offer))
  BY DEF TypeOK
<1>2. offer[k + 1] \in File /\ offer[l + 1] \in File
  BY <1>1, OfferFacts
<1>3. offer[k + 1].name \in Name /\ offer[l + 1].image \in Image
  BY <1>2 DEF File
<1> QED
  BY <1>2, <1>3 DEF First, Second, FirstPath, SecondPath, Path

\* What can be written to a path is a content.
LEMMA Contents ==
  ASSUME NEW i \in Image
  PROVE  /\ Truncated(i) \subseteq Content /\ <<"whole", i>> \in Content
         /\ <<"empty">> \in Content
BY DEF Truncated, Content

\* Writing leaves contents everywhere.
LEMMA WriteTyped ==
  ASSUME dir \in [Path -> Content], NEW content, Write(content),
         target = {} \/ content \in Content
  PROVE  dir' \in [Path -> Content]
BY DEF Write

\* Every directory is one of contents.
LEMMA InitType == Init => IType
<1> SUFFICES ASSUME Init PROVE IType
  OBVIOUS
<1>1. library = {} /\ offer = <<>> /\ offer \in Seq(library) /\ Len(offer) = 0
  BY DEF Init
<1>2. OfferMax \in Nat
  BY ImageStoreAssumption
<1> QED
  BY <1>1, <1>2, ImageStoreAssumption DEF Init, IType, TypeOK, Shape

\* A run that ends leaves the types.
LEMMA EndTyped ==
  ASSUME IType, End, dir' \in [Path -> Content], UNCHANGED <<runs, full, garbage>>,
         crashes' \in 0..MaxCrashes
  PROVE  IType'
<1>1. library' = {} /\ offer' = <<>> /\ offer' \in Seq(library') /\ Len(offer') = 0
  BY DEF End
<1>2. OfferMax \in Nat
  BY ImageStoreAssumption
<1> QED
  BY <1>1, <1>2 DEF End, IType, TypeOK, Shape

\* An offer is one of files of the other peer, and its positions are those of it.
LEMMA OfferTyped ==
  ASSUME IType, NEW files \in Offers
  PROVE  LET n == Len(files) IN
         /\ files \in Seq(library) /\ n \in 1..OfferMax /\ n \in Nat
         /\ DOMAIN files = 1..n
         /\ \A k \in DOMAIN files : files[k] \in library /\ files[k].image \in Image
         /\ \A j, k \in DOMAIN files : files[j].image = files[k].image => j = k
         /\ \A k \in DOMAIN files : files[k].image \notin offered
         /\ Held(files) \in SUBSET Positions(n)
         /\ Expected(n, Held(files)) \in SUBSET Positions(n)
         /\ Uploaded(n, Mask(Held(files))) \in SUBSET Positions(n)
<1> DEFINE n == Len(files)
<1>1. OfferMax \in Nat
  BY ImageStoreAssumption
<1>2. PICK m \in 1..OfferMax : files \in [1..m -> library]
  BY DEF Offers
<1>3. m \in Nat /\ files \in Seq(library) /\ n = m /\ DOMAIN files = 1..n
  BY <1>1, <1>2
<1>4. \A k \in DOMAIN files : files[k] \in library /\ files[k].image \in Image
  BY <1>2 DEF IType, TypeOK, File
<1>5. \A j, k \in DOMAIN files : files[j].image = files[k].image => j = k
  <2> SUFFICES ASSUME NEW j \in DOMAIN files, NEW k \in DOMAIN files,
                      files[j].image = files[k].image
               PROVE  j = k
    OBVIOUS
  <2>1. files[j] = files[k]
    BY <1>4, ImageStoreAssumption DEF IType, Shape
  <2> QED
    BY <2>1 DEF Offers, IsInjective
<1>6. \A k \in DOMAIN files : files[k].image \notin offered
  BY DEF Offers
<1>7. /\ Held(files) \in SUBSET Positions(n)
      /\ Expected(n, Held(files)) \in SUBSET Positions(n)
      /\ Uploaded(n, Mask(Held(files))) \in SUBSET Positions(n)
  BY DEF Held, Expected, Uploaded
<1> QED
  BY <1>2, <1>3, <1>4, <1>5, <1>6, <1>7

\* Every step keeps the types.
LEMMA NextType == IType /\ [Next]_vars => IType'
<1> SUFFICES ASSUME IType, [Next]_vars PROVE IType'
  OBVIOUS
<1> USE ImageStoreAssumption
<1>1. CASE Run
  <2>1. library' \in SUBSET File /\ library' \in Libraries
    BY <1>1 DEF Run
  <2>2. offer' = <<>> /\ offer' \in Seq(library') /\ Len(offer') = 0
    BY <1>1 DEF Run, IType, Shape, download
  <2>3. misread' \subseteq 1..runs' /\ runs' \in 0..MaxRuns /\ runs' > 0
    BY <1>1 DEF Run, IType, TypeOK
  <2> QED
    BY <1>1, <2>1, <2>2, <2>3 DEF IType, TypeOK, Shape, Run, download
<1>2. CASE HasherFails
  <2>1. misread' \subseteq 1..runs' /\ runs' \in 0..MaxRuns
    BY <1>2 DEF HasherFails, IType, TypeOK
  <2> QED
    BY <1>2, <2>1 DEF IType, TypeOK, Shape, HasherFails, download
<1>3. CASE Offer
  <2>1. PICK files \in Offers :
          LET n == Len(files)
              held == Held(files)
          IN
          /\ offer' = files
          /\ offered' = offered \cup {files[k].image : k \in DOMAIN files}
          /\ missing_hashes' = Expected(n, held)
          /\ uploads' = Uploaded(n, Mask(held))
          /\ misread' = IF Understood(held) THEN misread ELSE misread \cup {runs}
    BY <1>3 DEF Offer
  <2>2. offered' \in SUBSET Image
    BY <2>1, OfferTyped DEF IType, TypeOK
  <2>3. at = "receiving" /\ image = NoSuffix /\ target = {} /\ runs \in 1..runs
    BY <1>3 DEF Offer, IType, TypeOK, Shape
  <2> QED
    BY <1>3, <2>1, <2>2, <2>3, OfferTyped DEF Offer, bounds, IType, TypeOK, Shape
<1>4. ASSUME NEW k \in uploads, NEW l \in missing_hashes,
             OpenFirst(k, l) \/ OpenSecond(k, l) \/ GiveUp(k, l)
      PROVE  IType'
  <2>1. Receive(k, l)
    BY <1>4 DEF OpenFirst, OpenSecond, GiveUp
  <2>2. dir' \in [Path -> Content]
    <3>1. ASSUME NEW p \in Path, Open(p) PROVE dir' \in [Path -> Content]
      BY <3>1 DEF IType, TypeOK, Open, Content
    <3> QED
      BY <1>4, <3>1, Paths DEF OpenFirst, OpenSecond, GiveUp, IType, TypeOK
  <2>3. target' \subseteq Path /\ \A p, q \in target' : p = q
    BY <1>4, Paths DEF OpenFirst, OpenSecond, GiveUp, IType
  <2>4. given_up' \subseteq Path
    BY <1>4, Paths DEF OpenFirst, OpenSecond, GiveUp, IType, TypeOK
  <2>5. image' \in offered'
    <3>1. k + 1 \in DOMAIN offer
      BY OfferFacts DEF IType, TypeOK
    <3> QED
      BY <2>1, <3>1 DEF Receive, IType, Shape
  <2>6. /\ missing_hashes' \subseteq Positions(Len(offer))
        /\ uploads' \subseteq Positions(Len(offer))
    BY <2>1 DEF Receive, IType, TypeOK
  <2> QED
    BY <2>1, <2>2, <2>3, <2>4, <2>5, <2>6 DEF Receive, bounds, IType, TypeOK, Shape
<1>5. ASSUME NEW content \in Content, at = "writing", Close(content), full' \in 0..MaxFull
      PROVE  IType'
  <2>1. dir' \in [Path -> Content]
    BY <1>5, WriteTyped DEF Close, IType, TypeOK
  <2> QED
    BY <1>5, <2>1 DEF Close, IType, TypeOK, Shape
<1>6. CASE Store
  <2>1. <<"whole", image>> \in Content
    BY <1>6, Contents DEF Store, IType, TypeOK
  <2> QED
    BY <1>5, <1>6, <2>1 DEF Store, IType, TypeOK
<1>7. CASE StoreCut
  <2>1. Truncated(image) \subseteq Content
    BY <1>7, Contents DEF StoreCut, IType, TypeOK
  <2>2. full' \in 0..MaxFull
    BY <1>7 DEF StoreCut, IType, TypeOK
  <2> QED
    BY <1>5, <1>7, <2>1, <2>2 DEF StoreCut
<1>8. CASE Exit \/ EndAstray
  BY <1>8, EndTyped DEF Exit, EndAstray, bounds, IType, TypeOK
<1>9. CASE Desync
  <2>1. CASE End
    BY <1>9, <2>1, EndTyped DEF Desync, bounds, IType, TypeOK
  <2>2. CASE at' = "astray" /\ UNCHANGED <<library, offered, download, given_up, misread>>
    BY <1>9, <2>2 DEF Desync, download, bounds, IType, TypeOK, Shape
  <2> QED
    BY <1>9, <2>1, <2>2 DEF Desync
<1>10. ASSUME NEW p \in Path, StoreAstray(p) PROVE IType'
  <2>1. dir' \in [Path -> Content]
    BY <1>10 DEF StoreAstray, IType, TypeOK
  <2>2. garbage' \in 0..MaxGarbage
    BY <1>10 DEF StoreAstray, IType, TypeOK
  <2> QED
    BY <1>10, <2>1, <2>2 DEF StoreAstray, download, IType, TypeOK, Shape
<1>11. ASSUME NEW p \in Path, GiveUpAstray(p) PROVE IType'
  BY <1>11 DEF GiveUpAstray, download, bounds, IType, TypeOK, Shape
<1>12. CASE Crash
  <2>1. PICK content \in Truncated(image) \cup {<<"whole", image>>} : Write(content)
    BY <1>12 DEF Crash
  <2>2. target = {} \/ content \in Content
    <3>1. CASE at = "writing"
      <4>1. image \in Image
        BY <3>1 DEF IType, TypeOK
      <4> QED
        BY <2>1, <4>1, Contents
    <3>2. CASE at # "writing"
      BY <3>2 DEF IType, TypeOK
    <3> QED
      BY <3>1, <3>2
  <2>3. dir' \in [Path -> Content]
    BY <2>1, <2>2, WriteTyped DEF IType, TypeOK
  <2>4. crashes' \in 0..MaxCrashes
    BY <1>12 DEF Crash, IType, TypeOK
  <2> QED
    BY <1>12, <2>3, <2>4, EndTyped DEF Crash
<1>13. CASE UNCHANGED vars
  BY <1>13 DEF vars, download, bounds, IType, TypeOK, Shape
<1> QED
  BY <1>1, <1>2, <1>3, <1>4, <1>6, <1>7, <1>8, <1>9, <1>10, <1>11, <1>12, <1>13
  DEF Next, Terminated

\* The directory, the counters and what a run has to do keep their types, and a
\* run writes to at most one path.
THEOREM TypeCorrect == Spec => []TypeOK
<1>1. IType => TypeOK
  BY DEF IType
<1> QED
  BY <1>1, InitType, NextType, PTL DEF Spec
-----------------------------------------------------------------------------
(* Nothing is lost. *)

\* A path that is not free keeps what it has, whatever happens.
LEMMA StepKeeps ==
  ASSUME IType, Writing, [Next]_vars, NEW p \in Path, ~Free(p)
  PROVE  dir'[p] = dir[p]
<1> USE DEF IType, TypeOK
<1>1. dir[p] # <<"empty">>
  BY DEF Free
<1>2. p \notin target
  BY <1>1 DEF Writing
<1>3. ASSUME NEW k \in uploads, NEW l \in missing_hashes,
             OpenFirst(k, l) \/ OpenSecond(k, l) \/ GiveUp(k, l)
      PROVE  dir'[p] = dir[p]
  <2>1. ASSUME NEW q \in Path, Free(q), Open(q) PROVE dir'[p] = dir[p]
    BY <2>1 DEF Open
  <2> QED
    BY <1>3, <2>1, Paths DEF OpenFirst, OpenSecond, GiveUp
<1>4. ASSUME NEW content, Write(content) PROVE dir'[p] = dir[p]
  BY <1>2, <1>4 DEF Write
<1>5. CASE Store \/ StoreCut \/ Crash
  BY <1>4, <1>5 DEF Store, StoreCut, Crash, Close
<1>6. ASSUME NEW q \in Path, StoreAstray(q) \/ GiveUpAstray(q) PROVE dir'[p] = dir[p]
  BY <1>6 DEF StoreAstray, GiveUpAstray
<1>7. CASE \/ Run \/ HasherFails \/ Offer \/ Exit \/ Desync \/ EndAstray
           \/ Terminated \/ UNCHANGED vars
  BY <1>7 DEF Run, HasherFails, Offer, Exit, Desync, EndAstray, Terminated, vars
<1> QED
  BY <1>3, <1>5, <1>6, <1>7 DEF Next

\* An image that is in the directory stays there.
LEMMA FoundGrows == IType /\ Writing /\ [Next]_vars => Found \subseteq Found'
<1> SUFFICES ASSUME IType, Writing, [Next]_vars, NEW i \in Found PROVE i \in Found'
  OBVIOUS
<1>1. PICK p \in Path : dir[p] \in {<<"part", i>>, <<"whole", i>>}
  BY DEF Found
<1>2. ~Free(p)
  BY <1>1 DEF Free
<1>3. dir'[p] = dir[p]
  BY <1>2, StepKeeps
<1> QED
  BY <1>1, <1>3 DEF Found

\* A path that was opened is empty, and no image appears by opening it.
LEMMA OpenEmpty ==
  ASSUME IType, NEW p \in Path, Open(p)
  PROVE  dir'[p] = <<"empty">> /\ Found' \subseteq Found
BY DEF Open, Found, IType, TypeOK

\* Whatever is written to the target, only the image itself can be found there.
LEMMA FoundByWriting ==
  ASSUME IType, NEW content \in Truncated(image) \cup {<<"whole", image>>}, Write(content)
  PROVE  Found' \subseteq Found \cup {image}
BY DEF Write, Truncated, Found, IType, TypeOK

\* Every step keeps what holds of the file that is being written.
LEMMA NextWriting == IType /\ Writing /\ [Next]_vars => Writing'
<1> SUFFICES ASSUME IType, Writing, [Next]_vars PROVE Writing'
  OBVIOUS
<1> USE DEF IType, TypeOK
<1>1. ASSUME NEW k \in uploads, NEW l \in missing_hashes,
             OpenFirst(k, l) \/ OpenSecond(k, l) \/ GiveUp(k, l)
      PROVE  Writing'
  <2>1. CASE GiveUp(k, l)
    BY <2>1 DEF GiveUp, Receive, Writing
  <2>2. ASSUME NEW p \in Path, Open(p), target' = {p} PROVE Writing'
    BY <2>2, OpenEmpty DEF Writing
  <2> QED
    BY <1>1, <2>1, <2>2, Paths DEF OpenFirst, OpenSecond
<1>2. CASE at' # "writing"
  BY <1>2 DEF Writing
<1>3. CASE UNCHANGED vars
  BY <1>3 DEF vars, download, Writing
<1>4. CASE \/ Run \/ HasherFails \/ Offer \/ Store \/ StoreCut \/ Exit \/ Desync
           \/ EndAstray \/ Crash \/ Terminated
           \/ \E p \in Path : StoreAstray(p) \/ GiveUpAstray(p)
  <2>1. at' # "writing"
    BY <1>4 DEF Run, HasherFails, Offer, Store, StoreCut, Close, Exit, Desync, End,
      EndAstray, Crash, Terminated, vars, StoreAstray, GiveUpAstray
  <2> QED
    BY <1>2, <2>1
<1> QED
  BY <1>1, <1>3, <1>4 DEF Next

\* An offer is made once.
LEMMA NextDistinct == IType /\ Distinct /\ [Next]_vars => Distinct'
<1> SUFFICES ASSUME IType, Distinct, [Next]_vars PROVE Distinct'
  OBVIOUS
<1>1. CASE UNCHANGED offer
  BY <1>1 DEF Distinct
<1>2. CASE Offer
  BY <1>2, OfferTyped DEF Offer, Distinct
<1>3. CASE offer' = <<>>
  BY <1>3 DEF Distinct
<1>4. UNCHANGED offer \/ Offer \/ offer' = <<>>
  BY DEF Next, Run, HasherFails, OpenFirst, OpenSecond, GiveUp, Receive, Store, StoreCut,
    Close, Exit, Desync, End, EndAstray, Crash, Terminated, vars, download, StoreAstray,
    GiveUpAstray
<1> QED
  BY <1>1, <1>2, <1>3, <1>4

\* An offer that is understood keeps the two ends in step.
LEMMA OfferInStep ==
  ASSUME IInv, Offer
  PROVE  InStep'
<1> SUFFICES ASSUME runs' \notin misread' PROVE InStep'
  BY DEF InStep
<1> USE DEF IInv, IType, TypeOK
<1>1. PICK files \in Offers :
        LET n == Len(files)
            held == Held(files)
        IN
        /\ offer' = files
        /\ offered' = offered \cup {files[k].image : k \in DOMAIN files}
        /\ missing_hashes' = Expected(n, held)
        /\ uploads' = Uploaded(n, Mask(held))
        /\ misread' = IF Understood(held) THEN misread ELSE misread \cup {runs}
  BY DEF Offer
<1> DEFINE n == Len(files)
           held == Held(files)
<1>2. /\ at = "receiving" /\ at' = "receiving" /\ missing_hashes = {} /\ image = NoSuffix
      /\ UNCHANGED <<dir, image, given_up, full, runs>>
  BY DEF Offer, bounds
<1>3. Understood(held) /\ runs \notin misread
  BY <1>1, <1>2
<1>4. /\ n \in Nat /\ held \in SUBSET Positions(n) /\ DOMAIN files = 1..n
      /\ \A k \in DOMAIN files : files[k].image \in Image
  BY OfferTyped
<1>5. uploads' = missing_hashes' /\ missing_hashes' = Positions(n) \ held
  BY <1>1, <1>3, <1>4, ExactlyUnderstood DEF Expected
<1>6. Found' = Found
  BY <1>2 DEF Found
<1>7. \A k \in Positions(n) : k + 1 \in DOMAIN files
  BY <1>4 DEF Positions
<1>8. \A k \in missing_hashes' : offer'[k + 1].image \notin Found' \cup {image'}
  <2> SUFFICES ASSUME NEW k \in Positions(n), k \notin held
               PROVE  files[k + 1].image \notin Found \cup {NoSuffix}
    BY <1>1, <1>2, <1>5, <1>6
  <2>1. files[k + 1].image \notin Found
    BY DEF Held
  <2> QED
    BY <1>4, <1>7, <2>1, ImageStoreAssumption
<1>9. ASSUME full = 0, given_up = {}, NEW i \in offered'
      PROVE  i \in Found \/ \E k \in missing_hashes' : offer'[k + 1].image = i
  <2>1. CASE i \in offered
    BY <1>2, <1>3, <1>9, <2>1, ImageStoreAssumption DEF InStep
  <2>2. CASE i \in {files[k].image : k \in DOMAIN files}
    <3>1. PICK k \in 1..n : files[k].image = i
      BY <1>4, <2>2
    <3>2. k - 1 \in Positions(n) /\ (k - 1) + 1 = k
      BY <1>4 DEF Positions
    <3>3. CASE k - 1 \in held
      BY <3>1, <3>2, <3>3 DEF Held
    <3>4. CASE k - 1 \notin held
      BY <1>1, <1>5, <3>1, <3>2, <3>4
    <3> QED
      BY <3>3, <3>4
  <2> QED
    BY <1>1, <1>9, <2>1, <2>2
<1> QED
  BY <1>2, <1>5, <1>6, <1>8, <1>9 DEF InStep

\* Every step keeps the two ends in step, unless an offer is misread.
LEMMA NextInStep == IInv /\ [Next]_vars => InStep'
<1> SUFFICES ASSUME IInv, [Next]_vars PROVE InStep'
  OBVIOUS
<1>1. Found \subseteq Found'
  BY FoundGrows DEF IInv
<1> USE DEF IInv, IType, TypeOK
<1>2. CASE Run
  <2>1. /\ at' = "receiving" /\ missing_hashes' = {} /\ uploads' = {} /\ offered' = {}
        /\ at' # "astray"
    BY <1>2 DEF Run, Shape, download
  <2> QED
    BY <2>1 DEF InStep
<1>3. CASE at' = "off"
  BY <1>3 DEF InStep
<1>4. ASSUME NEW k \in uploads, NEW l \in missing_hashes,
             OpenFirst(k, l) \/ OpenSecond(k, l) \/ GiveUp(k, l)
      PROVE  InStep'
  <2> SUFFICES ASSUME runs' \notin misread' PROVE InStep'
    BY DEF InStep
  <2>1. Receive(k, l) /\ given_up \subseteq given_up'
    BY <1>4 DEF OpenFirst, OpenSecond, GiveUp
  <2>2. /\ at = "receiving" /\ runs \notin misread /\ uploads = missing_hashes
        /\ image = NoSuffix
    BY <2>1 DEF Receive, bounds, InStep
  <2>3. k = l
    <3>1. k \in Nat /\ l \in Nat /\ k <= l /\ l <= k
      BY <2>1, <2>2 DEF Receive, Least, Positions
    <3> QED
      BY <3>1
  <2>4. /\ uploads' = missing_hashes' /\ missing_hashes' = missing_hashes \ {k}
        /\ image' = offer[k + 1].image /\ at' = "writing"
        /\ UNCHANGED <<offered, offer, full>>
    BY <2>1, <2>2, <2>3 DEF Receive, bounds
  <2>5. Found' \subseteq Found
    BY <1>4, OpenEmpty, Paths DEF OpenFirst, OpenSecond, GiveUp, Found
  <2>6. \A j \in missing_hashes' : offer'[j + 1].image \notin Found' \cup {image'}
    <3> SUFFICES ASSUME NEW j \in missing_hashes, j # k
                 PROVE  offer[j + 1].image \notin Found \cup {offer[k + 1].image}
      BY <2>4, <2>5
    <3>1. j + 1 \in DOMAIN offer /\ k + 1 \in DOMAIN offer /\ j \in Nat /\ k \in Nat
      BY OfferFacts DEF Positions
    <3>2. offer[j + 1].image # offer[k + 1].image
      BY <3>1 DEF Distinct
    <3>3. offer[j + 1].image \notin Found
      BY <2>2 DEF InStep
    <3> QED
      BY <3>2, <3>3
  <2>7. ASSUME full' = 0, given_up' = {}, NEW i \in offered'
        PROVE  \/ i \in Found' \/ i = image'
               \/ \E j \in missing_hashes' : offer'[j + 1].image = i
    <3>1. full = 0 /\ given_up = {} /\ i \in offered /\ i \in Image
      BY <2>1, <2>4, <2>7
    <3>2. i \in Found \/ \E j \in missing_hashes : offer[j + 1].image = i
      BY <2>2, <3>1, ImageStoreAssumption DEF InStep
    <3> QED
      BY <1>1, <2>4, <3>2
  <2> QED
    BY <2>4, <2>6, <2>7 DEF InStep
<1>5. ASSUME NEW content \in Truncated(image) \cup {<<"whole", image>>}, at = "writing",
             Close(content), full' # 0 \/ (content = <<"whole", image>> /\ full' = full)
      PROVE  InStep'
  <2> SUFFICES ASSUME runs' \notin misread' PROVE InStep'
    BY DEF InStep
  <2>1. /\ runs \notin misread /\ uploads = missing_hashes /\ image' = NoSuffix
        /\ at' = "receiving"
        /\ UNCHANGED <<offered, offer, missing_hashes, uploads, given_up>>
    BY <1>5 DEF Close, InStep
  <2>2. Found' \subseteq Found \cup {image}
    BY <1>5, FoundByWriting DEF Close
  <2>3. \A k \in missing_hashes' : offer'[k + 1].image \notin Found' \cup {image'}
    <3> SUFFICES ASSUME NEW k \in missing_hashes
                 PROVE  offer[k + 1].image \notin Found \cup {image, NoSuffix}
      BY <2>1, <2>2
    <3>1. offer[k + 1].image \in Image
      BY OfferFacts DEF File
    <3> QED
      BY <1>5, <2>1, <3>1, ImageStoreAssumption DEF InStep
  <2>4. ASSUME full' = 0, given_up' = {} PROVE image \in Found'
    <3>1. PICK p : p \in target
      BY <1>5, <2>1, <2>4 DEF Writing
    <3>2. dir'[p] = <<"whole", image>> /\ p \in Path /\ image \in Image
      BY <1>5, <2>4, <3>1 DEF Close, Write
    <3> QED
      BY <3>2 DEF Found
  <2>5. ASSUME full' = 0, given_up' = {}, NEW i \in offered'
        PROVE  i \in Found' \/ \E k \in missing_hashes' : offer'[k + 1].image = i
    <3>1. full = 0 /\ given_up = {} /\ i \in offered
      BY <1>5, <2>1, <2>5
    <3>2. i \in Found \/ i = image \/ \E k \in missing_hashes : offer[k + 1].image = i
      BY <1>5, <2>1, <3>1 DEF InStep
    <3> QED
      BY <1>1, <2>1, <2>4, <2>5, <3>2
  <2> QED
    BY <2>1, <2>3, <2>5 DEF InStep
<1>6. CASE Store
  BY <1>5, <1>6 DEF Store
<1>7. CASE StoreCut
  <2>1. full' # 0
    BY <1>7 DEF StoreCut
  <2> QED
    BY <1>5, <1>7, <2>1 DEF StoreCut
<1>8. CASE Desync
  <2>1. runs \in misread
    BY <1>8 DEF Desync, InStep
  <2>2. at' = "off" \/ (UNCHANGED <<runs, misread>>)
    BY <1>8 DEF Desync, End, bounds
  <2> QED
    BY <1>3, <2>1, <2>2 DEF InStep
<1>9. ASSUME NEW p \in Path, StoreAstray(p) \/ GiveUpAstray(p) PROVE InStep'
  <2>1. at = "astray" /\ UNCHANGED <<runs, misread>>
    BY <1>9 DEF StoreAstray, GiveUpAstray, bounds
  <2>2. runs \in misread
    BY <2>1 DEF InStep
  <2> QED
    BY <2>1, <2>2 DEF InStep
<1>10. CASE HasherFails \/ Exit \/ EndAstray \/ Crash
  BY <1>3, <1>10 DEF HasherFails, Exit, EndAstray, Crash, End
<1>11. CASE UNCHANGED vars
  BY <1>11 DEF vars, download, bounds, InStep, Found
<1> QED
  BY <1>2, <1>4, <1>6, <1>7, <1>8, <1>9, <1>10, <1>11, OfferInStep DEF Next, Terminated

\* The invariant behind FilesKept and StatusTells.
LEMMA AlwaysStored == Spec => []IInv
<1>1. Init => IInv
  BY InitType DEF Init, IInv, Writing, Distinct, InStep
<1>2. IInv /\ [Next]_vars => IInv'
  BY NextType, NextWriting, NextDistinct, NextInStep DEF IInv
<1> QED
  BY <1>1, <1>2, PTL DEF Spec

\* No download, in step or astray, writes to a file that has something in it
\* (peer.cpp:222-224).
THEOREM FilesKept == Spec => KeepsFiles
<1>1. IInv /\ [Next]_vars =>
        [\A p \in Path :
           dir[p] \notin {<<"absent">>, <<"empty">>} => dir'[p] = dir[p]]_vars
  BY StepKeeps DEF IInv, Free
<1> QED
  BY <1>1, AlwaysStored, PTL DEF Spec, KeepsFiles

\* Wherever the download may end with an exit status of 0, every image that was
\* offered in this run is there, as long as the disk has not been full and no offer
\* of the run was misread.
THEOREM StatusTells == Spec => []StatusTellsLoss
<1>1. IInv => StatusTellsLoss
  <2> SUFFICES ASSUME IInv, at = "receiving", missing_hashes = {}, given_up = {}, full = 0,
                      runs \notin misread, NEW i \in offered
               PROVE  i \in Found
    BY DEF StatusTellsLoss
  <2>1. image = NoSuffix /\ i \in Image
    BY DEF IInv, IType, TypeOK
  <2> QED
    BY <2>1, ImageStoreAssumption DEF IInv, InStep
<1> QED
  BY <1>1, AlwaysStored, PTL
-----------------------------------------------------------------------------
(* Second names. *)

\* A run that has made no file of garbage is still in step.
LEMMA NotAstray ==
  ASSUME IInv, misread = {}
  PROVE  at # "astray" /\ (at = "receiving" => uploads = missing_hashes)
BY DEF IInv, InStep

\* Every step leaves the paths with a digest to the image of that digest.
LEMMA NextOwnOnly == IInv /\ OwnOnly /\ [Next]_vars => OwnOnly'
<1> SUFFICES ASSUME IInv, OwnOnly, [Next]_vars, misread' = {} PROVE OwnOnly'
  BY DEF OwnOnly
<1> USE DEF IInv, IType, TypeOK
<1>1. misread = {}
  BY DEF Next, Run, HasherFails, Offer, OpenFirst, OpenSecond, GiveUp, Receive, Store, StoreCut,
    Close, Exit, Desync, End, EndAstray, Crash, Terminated, vars, StoreAstray, GiveUpAstray
<1>2. /\ \A p \in Suffixed : dir[p] \in Own(p[2])
      /\ target \cap Suffixed \subseteq {p \in Suffixed : p[2] = image}
  BY <1>1 DEF OwnOnly
<1>3. ASSUME NEW k \in uploads, NEW l \in missing_hashes,
             OpenFirst(k, l) \/ OpenSecond(k, l) \/ GiveUp(k, l)
      PROVE  OwnOnly'
  <2>1. Receive(k, l)
    BY <1>3 DEF OpenFirst, OpenSecond, GiveUp
  <2>2. k = l
    <3>1. uploads = missing_hashes
      BY <1>1, <2>1, NotAstray DEF Receive
    <3>2. k \in Nat /\ l \in Nat /\ k <= l /\ l <= k
      BY <2>1, <3>1 DEF Receive, Least, Positions
    <3> QED
      BY <3>2
  <2>3. ASSUME NEW p \in Path, Open(p), NEW q \in Suffixed
        PROVE  dir'[q] \in Own(q[2])
    BY <1>2, <2>3 DEF Open, Own, Suffixed
  <2>4. \A q \in Suffixed : dir'[q] \in Own(q[2])
    BY <1>2, <1>3, <2>3, Paths DEF OpenFirst, OpenSecond, GiveUp
  <2>5. image' = offer[k + 1].image
    BY <2>1 DEF Receive
  <2>6. target' \cap Suffixed \subseteq {p \in Suffixed : p[2] = image'}
    BY <1>3, <2>2, <2>5, Paths DEF OpenFirst, OpenSecond, GiveUp, Suffixed
  <2> QED
    BY <2>4, <2>6 DEF OwnOnly, Suffixed
<1>4. ASSUME NEW content \in Truncated(image) \cup {<<"whole", image>>}, Write(content),
             target' = {}
      PROVE  OwnOnly'
  <2> SUFFICES ASSUME NEW p \in Suffixed PROVE dir'[p] \in Own(p[2])
    BY <1>4 DEF OwnOnly, Suffixed
  <2>1. CASE p \in target
    <3>1. p[2] = image
      BY <1>2, <2>1
    <3> QED
      BY <1>4, <2>1, <3>1 DEF Write, Truncated, Own, Suffixed
  <2>2. CASE p \notin target
    BY <1>2, <1>4, <2>2 DEF Write, Suffixed
  <2> QED
    BY <2>1, <2>2
<1>5. CASE Store \/ StoreCut \/ Crash
  BY <1>4, <1>5 DEF Store, StoreCut, Crash, Close, End
<1>6. ASSUME NEW p \in Path, StoreAstray(p) \/ GiveUpAstray(p) PROVE FALSE
  BY <1>1, <1>6, NotAstray DEF StoreAstray, GiveUpAstray
<1>7. ASSUME UNCHANGED dir, (UNCHANGED <<target, image>>) \/ target' = {} PROVE OwnOnly'
  BY <1>2, <1>7 DEF OwnOnly, Suffixed
<1>8. CASE \/ Run \/ HasherFails \/ Offer \/ Exit \/ Desync \/ EndAstray
           \/ Terminated \/ UNCHANGED vars
  BY <1>7, <1>8 DEF Run, HasherFails, Offer, Exit, Desync, End, EndAstray, Terminated, vars,
    download
<1> QED
  BY <1>3, <1>5, <1>6, <1>8 DEF Next

\* An image is given up when neither of its names is free, and it is not found.
LEMMA NextGivenUp ==
  IInv /\ OwnOnly /\ GivenUpOverOwnStub /\ [Next]_vars => GivenUpOverOwnStub'
<1> SUFFICES ASSUME IInv, OwnOnly, GivenUpOverOwnStub, [Next]_vars, misread' = {},
                    NEW p \in given_up'
             PROVE  dir'[p] \in {<<"other">>, <<"stub", p[2]>>}
  BY DEF GivenUpOverOwnStub
<1> USE DEF IInv, IType, TypeOK
<1>1. misread = {}
  BY DEF Next, Run, HasherFails, Offer, OpenFirst, OpenSecond, GiveUp, Receive, Store, StoreCut,
    Close, Exit, Desync, End, EndAstray, Crash, Terminated, vars, StoreAstray, GiveUpAstray
<1>2. CASE p \in given_up
  <2>1. dir[p] \in {<<"other">>, <<"stub", p[2]>>} /\ p \in Path
    BY <1>1, <1>2 DEF GivenUpOverOwnStub
  <2>2. ~Free(p)
    BY <2>1 DEF Free
  <2> QED
    BY <2>1, <2>2, StepKeeps
<1>3. CASE p \notin given_up
  <2>1. PICK k \in uploads, l \in missing_hashes : GiveUp(k, l) /\ p = Second(k, l)
    <3>1. ~\E q \in Path : GiveUpAstray(q)
      BY <1>1, NotAstray DEF GiveUpAstray
    <3>2. \A k \in uploads, l \in missing_hashes :
            OpenFirst(k, l) \/ OpenSecond(k, l) => given_up' = given_up
      BY DEF OpenFirst, OpenSecond
    <3>3. \E k \in uploads, l \in missing_hashes : GiveUp(k, l)
      BY <1>3, <3>1, <3>2 DEF Next, Run, HasherFails, Offer, Store, StoreCut, Close, Exit,
        Desync, End, EndAstray, Crash, Terminated, vars, StoreAstray
    <3> QED
      BY <1>3, <3>3 DEF GiveUp
  <2>2. /\ p \in Suffixed /\ p[2] = offer[l + 1].image /\ dir' = dir /\ ~Free(p)
    <3>1. offer[l + 1].image \in Image
      BY Paths DEF File
    <3> QED
      BY <2>1, <3>1, Paths, ImageStoreAssumption DEF GiveUp, Suffixed
  <2>3. offer[l + 1].image \notin Found
    BY <1>1, <2>1 DEF InStep, GiveUp, Receive
  <2>4. dir[p] \in Own(p[2]) \ {<<"absent">>, <<"empty">>}
    BY <1>1, <2>2 DEF Free, OwnOnly
  <2>5. dir[p] \notin {<<"part", p[2]>>, <<"whole", p[2]>>}
    BY <2>2, <2>3 DEF Found, Suffixed, Path
  <2> QED
    BY <2>2, <2>4, <2>5 DEF Own
<1> QED
  BY <1>2, <1>3

\* As long as no image lies under the digest of another one in the beginning, images
\* do not push each other out of the way before an offer is misread: one is given up
\* only where an attempt to store the same image was cut short, or over something
\* that is none.
THEOREM GivenUpOverOwn ==
  ASSUME \A d \in Directories : \A p \in Suffixed : d[p] \in Own(p[2])
  PROVE  Spec => []GivenUpOverOwnStub
<1>1. Init => OwnOnly /\ GivenUpOverOwnStub
  BY DEF Init, OwnOnly, GivenUpOverOwnStub
<1>2. IInv /\ OwnOnly /\ GivenUpOverOwnStub /\ [Next]_vars
        => OwnOnly' /\ GivenUpOverOwnStub'
  BY NextOwnOnly, NextGivenUp
<1> QED
  BY <1>1, <1>2, AlwaysStored, PTL DEF Spec
=============================================================================
