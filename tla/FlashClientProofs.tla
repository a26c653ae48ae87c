------------------------- MODULE FlashClientProofs -------------------------
(***************************************************************************)
(* What the clients that flash boards promise: the flash page, for any     *)
(* number of images, binaries and presses of its button, and the flash     *)
(* commands, for any number of images, jobs, attempts and requests sent    *)
(* again.                                                                  *)
(***************************************************************************)
EXTENDS MCJobDispatch, JobDispatchProofs, FiniteSetTheorems, SequenceTheorems

(* The flash page.                                                         *)

\* The parts of attempt a that are on their way.
PartsOf(a) == {b \in Binaries : \E u \in uploads : u.att = a /\ u.part = b}

Polls(j) == poll[j] \in {"timer", "asks"}

\* The uploads of an attempt are of the image it was pressed for, and there are no
\* more of them than are awaited.
UploadsSound ==
  /\ \A u \in uploads : u.att # 0 => u.att <= Len(attempts) /\ u.image = attempts[u.att]
  /\ \A a \in Attempts : arrived[a] + Cardinality(PartsOf(a)) <= Cardinality(Binaries)

\* Nothing happens before its attempt.
NotBefore ==
  /\ \A s \in submits : s.att <= Len(attempts)
  /\ \A a \in Attempts : a > Len(attempts) => arrived[a] = 0 /\ poll[a] = "off"

\* One attempt is under way, the last, and it is at one stage: uploads, submission
\* or poll.
OneStage ==
  /\ \A a \in Attempts : UnderWay(a) => a = Len(attempts)
  /\ \A s \in submits : ~ Polls(s.att) /\ PartsOf(s.att) = {} /\ s.image = attempts[s.att]
  /\ \A s, t \in submits : s = t
  /\ \A a \in Attempts : Polls(a) => PartsOf(a) = {}

\* All that was to be uploaded for attempt a has arrived or is on its way.
AllAwaited(a) == arrived[a] + Cardinality(PartsOf(a)) = Cardinality(Binaries)

\* Once flashInProgress has been reset, at most uploads are still under way, and
\* some upload of the same attempt has failed.
Settled ==
  ~ page.busy => /\ submits = {}
                 /\ \A a \in Attempts : ~ Polls(a) /\ (PartsOf(a) = {} \/ ~ AllAwaited(a))

\* When none of the uploads of the last attempt has failed, its app is on the way
\* or is the file that will be submitted.
AppAwaited ==
  \A a \in Attempts :
    a = Len(attempts) /\ AllAwaited(a) => "app" \in PartsOf(a) \/ page.app = attempts[a]

WebInv ==
  /\ WebTypeOK /\ UploadsSound /\ NotBefore
  /\ ~ hasty => OneStage /\ Settled /\ AppAwaited
-----------------------------------------------------------------------------
(* Sizes and types.                                                         *)

UploadType ==
  [att : {0}, part : {"file"}, image : PageImages] \cup [att : Attempts, part : Binaries, image : PageImages]

LEMMA Numbers ==
  /\ MaxAttempts \in Nat /\ MaxAttempts > 0 /\ 0 \notin Attempts /\ Attempts \subseteq Nat
  /\ "app" \in Binaries /\ "file" \notin Binaries /\ IsFiniteSet(Binaries)
  /\ Cardinality(Binaries) \in Nat /\ Cardinality(Binaries) > 0
  /\ NoImage \notin PageImages
<1>1. MaxAttempts \in Nat \ {0} /\ "app" \in Binaries /\ "file" \notin Binaries /\ IsFiniteSet(Binaries)
      /\ NoImage \notin PageImages
  BY WebAssumption DEF WebAssumption
<1>2. Cardinality(Binaries) \in Nat /\ Cardinality(Binaries) # 0
  BY <1>1, FS_CardinalityType, FS_EmptySet
<1>3. QED
  BY <1>1, <1>2 DEF Attempts

\* What has not arrived of an attempt, counted.
LEMMA PartsCounted ==
  ASSUME NEW S, S \subseteq Binaries
  PROVE  /\ IsFiniteSet(S) /\ Cardinality(S) \in Nat /\ Cardinality(S) <= Cardinality(Binaries)
         /\ (Cardinality(S) = 0 <=> S = {})
<1>1. IsFiniteSet(S) /\ Cardinality(S) <= Cardinality(Binaries)
  BY Numbers, FS_Subset
<1>2. QED
  BY <1>1, FS_CardinalityType, FS_EmptySet

LEMMA PressesCounted ==
  ASSUME WebTypeOK PROVE /\ attempts \in Seq(PageImages) /\ Len(attempts) \in 0..MaxAttempts
                         /\ attempts \in [1..Len(attempts) -> PageImages]
<1>1. PICK n \in 0..MaxAttempts : attempts \in [1..n -> PageImages]
  BY DEF WebTypeOK
<1>2. n \in Nat /\ DOMAIN attempts = 1..n
  BY <1>1, Numbers
<1>3. attempts \in Seq(PageImages)
  BY <1>1, <1>2, SeqDef
<1>4. Len(attempts) = n
  BY <1>2, <1>3, LenProperties
<1>5. QED
  BY <1>1, <1>3, <1>4

LEMMA Typed ==
  ASSUME WebTypeOK PROVE /\ \A u \in uploads : u \in UploadType
                         /\ \A u \in uploads : u.att = 0 \/ (u.att \in Attempts /\ u.part \in Binaries)
                         /\ \A u \in uploads : u.image \in PageImages
                         /\ \A s \in submits : s.att \in Attempts
<1>1. \A u \in uploads : u \in UploadType
  BY DEF WebTypeOK, UploadType
<1>2. ASSUME NEW u \in UploadType
      PROVE  (u.att = 0 \/ (u.att \in Attempts /\ u.part \in Binaries)) /\ u.image \in PageImages
  <2>1. CASE u \in [att : {0}, part : {"file"}, image : PageImages]
    <3>1. u.att \in {0} /\ u.image \in PageImages
      BY <2>1
    <3>2. QED
      BY <3>1
  <2>2. CASE u \in [att : Attempts, part : Binaries, image : PageImages]
    BY <2>2
  <2>3. QED
    BY <2>1, <2>2 DEF UploadType
<1>3. \A s \in submits : s.att \in Attempts
  BY DEF WebTypeOK
<1>4. QED
  BY <1>1, <1>2, <1>3

\* An upload that ends is no longer among the parts of its attempt.
LEMMA UploadGone ==
  ASSUME WebTypeOK, UploadsSound, NEW u \in uploads, uploads' = uploads \ {u}, UNCHANGED attempts
  PROVE  /\ \A a \in Attempts : PartsOf(a)' = IF a = u.att THEN PartsOf(a) \ {u.part} ELSE PartsOf(a)
         /\ u.att # 0 => /\ u.part \in PartsOf(u.att)
                         /\ Cardinality(PartsOf(u.att)') = Cardinality(PartsOf(u.att)) - 1
<1>1. ASSUME NEW v \in uploads, v.att = u.att, v.part = u.part, u.att # 0 PROVE v = u
  <2>1. v.image = u.image
    BY <1>1 DEF UploadsSound
  <2>2. u \in [att : Attempts, part : Binaries, image : PageImages]
        /\ v \in [att : Attempts, part : Binaries, image : PageImages]
    BY <1>1, Typed DEF UploadType
  <2>3. QED
    BY <1>1, <2>1, <2>2
<1>2. \A a \in Attempts : PartsOf(a)' = IF a = u.att THEN PartsOf(a) \ {u.part} ELSE PartsOf(a)
  <2> SUFFICES ASSUME NEW a \in Attempts
               PROVE  PartsOf(a)' = IF a = u.att THEN PartsOf(a) \ {u.part} ELSE PartsOf(a)
    OBVIOUS
  <2>1. a # 0
    BY Numbers
  <2>2. CASE a = u.att
    BY <1>1, <2>1, <2>2 DEF PartsOf
  <2>3. CASE a # u.att
    BY <2>3 DEF PartsOf
  <2>4. QED
    BY <2>2, <2>3
<1>3. ASSUME u.att # 0
      PROVE  u.part \in PartsOf(u.att) /\ Cardinality(PartsOf(u.att)') = Cardinality(PartsOf(u.att)) - 1
  <2>1. u.att \in Attempts /\ u.part \in Binaries
    BY <1>3, Typed
  <2>2. u.part \in PartsOf(u.att)
    BY <2>1 DEF PartsOf
  <2>3. PartsOf(u.att)' = PartsOf(u.att) \ {u.part}
    BY <1>2, <2>1
  <2>4. PartsOf(u.att) \subseteq Binaries
    BY DEF PartsOf
  <2>5. QED
    BY <2>2, <2>3, <2>4, PartsCounted, FS_RemoveElement
<1>4. QED
  BY <1>2, <1>3

-----------------------------------------------------------------------------
LEMMA WebInitInv == WebInit => WebInv
<1> SUFFICES ASSUME WebInit PROVE WebInv
  OBVIOUS
<1>1. \A a \in Attempts : PartsOf(a) = {}
  BY DEF WebInit, PartsOf
<1>2. Len(attempts) = 0 /\ attempts \in [1..0 -> PageImages]
  BY DEF WebInit
<1>3. WebTypeOK
  <2>1. \E k \in 0..MaxAttempts : attempts \in [1..k -> PageImages]
    BY <1>2, Numbers
  <2>2. page \in [busy : BOOLEAN, file : AnyImage, app : AnyImage, project : AnyImage]
    BY DEF WebInit, AnyImage
  <2>3. arrived \in [Attempts -> 0..Cardinality(Binaries)]
    BY Numbers DEF WebInit
  <2>4. uploads = {} /\ submits = {} /\ {hasty, lost} \subseteq BOOLEAN
    BY DEF WebInit
  <2>5. poll \in [Attempts -> {"off", "timer", "asks", "success"}]
        /\ listed \in [Attempts -> {"none", "active", "completed", "failed", "cancelled"}]
    BY DEF WebInit
  <2>6. QED
    BY <2>1, <2>2, <2>3, <2>4, <2>5 DEF WebTypeOK
<1>4. UploadsSound /\ NotBefore
  <2>1. \A a \in Attempts : arrived[a] = 0 /\ Cardinality(PartsOf(a)) = 0 /\ poll[a] = "off"
    BY <1>1, FS_EmptySet DEF WebInit
  <2>2. uploads = {} /\ submits = {}
    BY DEF WebInit
  <2>3. QED
    BY <2>1, <2>2, Numbers DEF UploadsSound, NotBefore
<1>5. OneStage /\ Settled
  BY <1>1, Numbers DEF WebInit, OneStage, Settled, UnderWay, Polls
<1>6. AppAwaited
  BY <1>2, Numbers DEF AppAwaited
<1>7. QED
  BY <1>3, <1>4, <1>5, <1>6 DEF WebInv

\* What the flash of an attempt consists of does not change when nothing of it does.
LEMMA PartsKept == ASSUME UNCHANGED uploads, NEW a PROVE PartsOf(a)' = PartsOf(a)
  BY DEF PartsOf
-----------------------------------------------------------------------------
(* The user.                                                                *)

LEMMA FileSelected ==
  ASSUME WebInv, NEW i \in PageImages, SelectFile(i) PROVE WebInv'
<1> USE DEF WebInv
<1>1. \A a \in Attempts : PartsOf(a)' = PartsOf(a) /\ (UnderWay(a)' <=> UnderWay(a))
  BY Numbers DEF SelectFile, PartsOf, UnderWay
<1>2. WebTypeOK'
  BY DEF SelectFile, WebTypeOK
<1>3. UploadsSound' /\ NotBefore'
  BY <1>1 DEF SelectFile, UploadsSound, NotBefore
<1>4. ~ hasty' => OneStage' /\ Settled' /\ AppAwaited'
  BY <1>1, Typed DEF SelectFile, OneStage, Settled, AppAwaited, Polls, AllAwaited
<1>5. QED
  BY <1>2, <1>3, <1>4

LEMMA FolderSelected ==
  ASSUME WebInv, NEW i \in AnyImage, SelectFolder(i) PROVE WebInv'
<1> USE DEF WebInv
<1>1. \A a \in Attempts : PartsOf(a)' = PartsOf(a) /\ (UnderWay(a)' <=> UnderWay(a))
  BY PartsKept DEF SelectFolder, UnderWay
<1>2. WebTypeOK'
  BY DEF SelectFolder, WebTypeOK
<1>3. UploadsSound' /\ NotBefore'
  BY <1>1 DEF SelectFolder, UploadsSound, NotBefore
<1>4. page'.busy = page.busy /\ page'.app = page.app
  BY DEF SelectFolder, WebTypeOK
<1>5. ~ hasty' => OneStage' /\ Settled' /\ AppAwaited'
  BY <1>1, <1>4, Typed DEF SelectFolder, OneStage, Settled, AppAwaited, Polls, AllAwaited
<1>6. QED
  BY <1>2, <1>3, <1>5

LEMMA PressedAs ==
  ASSUME WebInv, Press, NEW n, n = Len(attempts) + 1,
         NEW image, image = IF page.project # NoImage THEN page.project ELSE page.file
  PROVE  WebInv'
<1> USE DEF WebInv
<1> DEFINE ups == [att : {n}, part : Binaries, image : {image}]
           sub == [att |-> n, image |-> image, answer |-> "none"]
<1>1. /\ n \in Attempts /\ n \in Nat /\ ~ page.busy /\ image \in PageImages
      /\ page' = [page EXCEPT !.busy = TRUE] /\ attempts' = Append(attempts, image)
      /\ hasty' = (hasty \/ \E u \in uploads : u.att # 0)
      /\ UNCHANGED <<arrived, poll, listed, lost>>
      /\ \/ uploads' = uploads \cup ups /\ UNCHANGED submits
         \/ submits' = submits \cup {sub} /\ UNCHANGED uploads
  <2>1. page.project \in AnyImage /\ page.file \in AnyImage
    BY DEF WebTypeOK
  <2>2. QED
    BY <2>1, PressesCounted DEF Press, AnyImage
<1>2. /\ Len(attempts') = n /\ attempts'[n] = image
      /\ \A k \in 1..Len(attempts) : attempts'[k] = attempts[k]
      /\ attempts' \in [1..n -> PageImages]
  <2>1. attempts \in Seq(PageImages) /\ attempts' = Append(attempts, image) /\ image \in PageImages
    BY <1>1, PressesCounted
  <2>2. /\ attempts' \in Seq(PageImages) /\ Len(attempts') = n /\ attempts'[n] = image
        /\ \A k \in 1..Len(attempts) : attempts'[k] = attempts[k]
    BY <2>1, AppendProperties
  <2>3. QED
    BY <2>2, LenProperties
<1>3. WebTypeOK'
  <2>1. \E k \in 0..MaxAttempts : attempts' \in [1..k -> PageImages]
    BY <1>1, <1>2, Numbers DEF Attempts
  <2>2. uploads' \subseteq UploadType
    BY <1>1 DEF WebTypeOK, UploadType
  <2>3. submits' \subseteq [att : Attempts, image : AnyImage, answer : {"none", "refused", "made"}]
    BY <1>1 DEF WebTypeOK, AnyImage
  <2>4. page' \in [busy : BOOLEAN, file : AnyImage, app : AnyImage, project : AnyImage]
        /\ hasty' \in BOOLEAN
    BY <1>1 DEF WebTypeOK
  <2>5. QED
    BY <1>1, <2>1, <2>2, <2>3, <2>4 DEF WebTypeOK, UploadType
<1>4. PartsOf(n) = {} /\ arrived[n] = 0 /\ poll[n] = "off"
  BY <1>1 DEF UploadsSound, NotBefore, PartsOf
<1>5. \A a \in Attempts \ {n} : PartsOf(a)' = PartsOf(a)
  BY <1>1 DEF PartsOf
<1>6. CASE uploads' = uploads \cup ups /\ UNCHANGED submits
  <2>1. PartsOf(n)' = Binaries
    <3>1. ASSUME NEW b \in Binaries PROVE \E u \in ups : u.att = n /\ u.part = b
      <4>1. [att |-> n, part |-> b, image |-> image] \in ups
        OBVIOUS
      <4>2. QED
        BY <4>1
    <3>2. QED
      BY <1>6, <3>1 DEF PartsOf
  <2>2. UploadsSound'
    <3>1. ASSUME NEW u \in uploads', u.att # 0 PROVE u.att <= n /\ u.image = attempts'[u.att]
      <4>1. CASE u \in ups
        BY <1>1, <1>2, <4>1
      <4>2. CASE u \in uploads
        <5>1. u.att \in Attempts /\ u.att <= Len(attempts) /\ u.image = attempts[u.att]
          BY <3>1, <4>2, Typed DEF UploadsSound
        <5>2. QED
          BY <1>2, <5>1, Numbers, PressesCounted DEF Attempts
      <4>3. QED
        BY <1>6, <4>1, <4>2
    <3>2. ASSUME NEW a \in Attempts PROVE arrived'[a] + Cardinality(PartsOf(a)') <= Cardinality(Binaries)
      <4>1. CASE a = n
        BY <1>1, <1>4, <2>1, <4>1, Numbers
      <4>2. CASE a # n
        BY <1>1, <1>5, <4>2 DEF UploadsSound
      <4>3. QED
        BY <4>1, <4>2
    <3>3. QED
      BY <1>2, <3>1, <3>2 DEF UploadsSound
  <2>3. NotBefore'
    BY <1>1, <1>2, <1>6, Typed, PressesCounted, Numbers DEF NotBefore
  <2>4. ASSUME ~ hasty' PROVE OneStage' /\ Settled' /\ AppAwaited'
    <3>1. submits = {} /\ (\A a \in Attempts : ~ Polls(a)) /\ (\A u \in uploads : u.att = 0)
      BY <1>1, <2>4 DEF Settled
    <3>2. \A a \in Attempts : UnderWay(a)' => a = n
      BY <1>1, <1>6, <3>1, Numbers DEF UnderWay, Polls
    <3>3. OneStage'
      BY <1>1, <1>2, <1>6, <3>1, <3>2 DEF OneStage, Polls
    <3>4. Settled'
      BY <1>1 DEF Settled, WebTypeOK
    <3>5. AppAwaited'
      <4>1. "app" \in PartsOf(n)'
        BY <2>1, Numbers
      <4>2. QED
        BY <1>2, <4>1 DEF AppAwaited
    <3>6. QED
      BY <3>3, <3>4, <3>5
  <2>5. QED
    BY <1>3, <2>2, <2>3, <2>4
<1>7. CASE submits' = submits \cup {sub} /\ UNCHANGED uploads
  <2>1. \A a \in Attempts : PartsOf(a)' = PartsOf(a)
    BY <1>7, PartsKept
  <2>2. UploadsSound'
    <3>1. ASSUME NEW u \in uploads, u.att # 0 PROVE u.att <= n /\ u.image = attempts'[u.att]
      <4>1. u.att \in Attempts /\ u.att <= Len(attempts) /\ u.image = attempts[u.att]
        BY <3>1, Typed DEF UploadsSound
      <4>2. QED
        BY <1>2, <4>1, Numbers, PressesCounted DEF Attempts
    <3>2. QED
      BY <1>1, <1>2, <1>7, <2>1, <3>1 DEF UploadsSound
  <2>3. NotBefore'
    BY <1>1, <1>2, <1>7, Typed, PressesCounted, Numbers DEF NotBefore
  <2>4. ASSUME ~ hasty' PROVE OneStage' /\ Settled' /\ AppAwaited'
    <3>1. submits = {} /\ (\A a \in Attempts : ~ Polls(a)) /\ (\A u \in uploads : u.att = 0)
      BY <1>1, <2>4 DEF Settled
    <3>2. \A a \in Attempts : UnderWay(a)' => a = n
      BY <1>1, <1>7, <3>1, Numbers DEF UnderWay, Polls
    <3>3. OneStage'
      BY <1>1, <1>2, <1>4, <1>7, <2>1, <3>1, <3>2 DEF OneStage, Polls
    <3>4. Settled'
      BY <1>1 DEF Settled, WebTypeOK
    <3>5. AppAwaited'
      <4>1. PartsOf(n)' = {} /\ arrived'[n] = 0
        BY <1>1, <1>4, <2>1
      <4>2. ~ AllAwaited(n)'
        <5>1. Cardinality(PartsOf(n)') = 0
          BY <4>1, FS_EmptySet
        <5>2. QED
          BY <4>1, <5>1, Numbers DEF AllAwaited
      <4>3. QED
        BY <1>2, <4>2 DEF AppAwaited
    <3>6. QED
      BY <3>3, <3>4, <3>5
  <2>5. QED
    BY <1>3, <2>2, <2>3, <2>4
<1>8. QED
  BY <1>1, <1>6, <1>7

LEMMA Pressed == ASSUME WebInv, Press PROVE WebInv'
  BY PressedAs

-----------------------------------------------------------------------------
(* Uploads.                                                                 *)

\* A failed or lost upload leaves its attempt incomplete for good.
LEMMA UploadDropped ==
  ASSUME WebInv, NEW u \in uploads, uploads' = uploads \ {u},
         UNCHANGED <<arrived, submits, poll, listed, attempts, hasty>>,
         lost' \in BOOLEAN, page' = page \/ (u.att # 0 /\ page' = [page EXCEPT !.busy = FALSE])
  PROVE  WebInv'
<1> USE DEF WebInv
<1>1. /\ \A a \in Attempts : PartsOf(a)' = IF a = u.att THEN PartsOf(a) \ {u.part} ELSE PartsOf(a)
      /\ u.att # 0 => /\ u.part \in PartsOf(u.att)
                      /\ Cardinality(PartsOf(u.att)') = Cardinality(PartsOf(u.att)) - 1
  BY UploadGone
<1>2. \A a \in Attempts : PartsOf(a) \subseteq Binaries /\ PartsOf(a)' \subseteq PartsOf(a)
  BY <1>1 DEF PartsOf
<1>3. \A a \in Attempts : arrived[a] \in Nat /\ Cardinality(PartsOf(a)) \in Nat
  BY <1>2, PartsCounted, Numbers DEF WebTypeOK
<1>4. WebTypeOK'
  <2>1. page' \in [busy : BOOLEAN, file : AnyImage, app : AnyImage, project : AnyImage]
    BY DEF WebTypeOK
  <2>2. uploads' \subseteq uploads
    OBVIOUS
  <2>3. QED
    BY <2>1, <2>2 DEF WebTypeOK
<1>5. u.att = 0 \/ u.att \in Attempts
  BY Typed
<1>6. UploadsSound'
  <2>1. ASSUME NEW a \in Attempts PROVE arrived[a] + Cardinality(PartsOf(a)') <= Cardinality(Binaries)
    <3>1. CASE a = u.att
      BY <1>1, <1>3, <3>1, Numbers DEF UploadsSound
    <3>2. CASE a # u.att
      BY <1>1, <3>2 DEF UploadsSound
    <3>3. QED
      BY <3>1, <3>2
  <2>2. QED
    BY <2>1 DEF UploadsSound
<1>7. NotBefore'
  BY DEF NotBefore
<1>8. ASSUME ~ hasty' PROVE OneStage' /\ Settled' /\ AppAwaited'
  <2>1. OneStage /\ Settled /\ AppAwaited
    BY <1>8
  <2>2. \A a \in Attempts : UnderWay(a)' => UnderWay(a)
    BY DEF UnderWay
  <2>3. \A s \in submits : s.att \in Attempts
    BY Typed
  <2>4. OneStage'
    BY <1>2, <2>1, <2>2, <2>3 DEF OneStage, Polls
  <2>5. \A a \in Attempts : AllAwaited(a)' => AllAwaited(a) /\ PartsOf(a)' = PartsOf(a)
    <3> SUFFICES ASSUME NEW a \in Attempts, AllAwaited(a)' PROVE AllAwaited(a) /\ PartsOf(a)' = PartsOf(a)
      OBVIOUS
    <3>1. a # u.att
      <4> SUFFICES ASSUME a = u.att PROVE FALSE
        OBVIOUS
      <4>1. u.att # 0 /\ u.att \in Attempts
        BY Numbers
      <4>2. arrived[u.att] + Cardinality(PartsOf(u.att)) <= Cardinality(Binaries)
        BY <4>1 DEF UploadsSound
      <4>3. arrived[u.att] + Cardinality(PartsOf(u.att)) - 1 = Cardinality(Binaries)
        BY <1>1, <1>3, <4>1 DEF AllAwaited
      <4>4. QED
        BY <1>3, <4>1, <4>2, <4>3, Numbers
    <3>2. QED
      BY <1>1, <3>1 DEF AllAwaited
  <2>6. Settled'
    <3>1. CASE page' = page
      BY <1>2, <2>1, <2>5, <3>1 DEF Settled, Polls
    <3>2. CASE u.att # 0 /\ page' = [page EXCEPT !.busy = FALSE]
      <4>1. u.att \in Attempts /\ PartsOf(u.att) # {} /\ u.att = Len(attempts)
        BY <1>1, <1>5, <2>1, <3>2 DEF OneStage, UnderWay
      <4>2. submits = {}
        BY <2>1, <2>3, <4>1 DEF OneStage, UnderWay
      <4>3. \A a \in Attempts : ~ Polls(a)
        BY <2>1, <4>1 DEF OneStage, UnderWay, Polls
      <4>4. ~ AllAwaited(u.att)'
        BY <1>1, <2>5, <3>2, <4>1
      <4>5. \A a \in Attempts \ {u.att} : PartsOf(a) = {}
        BY <2>1, <4>1, Numbers DEF OneStage, UnderWay, PartsOf
      <4>6. QED
        BY <1>2, <4>2, <4>3, <4>4, <4>5 DEF Settled, Polls
    <3>3. QED
      BY <3>1, <3>2
  <2>7. AppAwaited'
    <3>1. page'.app = page.app
      BY DEF WebTypeOK
    <3>2. QED
      BY <2>1, <2>5, <3>1 DEF AppAwaited
  <2>8. QED
    BY <2>4, <2>6, <2>7
<1>9. QED
  BY <1>4, <1>6, <1>7, <1>8

LEMMA UploadFailed == ASSUME WebInv, NEW u \in uploads, UploadFails(u) \/ UploadLost(u) PROVE WebInv'
<1>1. CASE UploadFails(u)
  <2>1. lost' \in BOOLEAN
    BY <1>1 DEF UploadFails, WebInv, WebTypeOK
  <2>2. QED
    BY <1>1, <2>1, UploadDropped DEF UploadFails
<1>2. CASE UploadLost(u)
  BY <1>2, UploadDropped DEF UploadLost
<1>3. QED
  BY <1>1, <1>2

\* An upload that arrives may complete its attempt, whose app is then submitted.
LEMMA UploadArrived == ASSUME WebInv, NEW u \in uploads, UploadDone(u) PROVE WebInv'
<1> USE DEF WebInv
<1> DEFINE filed == CASE u.part = "file" -> [page EXCEPT !.file = u.image]
                      [] u.part = "app" -> [page EXCEPT !.file = u.image, !.app = u.image]
                      [] OTHER -> page
           sub == [att |-> u.att, image |-> filed.app, answer |-> "none"]
<1>1. /\ uploads' = uploads \ {u} /\ UNCHANGED <<poll, listed, attempts, hasty, lost>>
      /\ u.att = 0 => page' = filed /\ UNCHANGED <<arrived, submits>>
      /\ u.att # 0 => /\ arrived' = [arrived EXCEPT ![u.att] = @ + 1]
                      /\ \/ page' = filed /\ arrived'[u.att] < Cardinality(Binaries) /\ UNCHANGED submits
                         \/ /\ page' = filed /\ ~ (arrived'[u.att] < Cardinality(Binaries))
                            /\ submits' = submits \cup {sub}
                         \/ /\ arrived'[u.att] = Cardinality(Binaries)
                            /\ page' = [filed EXCEPT !.busy = FALSE] /\ UNCHANGED submits
  BY DEF UploadDone
<1>2. /\ \A a \in Attempts : PartsOf(a)' = IF a = u.att THEN PartsOf(a) \ {u.part} ELSE PartsOf(a)
      /\ u.att # 0 => /\ u.part \in PartsOf(u.att)
                      /\ Cardinality(PartsOf(u.att)') = Cardinality(PartsOf(u.att)) - 1
  BY <1>1, UploadGone
<1>3. \A a \in Attempts : PartsOf(a) \subseteq Binaries /\ PartsOf(a)' \subseteq PartsOf(a)
  BY <1>2 DEF PartsOf
<1>4. \A a \in Attempts : /\ arrived[a] \in Nat /\ Cardinality(PartsOf(a)) \in Nat
                          /\ Cardinality(PartsOf(a)') \in Nat
                          /\ (Cardinality(PartsOf(a)') = 0 <=> PartsOf(a)' = {})
  <2> SUFFICES ASSUME NEW a \in Attempts
               PROVE  /\ arrived[a] \in Nat /\ Cardinality(PartsOf(a)) \in Nat
                      /\ Cardinality(PartsOf(a)') \in Nat
                      /\ (Cardinality(PartsOf(a)') = 0 <=> PartsOf(a)' = {})
    OBVIOUS
  <2>1. PartsOf(a) \subseteq Binaries /\ PartsOf(a)' \subseteq Binaries
    BY <1>3
  <2>2. Cardinality(PartsOf(a)) \in Nat /\ Cardinality(PartsOf(a)') \in Nat
        /\ (Cardinality(PartsOf(a)') = 0 <=> PartsOf(a)' = {})
    BY <2>1, PartsCounted
  <2>3. QED
    BY <2>2, Numbers DEF WebTypeOK
<1>5. /\ filed \in [busy : BOOLEAN, file : AnyImage, app : AnyImage, project : AnyImage]
      /\ filed.busy = page.busy /\ filed.app = IF u.part = "app" THEN u.image ELSE page.app
  <2>1. u.image \in AnyImage
    BY Typed DEF AnyImage
  <2>2. page \in [busy : BOOLEAN, file : AnyImage, app : AnyImage, project : AnyImage]
    BY DEF WebTypeOK
  <2>3. CASE u.part = "file"
    BY <2>1, <2>2, <2>3
  <2>4. CASE u.part = "app"
    BY <2>1, <2>2, <2>4
  <2>5. CASE u.part # "file" /\ u.part # "app"
    BY <2>2, <2>5
  <2>6. QED
    BY <2>3, <2>4, <2>5
<1> HIDE DEF filed
<1>6. u.att = 0 \/ (u.att \in Attempts /\ u.part \in Binaries)
  BY Typed
<1>7. CASE u.att = 0
  <2>1. u.part = "file"
    <3>1. u \notin [att : Attempts, part : Binaries, image : PageImages]
      BY <1>7, Numbers
    <3>2. u \in [att : {0}, part : {"file"}, image : PageImages]
      BY <3>1, Typed DEF UploadType
    <3>3. QED
      BY <3>2
  <2>2. \A a \in Attempts : PartsOf(a)' = PartsOf(a)
    BY <1>2, <1>7, Numbers
  <2>3. page'.busy = page.busy /\ page'.app = page.app /\ UNCHANGED <<arrived, submits>>
    BY <1>1, <1>5, <1>7, <2>1
  <2>4. WebTypeOK'
    BY <1>1, <1>5, <1>7 DEF WebTypeOK
  <2>5. UploadsSound' /\ NotBefore'
    BY <1>1, <2>2, <2>3 DEF UploadsSound, NotBefore
  <2>6. \A a \in Attempts : UnderWay(a)' => UnderWay(a)
    BY <1>1, <2>3 DEF UnderWay
  <2>7. ~ hasty' => OneStage' /\ Settled' /\ AppAwaited'
    BY <1>1, <2>2, <2>3, <2>6, Typed DEF OneStage, Settled, AppAwaited, Polls, AllAwaited
  <2>8. QED
    BY <2>4, <2>5, <2>7
<1>8. CASE u.att # 0
  <2>1. u.att \in Attempts /\ u.part \in Binaries
    BY <1>6, <1>8
  <2>2. arrived[u.att] + Cardinality(PartsOf(u.att)) <= Cardinality(Binaries)
    BY <2>1 DEF UploadsSound
  <2>3. arrived'[u.att] = arrived[u.att] + 1 /\ \A a \in Attempts \ {u.att} : arrived'[a] = arrived[a]
    BY <1>1, <1>8, <2>1 DEF WebTypeOK
  <2>4. arrived'[u.att] + Cardinality(PartsOf(u.att)') = arrived[u.att] + Cardinality(PartsOf(u.att))
    BY <1>2, <1>4, <1>8, <2>1, <2>3
  <2>5. arrived'[u.att] \in 0..Cardinality(Binaries)
    <3> DEFINE a == arrived[u.att]  c == Cardinality(PartsOf(u.att))
               d == Cardinality(PartsOf(u.att)')  m == Cardinality(Binaries)
    <3>1. a \in Nat /\ c \in Nat /\ d \in Nat /\ m \in Nat
      BY <1>4, <2>1, Numbers
    <3>2. a + c <= m /\ a + 1 + d = a + c
      BY <2>2, <2>3, <2>4
    <3> HIDE DEF a, c, d, m
    <3>3. a + 1 \in 0..m
      BY <3>1, <3>2
    <3>4. QED
      BY <2>3, <3>3 DEF a, m
  <2>6. WebTypeOK'
    <3>1. uploads' \subseteq UploadType
      BY <1>1 DEF WebTypeOK, UploadType
    <3>2. arrived' \in [Attempts -> 0..Cardinality(Binaries)]
      BY <1>1, <1>8, <2>1, <2>3, <2>5 DEF WebTypeOK
    <3>3. submits' \subseteq [att : Attempts, image : AnyImage, answer : {"none", "refused", "made"}]
      BY <1>1, <1>5, <1>8, <2>1 DEF WebTypeOK
    <3>4. page' \in [busy : BOOLEAN, file : AnyImage, app : AnyImage, project : AnyImage]
      BY <1>1, <1>5, <1>8
    <3>5. QED
      BY <1>1, <3>1, <3>2, <3>3, <3>4 DEF WebTypeOK, UploadType
  <2>7. \A a \in Attempts : AllAwaited(a)' <=> AllAwaited(a)
    <3> SUFFICES ASSUME NEW a \in Attempts PROVE AllAwaited(a)' <=> AllAwaited(a)
      OBVIOUS
    <3>1. CASE a = u.att
      BY <2>4, <3>1 DEF AllAwaited
    <3>2. CASE a # u.att
      BY <1>2, <2>3, <3>2 DEF AllAwaited
    <3>3. QED
      BY <3>1, <3>2
  <2>8. UploadsSound'
    <3>1. ASSUME NEW a \in Attempts PROVE arrived'[a] + Cardinality(PartsOf(a)') <= Cardinality(Binaries)
      <4>1. CASE a = u.att
        BY <2>2, <2>4, <4>1
      <4>2. CASE a # u.att
        BY <1>2, <2>3, <4>2 DEF UploadsSound
      <4>3. QED
        BY <4>1, <4>2
    <3>2. QED
      BY <1>1, <3>1 DEF UploadsSound
  <2>9. u.att <= Len(attempts) /\ u.image = attempts[u.att]
    BY <1>8 DEF UploadsSound
  <2>10. NotBefore'
    <3>1. \A s \in submits' : s.att <= Len(attempts')
      BY <1>1, <1>8, <2>9 DEF NotBefore
    <3>2. \A a \in Attempts : a > Len(attempts') => arrived'[a] = 0 /\ poll'[a] = "off"
      BY <1>1, <2>1, <2>3, <2>9, Numbers, PressesCounted DEF NotBefore
    <3>3. QED
      BY <3>1, <3>2 DEF NotBefore
  <2>11. ASSUME ~ hasty' PROVE OneStage' /\ Settled' /\ AppAwaited'
    <3>1. OneStage /\ Settled /\ AppAwaited
      BY <1>1, <2>11
    <3>2. u.att = Len(attempts) /\ PartsOf(u.att) # {}
      BY <1>2, <1>8, <2>1, <3>1 DEF OneStage, UnderWay
    <3>3. submits = {}
      BY <2>1, <3>1, <3>2, Typed DEF OneStage, UnderWay
    <3>4. \A a \in Attempts : ~ Polls(a)
      BY <2>1, <3>1, <3>2 DEF OneStage, UnderWay, Polls
    <3>5. \A a \in Attempts : UnderWay(a)' => a = u.att
      <4>1. \A s \in submits' : s.att = u.att
        BY <1>1, <1>8, <3>3
      <4>2. \A a \in Attempts : (\E v \in uploads' : v.att = a) => UnderWay(a)
        BY <1>1 DEF UnderWay
      <4>3. QED
        BY <1>1, <3>1, <3>2, <3>4, <4>1, <4>2 DEF UnderWay, OneStage, Polls
    <3>6. ASSUME ~ (arrived'[u.att] < Cardinality(Binaries))
          PROVE  /\ PartsOf(u.att)' = {} /\ AllAwaited(u.att) /\ filed.app = attempts[u.att]
      <4>1. arrived'[u.att] = Cardinality(Binaries)
        BY <2>5, <3>6, Numbers
      <4>2. PartsOf(u.att)' = {}
        <5> DEFINE a == arrived[u.att]  c == Cardinality(PartsOf(u.att))
                   d == Cardinality(PartsOf(u.att)')  m == Cardinality(Binaries)
        <5>1. a \in Nat /\ c \in Nat /\ d \in Nat /\ m \in Nat /\ (d = 0 <=> PartsOf(u.att)' = {})
          BY <1>4, <2>1, Numbers
        <5>2. a + c <= m /\ m + d = a + c
          BY <2>2, <2>4, <4>1
        <5> HIDE DEF a, c, d, m
        <5>3. d = 0
          BY <5>1, <5>2
        <5>4. QED
          BY <5>1, <5>3
      <4>3. AllAwaited(u.att)
        <5>1. Cardinality(PartsOf(u.att)') = 0
          BY <1>4, <2>1, <4>2
        <5>2. Cardinality(Binaries) + 0 = arrived[u.att] + Cardinality(PartsOf(u.att))
          BY <2>4, <4>1, <5>1
        <5>3. QED
          BY <5>2, Numbers DEF AllAwaited
      <4>4. "app" \in PartsOf(u.att) => u.part = "app"
        BY <1>2, <2>1, <4>2
      <4>5. QED
        BY <1>5, <2>1, <2>9, <3>1, <3>2, <4>2, <4>3, <4>4 DEF AppAwaited
    <3>7. OneStage'
      <4>1. ASSUME NEW s \in submits'
            PROVE  s.att = u.att /\ s = sub /\ PartsOf(u.att)' = {} /\ s.image = attempts[u.att]
        BY <1>1, <1>8, <3>3, <3>6, <4>1
      <4>2. \A a \in Attempts : ~ Polls(a)'
        BY <1>1, <3>4 DEF Polls
      <4>3. QED
        BY <1>1, <2>1, <3>2, <3>5, <4>1, <4>2 DEF OneStage
    <3>8. Settled'
      <4> SUFFICES ASSUME ~ page'.busy
                   PROVE  submits' = {} /\ \A a \in Attempts : PartsOf(a)' = {} \/ ~ AllAwaited(a)'
        BY <1>1, <3>4 DEF Settled, Polls
      <4>1. \A a \in Attempts \ {u.att} : PartsOf(a)' = {}
        BY <1>2, <3>1, <3>2 DEF OneStage, UnderWay, PartsOf
      <4>2. CASE page.busy
        <5>1. arrived'[u.att] = Cardinality(Binaries) /\ UNCHANGED submits
          BY <1>1, <1>5, <1>8, <4>2
        <5>2. PartsOf(u.att)' = {}
          BY <3>6, <5>1, Numbers
        <5>3. QED
          BY <3>3, <4>1, <5>1, <5>2
      <4>3. CASE ~ page.busy
        <5>1. ~ AllAwaited(u.att)
          BY <2>1, <3>1, <3>2, <4>3 DEF Settled
        <5>2. submits' = {}
          BY <1>1, <1>8, <3>3, <3>6, <5>1
        <5>3. QED
          BY <2>1, <2>7, <4>1, <5>1, <5>2
      <4>4. QED
        BY <4>2, <4>3
    <3>9. AppAwaited'
      <4>1. page'.app = filed.app
        BY <1>1, <1>5, <1>8
      <4>2. ASSUME AllAwaited(u.att)' PROVE "app" \in PartsOf(u.att)' \/ filed.app = attempts[u.att]
        <5>1. "app" \in PartsOf(u.att) \/ page.app = attempts[u.att]
          BY <2>1, <2>7, <3>1, <3>2, <4>2 DEF AppAwaited
        <5>2. QED
          BY <1>2, <1>5, <2>1, <2>9, <5>1
      <4>3. QED
        BY <1>1, <3>2, <4>1, <4>2 DEF AppAwaited
    <3>10. QED
      BY <3>7, <3>8, <3>9
  <2>12. QED
    BY <2>6, <2>8, <2>10, <2>11
<1>9. QED
  BY <1>7, <1>8
-----------------------------------------------------------------------------
(* The submission, the poll and the leader.                                 *)


\* A submission that is served, fails or is lost takes no part in the uploads.
LEMMA SubmissionServedInv == ASSUME WebInv, NEW s \in submits, SubmissionServed(s) PROVE WebInv'
<1> USE DEF WebInv
<1>1. /\ s.answer = "none" /\ UNCHANGED <<page, uploads, arrived, poll, attempts, hasty, lost>>
      /\ \E job \in {"active", "failed", "none"} :
           /\ listed' = [listed EXCEPT ![s.att] = job]
           /\ submits' = (submits \ {s}) \cup {[s EXCEPT !.answer = IF job = "active" THEN "made" ELSE "refused"]}
  BY DEF SubmissionServed
<1>2. s \in [att : Attempts, image : AnyImage, answer : {"none", "refused", "made"}]
  BY DEF WebTypeOK
<1>3. PICK r \in [att : Attempts, image : AnyImage, answer : {"none", "refused", "made"}] :
        submits' = (submits \ {s}) \cup {r} /\ r.att = s.att /\ r.image = s.image
  <2>1. PICK made \in {"made", "refused"} : submits' = (submits \ {s}) \cup {[s EXCEPT !.answer = made]}
    BY <1>1
  <2> DEFINE r == [s EXCEPT !.answer = made]
  <2>2. r \in [att : Attempts, image : AnyImage, answer : {"none", "refused", "made"}]
    BY <1>2
  <2>3. r.att = s.att /\ r.image = s.image
    BY <1>2
  <2>4. QED
    BY <2>1, <2>2, <2>3
<1>4. \A a \in Attempts : PartsOf(a)' = PartsOf(a) /\ (UnderWay(a)' => UnderWay(a))
  BY <1>1, <1>3, PartsKept DEF UnderWay
<1>5. WebTypeOK'
  BY <1>1, <1>3 DEF WebTypeOK
<1>6. UploadsSound' /\ NotBefore'
  BY <1>1, <1>3, <1>4 DEF UploadsSound, NotBefore
<1>7. ~ hasty' => OneStage' /\ Settled' /\ AppAwaited'
  <2> SUFFICES ASSUME ~ hasty' PROVE OneStage' /\ Settled' /\ AppAwaited'
    OBVIOUS
  <2>1. OneStage /\ Settled /\ AppAwaited
    BY <1>1
  <2>2. submits' = {r}
    BY <1>3, <2>1 DEF OneStage
  <2>3. OneStage'
    BY <1>1, <1>2, <1>3, <1>4, <2>1, <2>2 DEF OneStage, Polls
  <2>4. Settled' /\ AppAwaited'
    BY <1>1, <1>4, <2>1 DEF Settled, AppAwaited, Polls, AllAwaited
  <2>5. QED
    BY <2>3, <2>4
<1>8. QED
  BY <1>5, <1>6, <1>7

\* A submission ends: in a poll of its job, in an error, or in nothing.
LEMMA SubmissionOver ==
  ASSUME WebInv, NEW s \in submits, SubmissionAccepted(s) \/ SubmissionFails(s) \/ SubmissionLost(s)
  PROVE  WebInv'
<1> USE DEF WebInv
<1>1. /\ submits' = submits \ {s} /\ UNCHANGED <<uploads, arrived, listed, attempts, hasty>>
      /\ lost' \in BOOLEAN
      /\ \/ UNCHANGED page /\ poll' = [poll EXCEPT ![s.att] = "timer"]
         \/ page' = [page EXCEPT !.busy = FALSE] /\ UNCHANGED poll
         \/ UNCHANGED <<page, poll>>
  BY DEF SubmissionAccepted, SubmissionFails, SubmissionLost, WebTypeOK
<1>2. s.att \in Attempts /\ s.att <= Len(attempts)
  BY Typed DEF NotBefore
<1>3. \A a \in Attempts : PartsOf(a)' = PartsOf(a)
  BY <1>1, PartsKept
<1>4. \A a \in Attempts : a # s.att => poll'[a] = poll[a]
  BY <1>1 DEF WebTypeOK
<1>5. WebTypeOK'
  BY <1>1 DEF WebTypeOK
<1>6. UploadsSound' /\ NotBefore'
  <2>1. \A a \in Attempts : a > Len(attempts) => a # s.att
    BY <1>2, PressesCounted, Numbers
  <2>2. QED
    BY <1>1, <1>3, <1>4, <2>1 DEF UploadsSound, NotBefore
<1>7. ASSUME ~ hasty' PROVE OneStage' /\ Settled' /\ AppAwaited'
  <2>1. OneStage /\ Settled /\ AppAwaited
    BY <1>1, <1>7
  <2>2. submits' = {} /\ s.att = Len(attempts) /\ PartsOf(s.att) = {} /\ ~ Polls(s.att) /\ page.busy
    BY <1>1, <1>2, <2>1 DEF OneStage, UnderWay, Settled
  <2>3. \A a \in Attempts : UnderWay(a)' => a = s.att
    BY <1>1, <1>4, <2>1, <2>2 DEF OneStage, UnderWay
  <2>4. OneStage'
    <3>1. \A a \in Attempts : Polls(a)' => a = s.att
      BY <2>3 DEF UnderWay, Polls
    <3>2. QED
      BY <1>1, <1>3, <2>2, <2>3, <3>1 DEF OneStage
  <2>5. page'.app = page.app /\ (page'.busy = page.busy \/ poll' = poll)
    BY <1>1 DEF WebTypeOK
  <2>6. Settled'
    <3>1. ASSUME ~ page'.busy, NEW a \in Attempts PROVE ~ Polls(a)' /\ PartsOf(a)' = {}
      <4>1. poll' = poll
        BY <2>2, <2>5, <3>1
      <4>2. CASE a = s.att
        BY <1>3, <2>2, <4>1, <4>2 DEF Polls
      <4>3. CASE a # s.att
        BY <1>3, <2>1, <2>2, <4>1, <4>3 DEF OneStage, UnderWay, Polls, PartsOf
      <4>4. QED
        BY <4>2, <4>3
    <3>2. QED
      BY <2>2, <3>1 DEF Settled
  <2>7. AppAwaited'
    BY <1>1, <1>3, <2>1, <2>5 DEF AppAwaited, AllAwaited
  <2>8. QED
    BY <2>4, <2>6, <2>7
<1>8. QED
  BY <1>5, <1>6, <1>7

\* One turn of the poll of job j.
LEMMA Polled ==
  ASSUME WebInv, NEW j \in Attempts, PollTimer(j) \/ PollSettles(j) PROVE WebInv'
<1> USE DEF WebInv
<1>1. PICK to \in {"off", "timer", "asks", "success"} :
         /\ Polls(j) /\ poll' = [poll EXCEPT ![j] = to]
         /\ UNCHANGED <<uploads, arrived, submits, listed, attempts, hasty>> /\ lost' \in BOOLEAN
         /\ page' = page \/ (page' = [page EXCEPT !.busy = FALSE] /\ to \in {"off", "success"})
  <2>1. CASE PollTimer(j)
    BY <2>1 DEF PollTimer, Polls, WebTypeOK
  <2>2. CASE PollFails(j)
    BY <2>2 DEF PollFails, PollEnds, Polls, WebTypeOK
  <2>3. CASE PollLost(j)
    BY <2>3 DEF PollLost, Polls, WebTypeOK
  <2>4. CASE \E first \in InList : PollAnswered(j, first)
    BY <2>4 DEF PollAnswered, PollEnds, Polls, WebTypeOK
  <2>5. QED
    BY <2>1, <2>2, <2>3, <2>4 DEF PollSettles
<1>2. /\ poll' \in [Attempts -> {"off", "timer", "asks", "success"}]
      /\ \A a \in Attempts : a # j => poll'[a] = poll[a]
      /\ poll'[j] = to /\ page'.app = page.app
      /\ page' \in [busy : BOOLEAN, file : AnyImage, app : AnyImage, project : AnyImage]
  BY <1>1 DEF WebTypeOK
<1>3. \A a \in Attempts : PartsOf(a)' = PartsOf(a) /\ (Polls(a)' => Polls(a))
  BY <1>1, <1>2, PartsKept DEF Polls
<1>4. WebTypeOK'
  BY <1>1, <1>2 DEF WebTypeOK
<1>5. UploadsSound' /\ NotBefore'
  BY <1>1, <1>2, <1>3 DEF UploadsSound, NotBefore, Polls
<1>6. ASSUME ~ hasty' PROVE OneStage' /\ Settled' /\ AppAwaited'
  <2>1. OneStage /\ Settled /\ AppAwaited
    BY <1>1, <1>6
  <2>2. j = Len(attempts) /\ PartsOf(j) = {}
    BY <1>1, <2>1 DEF OneStage, UnderWay, Polls
  <2>3. \A s \in submits : s.att \in Attempts
    BY Typed
  <2>4. submits = {}
    BY <1>1, <2>1, <2>2, <2>3 DEF OneStage, UnderWay
  <2>5. \A a \in Attempts : UnderWay(a)' => UnderWay(a)
    BY <1>1, <1>3 DEF UnderWay, Polls
  <2>6. OneStage'
    BY <1>1, <1>3, <2>1, <2>4, <2>5 DEF OneStage
  <2>7. Settled'
    <3>1. ASSUME ~ page'.busy, NEW a \in Attempts
          PROVE  ~ Polls(a)' /\ (PartsOf(a)' = {} \/ ~ AllAwaited(a)')
      <4>1. CASE a = j
        BY <1>1, <1>2, <1>3, <2>1, <2>2, <3>1, <4>1 DEF Settled, Polls
      <4>2. CASE a # j
        BY <1>3, <2>1, <2>2, <4>2 DEF OneStage, UnderWay, Polls, PartsOf
      <4>3. QED
        BY <4>1, <4>2
    <3>2. QED
      BY <1>1, <2>4, <3>1 DEF Settled
  <2>8. AppAwaited'
    BY <1>1, <1>2, <1>3, <2>1 DEF AppAwaited, AllAwaited
  <2>9. QED
    BY <2>6, <2>7, <2>8
<1>7. QED
  BY <1>4, <1>5, <1>6

\* What the page has under way does not depend on the leader's jobs.
LEMMA JobsListed ==
  ASSUME WebInv, NEW j \in Attempts, ListedJobEnds(j) \/ ListedJobCancelled(j) \/ ListedJobRemoved(j)
  PROVE  WebInv'
<1> USE DEF WebInv
<1>1. PICK s \in {"none", "completed", "failed", "cancelled"} :
         /\ listed' = [listed EXCEPT ![j] = s]
         /\ UNCHANGED <<page, uploads, arrived, submits, poll, attempts, hasty, lost>>
  BY DEF ListedJobEnds, ListedJobCancelled, ListedJobRemoved, StatusBecomes
<1>2. \A a \in Attempts : PartsOf(a)' = PartsOf(a) /\ (UnderWay(a)' <=> UnderWay(a))
  BY <1>1, PartsKept DEF UnderWay
<1>3. WebTypeOK'
  BY <1>1 DEF WebTypeOK
<1>4. UploadsSound' /\ NotBefore'
  BY <1>1, <1>2 DEF UploadsSound, NotBefore
<1>5. ~ hasty' => OneStage' /\ Settled' /\ AppAwaited'
  BY <1>1, <1>2, Typed DEF OneStage, Settled, AppAwaited, Polls, AllAwaited
<1>6. QED
  BY <1>3, <1>4, <1>5
-----------------------------------------------------------------------------
LEMMA WebStep == WebInv /\ [WebNext]_webVars => WebInv'
<1> SUFFICES ASSUME WebInv, [WebNext]_webVars PROVE WebInv'
  OBVIOUS
<1>1. CASE \E i \in PageImages : SelectFile(i)
  BY <1>1, FileSelected
<1>2. CASE \E i \in AnyImage : SelectFolder(i)
  BY <1>2, FolderSelected
<1>3. CASE Press
  BY <1>3, Pressed
<1>4. CASE \E u \in uploads : UploadSettles(u)
  BY <1>4, UploadArrived, UploadFailed DEF UploadSettles
<1>5. CASE \E s \in submits : SubmissionSettles(s)
  BY <1>5, SubmissionServedInv, SubmissionOver DEF SubmissionSettles
<1>6. CASE \E j \in Attempts : PollTimer(j) \/ PollSettles(j)
  BY <1>6, Polled
<1>7. CASE \E j \in Attempts : ListedJobEnds(j) \/ ListedJobCancelled(j) \/ ListedJobRemoved(j)
  BY <1>7, JobsListed
<1>8. CASE UNCHANGED webVars
  <2>1. \A a \in Attempts : PartsOf(a)' = PartsOf(a) /\ (UnderWay(a)' <=> UnderWay(a))
    BY <1>8, PartsKept DEF UnderWay, webVars
  <2>2. WebTypeOK' /\ UploadsSound' /\ NotBefore'
    BY <1>8, <2>1 DEF webVars, WebInv, WebTypeOK, UploadsSound, NotBefore
  <2>3. ~ hasty' => OneStage' /\ Settled' /\ AppAwaited'
    BY <1>8, <2>1, Typed DEF webVars, WebInv, OneStage, Settled, AppAwaited, Polls, AllAwaited
  <2>4. QED
    BY <2>2, <2>3 DEF WebInv
<1>9. QED
  BY <1>1, <1>2, <1>3, <1>4, <1>5, <1>6, <1>7, <1>8 DEF WebNext

\* The page's variables keep their types in every behaviour.
THEOREM PageTypes == WebSpec => []WebTypeOK
<1>1. WebInv => WebTypeOK
  BY DEF WebInv
<1>2. QED
  BY WebInitInv, WebStep, <1>1, PTL DEF WebSpec

\* Unless a user presses the button while uploads of an earlier attempt are under
\* way, the page has one flash under way and submits the image that was chosen, for
\* any number of attempts, images and binaries of a project.
THEOREM PageOneFlash == WebSpec => []OneFlash
<1>1. WebInv => OneFlash
  <2> SUFFICES ASSUME WebInv, ~ hasty PROVE OneStage => OneFlash
    BY DEF WebInv, OneFlash
  <2>1. QED
    BY DEF OneStage, OneFlash
<1>2. QED
  BY WebInitInv, WebStep, <1>1, PTL DEF WebSpec
-----------------------------------------------------------------------------
(* The flash commands.                                                      *)

LEMMA Bounds ==
  MaxJobs \in Nat \ {0} /\ NImages \in Nat \ {0} /\ MaxSends \in Nat \ {0} /\ Resends \in Nat
  BY CommandAssumption DEF CommandAssumption

USE Bounds

\* Where a job is says what its status may be.  Only a job that was refused or
\* lost the board is in the queue with another status than "pending".
JobsSane ==
  \A j \in TheJobs :
    /\ fjob[j].at = "queue" => \/ fjob[j].status \in {"none", "pending"}
                               \/ fjob[j].status \in {"failed", "cancelled"} /\ fjob[j].loose
    /\ fjob[j].at = "worker" => \/ fjob[j].status = "running"
                                \/ fjob[j].status = "cancelled" /\ fjob[j].loose
    /\ fjob[j].at \in {"results", "done"} => fjob[j].status \in JobEnded

\* A job that may write to the board under its reservation.
Flashes(j) == fjob[j].status \in {"pending", "running"} /\ ~ fjob[j].loose

HasBoard == \A j \in TheJobs : Flashes(j) => board = j

Flashed(i) == \E j \in TheJobs : fjob[j].image = i /\ fjob[j].status = "completed"

\* The images before the current one are flashed.
ImagesBefore == \A i \in 1..cmd.image - 1 : Flashed(i)

\* While the command waits for a job, that job is the one of the current image
\* and the only one that flashes.
Awaited ==
  cmd.pc \in {"connect", "stream", "poll"} =>
    /\ cmd.job \in TheJobs
    /\ fjob[cmd.job].image = cmd.image
    /\ \A j \in TheJobs : Flashes(j) => j = cmd.job

AllFlashed ==
  cmd.pc = "ok" => (\A i \in 1..Images : Flashed(i)) /\ (\A j \in TheJobs : ~ Flashes(j))

CmdInv == CmdTypeOK /\ JobsSane /\ HasBoard /\ ImagesBefore /\ Awaited /\ AllFlashed

LEMMA CmdInitInv == CmdInit => CmdInv
  BY DEF CmdInit, CmdInv, CmdTypeOK, JobsSane, HasBoard, ImagesBefore, Awaited, AllFlashed,
         Flashes, Flashed, Kinds, TheJobs, JobEnded, JobTerminal, Other

-----------------------------------------------------------------------------
(* Types.                                                                   *)

Pcs == {"upload", "submit", "refused", "settle", "resubmit", "refusedAgain", "connect", "stream",
        "poll", "ok", "failed"}

CmdType ==
  [kind : Kinds, pc : Pcs, image : 1..NImages, tries : 1..MaxSends, sends : 0..Resends,
   job : 0..MaxJobs]

JobType ==
  [status : {"none", "pending", "running"} \cup JobTerminal,
   at : {"queue", "worker", "results", "done"}, image : 0..NImages, loose : BOOLEAN]

LEMMA SetPc ==
  ASSUME NEW c \in CmdType, NEW pc \in Pcs
  PROVE  [c EXCEPT !.pc = pc] \in CmdType
  BY DEF CmdType

LEMMA SetImage ==
  ASSUME NEW c \in CmdType, NEW i \in 1..NImages
  PROVE  [c EXCEPT !.image = i] \in CmdType
  BY DEF CmdType

LEMMA SetTries ==
  ASSUME NEW c \in CmdType, NEW n \in 1..MaxSends
  PROVE  [c EXCEPT !.tries = n] \in CmdType
  BY DEF CmdType

LEMMA SetSends ==
  ASSUME NEW c \in CmdType, NEW n \in 0..Resends
  PROVE  [c EXCEPT !.sends = n] \in CmdType
  BY DEF CmdType

LEMMA SetJob ==
  ASSUME NEW c \in CmdType, NEW j \in 0..MaxJobs
  PROVE  [c EXCEPT !.job = j] \in CmdType
  BY DEF CmdType

LEMMA SetPcSends ==
  ASSUME NEW c \in CmdType, NEW pc \in Pcs, NEW n \in 0..Resends
  PROVE  [c EXCEPT !.pc = pc, !.sends = n] \in CmdType
<1> DEFINE d == [c EXCEPT !.pc = pc]
<1>1. d \in CmdType
  BY SetPc
<1> HIDE DEF d
<1>2. [d EXCEPT !.sends = n] \in CmdType
  BY <1>1, SetSends
<1>3. QED
  BY <1>2 DEF d

LEMMA SetPcJob ==
  ASSUME NEW c \in CmdType, NEW pc \in Pcs, NEW j \in 0..MaxJobs
  PROVE  [c EXCEPT !.pc = pc, !.job = j] \in CmdType
<1> DEFINE d == [c EXCEPT !.pc = pc]
<1>1. d \in CmdType
  BY SetPc
<1> HIDE DEF d
<1>2. [d EXCEPT !.job = j] \in CmdType
  BY <1>1, SetJob
<1>3. QED
  BY <1>2 DEF d

LEMMA SetPcImage ==
  ASSUME NEW c \in CmdType, NEW pc \in Pcs, NEW n \in 1..NImages
  PROVE  [c EXCEPT !.pc = pc, !.image = n] \in CmdType
<1> DEFINE d == [c EXCEPT !.pc = pc]
<1>1. d \in CmdType
  BY SetPc
<1> HIDE DEF d
<1>2. [d EXCEPT !.image = n] \in CmdType
  BY <1>1, SetImage
<1>3. QED
  BY <1>2 DEF d

LEMMA NextAttemptTyped ==
  ASSUME cmd \in CmdType, NextAttempt
  PROVE  cmd' \in CmdType
<1>1. CASE To("failed")
  BY <1>1, SetPc DEF To, Pcs
<1>2. CASE cmd.tries # MaxSends /\ cmd' = [cmd EXCEPT !.pc = "upload", !.image = 1, !.tries = @ + 1]
  <2> DEFINE c == [cmd EXCEPT !.pc = "upload", !.image = 1]
             n == cmd.tries + 1
  <2>0. "upload" \in Pcs /\ 1 \in 1..NImages
    BY DEF Pcs
  <2>1. c \in CmdType
    BY <2>0, SetPcImage
  <2>2. n \in 1..MaxSends
    BY <1>2 DEF CmdType
  <2>3. cmd' = [c EXCEPT !.tries = n]
    BY <1>2
  <2> HIDE DEF c, n
  <2>4. QED
    BY <2>1, <2>2, <2>3, SetTries
<1>3. QED
  BY <1>1, <1>2 DEF NextAttempt

LEMMA Giving ==
  ASSUME cmd \in CmdType, Gives
  PROVE  cmd' \in CmdType
<1>1. CASE To("failed")
  BY <1>1, SetPc DEF To, Pcs
<1>2. CASE NextAttempt
  BY <1>2, NextAttemptTyped
<1>3. QED
  BY <1>1, <1>2 DEF Gives

LEMMA Unanswered ==
  ASSUME cmd \in CmdType, NoAnswer
  PROVE  cmd' \in CmdType
<1> DEFINE pc == IF cmd.pc \in {"submit", "refused"} THEN "submit" ELSE "resubmit"
           c  == [cmd EXCEPT !.sends = @ + 1]
<1>1. CASE cmd.sends < Resends /\ cmd' = [cmd EXCEPT !.sends = @ + 1, !.pc = pc]
  <2>1. cmd.sends + 1 \in 0..Resends
    BY <1>1 DEF CmdType
  <2>2. c \in CmdType
    BY <2>1, SetSends
  <2>3. pc \in Pcs
    BY DEF Pcs
  <2>4. [c EXCEPT !.pc = pc] \in CmdType
    BY <2>2, <2>3, SetPc
  <2>5. QED
    BY <1>1, <2>4
<1>2. CASE Gives
  BY <1>2, Giving
<1>3. QED
  BY <1>1, <1>2 DEF NoAnswer

LEMMA Advances ==
  ASSUME cmd \in CmdType, ImageDone
  PROVE  cmd' \in CmdType
<1>1. CASE cmd.image < Images /\ cmd' = [cmd EXCEPT !.pc = "upload", !.image = @ + 1]
  <2> DEFINE c == [cmd EXCEPT !.pc = "upload"]
  <2>1. c \in CmdType
    BY SetPc DEF Pcs
  <2>2. cmd.image + 1 \in 1..NImages
    BY <1>1 DEF CmdType, Images
  <2>3. [c EXCEPT !.image = cmd.image + 1] \in CmdType
    BY <2>1, <2>2, SetImage
  <2>4. QED
    BY <1>1, <2>3
<1>2. CASE To("ok")
  BY <1>2, SetPc DEF To, Pcs
<1>3. QED
  BY <1>1, <1>2 DEF ImageDone

LEMMA CmdTypeStep == CmdTypeOK /\ [CmdNext]_cmdVars => CmdTypeOK'
<1> SUFFICES ASSUME CmdTypeOK, [CmdNext]_cmdVars PROVE CmdTypeOK'
  OBVIOUS
<1>1. cmd \in CmdType /\ fjob \in [TheJobs -> JobType] /\ board \in 0..Other
  BY DEF CmdTypeOK, CmdType, JobType, Pcs
<1>2. SUFFICES cmd' \in CmdType /\ fjob' \in [TheJobs -> JobType] /\ board' \in 0..Other
  BY DEF CmdTypeOK, CmdType, JobType, Pcs
<1>3. CASE Upload
  <2>1. "submit" \in Pcs /\ 0 \in 0..Resends
    BY DEF Pcs
  <2>2. [cmd EXCEPT !.pc = "submit", !.sends = 0] \in CmdType
    BY <1>1, <2>1, SetPcSends
  <2>3. cmd' \in CmdType
    BY <1>1, <1>3, <2>2, Giving DEF Upload
  <2>4. QED
    BY <1>1, <1>3, <2>3 DEF Upload
<1>4. CASE SubmitAccepted
  <2>1. PICK j \in TheJobs : /\ fjob' = [fjob EXCEPT ![j] = NewJob("pending", FALSE)] /\ board' = j
                             /\ \/ cmd' = [cmd EXCEPT !.pc = IF cmd.kind = "batch" THEN "poll" ELSE "connect", !.job = j]
                                \/ NoAnswer
    BY <1>4 DEF SubmitAccepted
  <2>2. NewJob("pending", FALSE) \in JobType
    BY <1>1 DEF NewJob, JobType, CmdType, JobTerminal
  <2>3. cmd' \in CmdType
    <3> DEFINE pc == IF cmd.kind = "batch" THEN "poll" ELSE "connect"
    <3>1. pc \in Pcs /\ j \in 0..MaxJobs
      BY DEF Pcs, TheJobs
    <3>2. cmd' = [cmd EXCEPT !.pc = pc, !.job = j] \/ NoAnswer
      BY <2>1
    <3> HIDE DEF pc
    <3>3. [cmd EXCEPT !.pc = pc, !.job = j] \in CmdType
      BY <1>1, <3>1, SetPcJob
    <3>4. QED
      BY <1>1, <3>2, <3>3, Unanswered
  <2>4. fjob' \in [TheJobs -> JobType]
    BY <1>1, <2>1, <2>2
  <2>5. board' \in 0..Other
    BY <2>1 DEF TheJobs, Other
  <2>6. QED
    BY <2>3, <2>4, <2>5
<1>5. CASE SubmitLost
  BY <1>1, <1>5, Unanswered DEF SubmitLost
<1>6. CASE SubmitRefused
  <2>1. PICK j \in TheJobs : fjob' = [fjob EXCEPT ![j] = NewJob("failed", TRUE)]
    BY <1>6 DEF SubmitRefused
  <2>2. NewJob("failed", TRUE) \in JobType
    BY <1>1 DEF NewJob, JobType, CmdType, JobTerminal, JobEnded
  <2>3. cmd' \in CmdType
    BY <1>1, <1>6, SetPc DEF SubmitRefused, Pcs
  <2>4. QED
    BY <1>1, <1>6, <2>1, <2>2, <2>3 DEF SubmitRefused
<1>7. CASE RefusalArrives
  <2>1. To("settle") => cmd' \in CmdType
    BY <1>1, SetPc DEF To, Pcs
  <2>2. QED
    BY <1>1, <1>7, <2>1, Giving, Unanswered DEF RefusalArrives
<1>8. CASE SubmitRejected
  BY <1>1, <1>8, Giving DEF SubmitRejected
<1>9. CASE Settle
  <2>1. {"resubmit", "failed"} \subseteq Pcs /\ 0 \in 0..Resends
    BY DEF Pcs
  <2>2. [cmd EXCEPT !.pc = "resubmit", !.sends = 0] \in CmdType
    BY <1>1, <2>1, SetPcSends
  <2>3. [cmd EXCEPT !.pc = "failed"] \in CmdType
    BY <1>1, <2>1, SetPc
  <2>4. cmd' \in CmdType
    BY <1>9, <2>2, <2>3 DEF Settle, To
  <2>5. QED
    BY <1>1, <1>9, <2>4 DEF Settle
<1>10. CASE ConnectProgress
  <2>1. To("stream") => cmd' \in CmdType
    BY <1>1, SetPc DEF To, Pcs
  <2>2. QED
    BY <1>1, <1>10, <2>1, NextAttemptTyped DEF ConnectProgress
<1>11. CASE StreamCompletes \/ StreamBreaks \/ WaitForJob
  BY <1>1, <1>11, NextAttemptTyped, Advances DEF StreamCompletes, StreamBreaks, WaitForJob
<1>12. ASSUME NEW j \in TheJobs,
              JobStarts(j) \/ ResultTaken(j) \/ JobCancelled(j) \/ BoardFreed(j)
                \/ \E s \in JobEnded : JobEnds(j, s)
       PROVE  cmd' \in CmdType /\ fjob' \in [TheJobs -> JobType] /\ board' \in 0..Other
  <2>1. /\ fjob[j] \in JobType
        /\ \A st \in {"none", "pending", "running"} \cup JobTerminal,
              at \in {"queue", "worker", "results", "done"}, loose \in BOOLEAN :
             Becomes(j, st, at, loose) => fjob' \in [TheJobs -> JobType]
    BY <1>1 DEF Becomes, JobType
  <2>2. fjob[j].status \in {"none", "pending", "running"} \cup JobTerminal
        /\ fjob[j].at \in {"queue", "worker", "results", "done"} /\ fjob[j].loose \in BOOLEAN
    BY <2>1 DEF JobType
  <2>3. /\ JobStarts(j) \/ JobCancelled(j) \/ BoardFreed(j) \/ ResultTaken(j) => fjob' \in [TheJobs -> JobType]
        /\ \A s \in JobEnded : JobEnds(j, s) => fjob' \in [TheJobs -> JobType]
    BY <2>1, <2>2 DEF JobStarts, ResultTaken, JobCancelled, BoardFreed, JobEnds, JobTerminal, JobEnded
  <2>4. UNCHANGED cmd
    BY <1>12 DEF JobStarts, ResultTaken, JobCancelled, BoardFreed, JobEnds
  <2>5. board' \in {0, board}
    BY <1>12 DEF JobStarts, ResultTaken, JobCancelled, BoardFreed, JobEnds, Freed
  <2>6. board' \in 0..Other
    BY <1>1, <2>5 DEF Other
  <2>7. QED
    BY <1>1, <1>12, <2>3, <2>4, <2>6
<1>13. CASE OtherTakes \/ OtherGives
  BY <1>1, <1>13 DEF OtherTakes, OtherGives, Other
<1>14. CASE UNCHANGED cmdVars
  BY <1>1, <1>14 DEF cmdVars
<1>15. QED
  BY <1>3, <1>4, <1>5, <1>6, <1>7, <1>8, <1>9, <1>10, <1>11, <1>12, <1>13, <1>14 DEF CmdNext

\* Every state a command goes through is of its type.
THEOREM CmdTypeCorrect == CmdSpec => []CmdTypeOK
<1>1. CmdInit => CmdTypeOK
  BY CmdInitInv DEF CmdInv
<1>2. QED
  BY <1>1, CmdTypeStep, PTL DEF CmdSpec

-----------------------------------------------------------------------------
(* The steps of the leader.                                                 *)

LeaderStep(j) ==
  \/ JobStarts(j) \/ ResultTaken(j) \/ JobCancelled(j) \/ BoardFreed(j)
  \/ \E s \in JobEnded : JobEnds(j, s)

\* A job keeps its image; a completed one stays so; and none begins to flash.
JobsGoOn ==
  \A i \in TheJobs : /\ fjob'[i].image = fjob[i].image
                     /\ fjob[i].status = "completed" => fjob'[i].status = "completed"
                     /\ Flashes(i)' => Flashes(i)

LEMMA Becoming ==
  ASSUME fjob \in [TheJobs -> JobType], NEW j \in TheJobs, NEW st, NEW at, NEW loose,
         Becomes(j, st, at, loose)
  PROVE  /\ \A i \in TheJobs \ {j} : fjob'[i] = fjob[i]
         /\ fjob'[j].status = st /\ fjob'[j].at = at /\ fjob'[j].loose = loose
         /\ fjob'[j].image = fjob[j].image
  BY DEF Becomes

LEMMA LeaderSteps ==
  ASSUME CmdTypeOK, JobsSane, HasBoard, NEW j \in TheJobs, LeaderStep(j)
  PROVE  cmd' = cmd /\ JobsSane' /\ HasBoard' /\ JobsGoOn
<1>1. fjob \in [TheJobs -> JobType]
  BY DEF CmdTypeOK, JobType
<1>2. \A i \in TheJobs : i # 0
  BY DEF TheJobs
<1>3. CASE JobStarts(j)
  <2>1. Becomes(j, "running", "worker", fjob[j].loose) /\ UNCHANGED <<cmd, board>>
    BY <1>3 DEF JobStarts
  <2>2. fjob[j].at = "queue" /\ fjob[j].status # "none"
    BY <1>3 DEF JobStarts
  <2>3. QED
    BY <1>1, <2>1, <2>2, Becoming DEF JobsSane, HasBoard, JobsGoOn, Flashes, JobEnded
<1>4. CASE \E s \in JobEnded : JobEnds(j, s)
  <2>1. PICK s \in JobEnded : JobEnds(j, s)
    BY <1>4
  <2>2. Becomes(j, s, "results", fjob[j].loose) /\ UNCHANGED <<cmd, board>> /\ fjob[j].at = "worker"
    BY <2>1 DEF JobEnds
  <2>3. QED
    BY <1>1, <2>2, Becoming DEF JobsSane, HasBoard, JobsGoOn, Flashes, JobEnded
<1>5. CASE ResultTaken(j)
  <2>1. Becomes(j, fjob[j].status, "done", fjob[j].loose) /\ Freed(j) /\ UNCHANGED cmd /\ fjob[j].at = "results"
    BY <1>5 DEF ResultTaken
  <2>2. QED
    BY <1>1, <1>2, <2>1, Becoming DEF Freed, JobsSane, HasBoard, JobsGoOn, Flashes, JobEnded
<1>6. CASE JobCancelled(j)
  <2>1. Becomes(j, "cancelled", fjob[j].at, TRUE) /\ Freed(j) /\ UNCHANGED cmd
        /\ fjob[j].status \in {"pending", "running"}
    BY <1>6 DEF JobCancelled
  <2>2. /\ \A i \in TheJobs \ {j} : fjob'[i] = fjob[i]
        /\ fjob'[j].status = "cancelled" /\ fjob'[j].at = fjob[j].at /\ fjob'[j].loose = TRUE
        /\ fjob'[j].image = fjob[j].image
    BY <1>1, <2>1, Becoming
  <2>3. JobsGoOn
    BY <2>1, <2>2 DEF JobsGoOn, Flashes
  <2>4. JobsSane'
    BY <2>1, <2>2 DEF JobsSane, JobEnded
  <2>5. HasBoard'
    BY <1>2, <2>1, <2>2 DEF Freed, HasBoard, Flashes
  <2>6. QED
    BY <2>1, <2>3, <2>4, <2>5
<1>7. CASE BoardFreed(j)
  <2>1. Becomes(j, fjob[j].status, fjob[j].at, TRUE) /\ board = j /\ board' = 0 /\ UNCHANGED cmd
    BY <1>7 DEF BoardFreed
  <2>2. /\ \A i \in TheJobs \ {j} : fjob'[i] = fjob[i]
        /\ fjob'[j].status = fjob[j].status /\ fjob'[j].at = fjob[j].at /\ fjob'[j].loose = TRUE
        /\ fjob'[j].image = fjob[j].image
    BY <1>1, <2>1, Becoming
  <2>3. JobsGoOn
    BY <2>1, <2>2 DEF JobsGoOn, Flashes
  <2>4. JobsSane'
    BY <2>1, <2>2 DEF JobsSane, JobEnded
  <2>5. HasBoard'
    BY <1>2, <2>1, <2>2 DEF Freed, HasBoard, Flashes
  <2>6. QED
    BY <2>1, <2>3, <2>4, <2>5
<1>8. QED
  BY <1>3, <1>4, <1>5, <1>6, <1>7 DEF LeaderStep

-----------------------------------------------------------------------------
(* The steps of the command.                                                *)

\* An attempt that ends waits for no job and claims nothing.
Retreat ==
  /\ cmd'.pc \notin {"connect", "stream", "poll", "ok"}
  /\ cmd'.image \in {1, cmd.image} /\ cmd'.kind = cmd.kind

LEMMA Retreating ==
  ASSUME cmd \in CmdType, NextAttempt \/ Gives \/ NoAnswer
  PROVE  Retreat
<1>1. NextAttempt => Retreat
  BY DEF NextAttempt, To, Retreat, CmdType
<1>2. Gives => Retreat
  BY <1>1 DEF Gives, To, Retreat, CmdType
<1>3. NoAnswer => Retreat
  BY <1>2 DEF NoAnswer, Retreat, CmdType
<1>4. QED
  BY <1>1, <1>2, <1>3

LEMMA SubmitSteps ==
  ASSUME CmdTypeOK, CmdInv, SubmitAccepted \/ SubmitRefused
  PROVE  /\ JobsSane' /\ HasBoard'
         /\ \A i : Flashed(i) => Flashed(i)'
         /\ Retreat \/ (Awaited' /\ cmd'.pc # "ok" /\ cmd'.image = cmd.image)
<1>1. fjob \in [TheJobs -> JobType] /\ cmd \in CmdType
  BY DEF CmdTypeOK, JobType, CmdType, Pcs
<1>2. \A i \in TheJobs : i # 0
  BY DEF TheJobs
<1>3. CASE SubmitAccepted
  <2>1. PICK j \in TheJobs :
          /\ NextId(j) /\ fjob' = [fjob EXCEPT ![j] = NewJob("pending", FALSE)] /\ board' = j
          /\ \/ cmd' = [cmd EXCEPT !.pc = IF cmd.kind = "batch" THEN "poll" ELSE "connect", !.job = j]
             \/ NoAnswer
    BY <1>3 DEF SubmitAccepted
  <2>2. \A i \in TheJobs : ~ Flashes(i)
    BY <1>2, <1>3 DEF SubmitAccepted, CmdInv, HasBoard
  <2>3. /\ \A i \in TheJobs \ {j} : fjob'[i] = fjob[i]
        /\ fjob'[j].status = "pending" /\ fjob'[j].at = "queue" /\ fjob'[j].image = cmd.image
        /\ fjob[j].status = "none"
    BY <1>1, <2>1 DEF NewJob, NextId
  <2>4. JobsSane' /\ HasBoard' /\ \A i : Flashed(i) => Flashed(i)'
    <3>1. JobsSane'
      BY <2>3 DEF CmdInv, JobsSane
    <3>2. \A i \in TheJobs \ {j} : ~ Flashes(i)'
      BY <2>2, <2>3 DEF Flashes
    <3>3. HasBoard'
      BY <2>1, <3>2 DEF HasBoard
    <3>4. \A i : Flashed(i) => Flashed(i)'
      BY <2>3 DEF Flashed
    <3>5. QED
      BY <3>1, <3>3, <3>4
  <2>5. CASE NoAnswer
    BY <1>1, <2>4, <2>5, Retreating
  <2>6. CASE cmd' = [cmd EXCEPT !.pc = IF cmd.kind = "batch" THEN "poll" ELSE "connect", !.job = j]
    <3>1. cmd'.job = j /\ cmd'.image = cmd.image /\ cmd'.pc # "ok"
      BY <1>1, <2>6 DEF CmdType
    <3>2. \A i \in TheJobs : Flashes(i)' => i = j
      BY <2>2, <2>3 DEF Flashes
    <3>3. Awaited'
      BY <2>3, <3>1, <3>2 DEF Awaited
    <3>4. QED
      BY <2>4, <3>1, <3>3
  <2>7. QED
    BY <2>1, <2>5, <2>6
<1>4. CASE SubmitRefused
  <2>1. PICK j \in TheJobs :
          NextId(j) /\ fjob' = [fjob EXCEPT ![j] = NewJob("failed", TRUE)]
    BY <1>4 DEF SubmitRefused
  <2>2. UNCHANGED board /\ cmd' = [cmd EXCEPT !.pc = IF @ = "submit" THEN "refused" ELSE "refusedAgain"]
    BY <1>4 DEF SubmitRefused
  <2>3. /\ \A i \in TheJobs \ {j} : fjob'[i] = fjob[i]
        /\ fjob'[j].status = "failed" /\ fjob'[j].at = "queue" /\ fjob'[j].loose
        /\ fjob[j].status = "none"
    BY <1>1, <2>1 DEF NewJob, NextId
  <2>4. JobsSane' /\ HasBoard' /\ \A i : Flashed(i) => Flashed(i)'
    BY <2>2, <2>3 DEF CmdInv, JobsSane, HasBoard, Flashed, Flashes
  <2>5. Retreat
    BY <1>1, <2>2 DEF Retreat, CmdType
  <2>6. QED
    BY <2>4, <2>5
<1>5. QED
  BY <1>3, <1>4

\* The waits of a command: what the job it waits for has become.
LEMMA WaitSteps ==
  ASSUME CmdTypeOK, CmdInv, StreamCompletes \/ StreamBreaks \/ WaitForJob \/ ConnectProgress
  PROVE  ImagesBefore' /\ Awaited' /\ AllFlashed'
<1>1. cmd \in CmdType
  BY DEF CmdTypeOK, CmdType, Pcs
<1>2. UNCHANGED fjob
  BY DEF StreamCompletes, StreamBreaks, WaitForJob, ConnectProgress
<1>3. CASE NextAttempt
  <2>1. Retreat
    BY <1>1, <1>3, Retreating
  <2>2. QED
    BY <1>1, <1>2, <2>1 DEF Retreat, CmdInv, ImagesBefore, Flashed, Awaited, AllFlashed
<1>4. CASE cmd.pc = "connect" /\ To("stream")
  <2>1. cmd'.pc = "stream" /\ cmd'.image = cmd.image /\ cmd'.job = cmd.job
    BY <1>1, <1>4 DEF To, CmdType
  <2>2. QED
    BY <1>2, <1>4, <2>1 DEF CmdInv, ImagesBefore, Flashed, Awaited, AllFlashed, Flashes
<1>5. CASE cmd.pc \in {"stream", "poll"} /\ fjob[cmd.job].status = "completed" /\ ImageDone
  <2>1. cmd.job \in TheJobs /\ fjob[cmd.job].image = cmd.image
        /\ \A j \in TheJobs : Flashes(j) => j = cmd.job
    BY <1>5 DEF CmdInv, Awaited
  <2>2. Flashed(cmd.image)
    BY <1>5, <2>1 DEF Flashed
  <2>3. \A i \in 1..cmd.image : Flashed(i)
    BY <1>1, <2>2 DEF CmdInv, ImagesBefore, CmdType
  <2>4. \A j \in TheJobs : ~ Flashes(j)
    BY <1>5, <2>1 DEF Flashes
  <2>5. CASE cmd.image < Images /\ cmd' = [cmd EXCEPT !.pc = "upload", !.image = @ + 1]
    <3>1. cmd'.pc = "upload" /\ cmd'.image = cmd.image + 1
      BY <1>1, <2>5 DEF CmdType
    <3>2. cmd'.image - 1 = cmd.image
      BY <1>1, <3>1 DEF CmdType
    <3>3. QED
      BY <1>2, <2>3, <3>1, <3>2 DEF ImagesBefore, Flashed, Awaited, AllFlashed
  <2>6. CASE ~ (cmd.image < Images) /\ To("ok")
    <3>1. cmd'.pc = "ok" /\ cmd'.image = cmd.image /\ cmd'.kind = cmd.kind
      BY <1>1, <2>6 DEF To, CmdType
    <3>2. Images' = Images /\ Images \in Nat
      BY <3>1 DEF Images
    <3>3. \A i \in 1..Images : i \in 1..cmd.image
      BY <1>1, <2>6, <3>2 DEF CmdType
    <3>4. ImagesBefore'
      BY <1>2, <3>1 DEF CmdInv, ImagesBefore, Flashed
    <3>5. AllFlashed'
      BY <1>2, <2>3, <2>4, <3>2, <3>3 DEF AllFlashed, Flashed, Flashes
    <3>6. QED
      BY <3>1, <3>4, <3>5 DEF Awaited
  <2>7. QED
    BY <1>5, <2>5, <2>6 DEF ImageDone
<1>6. QED
  BY <1>3, <1>4, <1>5 DEF StreamCompletes, StreamBreaks, WaitForJob, ConnectProgress

LEMMA CmdInvStep == CmdInv /\ [CmdNext]_cmdVars => CmdInv'
<1> SUFFICES ASSUME CmdInv, [CmdNext]_cmdVars PROVE CmdInv'
  OBVIOUS
<1>1. CmdTypeOK /\ CmdTypeOK' /\ cmd \in CmdType
  BY CmdTypeStep DEF CmdInv, CmdTypeOK, CmdType, Pcs
<1>2. SUFFICES JobsSane' /\ HasBoard' /\ ImagesBefore' /\ Awaited' /\ AllFlashed'
  BY <1>1 DEF CmdInv
<1>3. CASE SubmitAccepted \/ SubmitRefused
  <2>1. JobsSane' /\ HasBoard' /\ (\A i : Flashed(i) => Flashed(i)')
        /\ (Retreat \/ (Awaited' /\ cmd'.pc # "ok" /\ cmd'.image = cmd.image))
    BY <1>1, <1>3, SubmitSteps
  <2>2. cmd'.image \in {1, cmd.image} /\ cmd'.pc # "ok"
    BY <2>1 DEF Retreat
  <2>3. ImagesBefore'
    BY <2>1, <2>2 DEF CmdInv, ImagesBefore
  <2>4. Awaited' /\ AllFlashed'
    BY <2>1, <2>2 DEF Retreat, Awaited, AllFlashed
  <2>5. QED
    BY <2>1, <2>3, <2>4
<1>4. CASE StreamCompletes \/ StreamBreaks \/ WaitForJob \/ ConnectProgress
  <2>1. UNCHANGED <<fjob, board>>
    BY <1>4 DEF StreamCompletes, StreamBreaks, WaitForJob, ConnectProgress
  <2>2. QED
    BY <1>1, <1>4, <2>1, WaitSteps DEF CmdInv, JobsSane, HasBoard, Flashes
<1>5. CASE Upload \/ SubmitLost \/ RefusalArrives \/ SubmitRejected \/ Settle
  <2>1. UNCHANGED <<fjob, board>>
    BY <1>5 DEF Upload, SubmitLost, RefusalArrives, SubmitRejected, Settle
  <2>2. Gives \/ NoAnswer => Retreat
    BY <1>1, Retreating
  <2>3. /\ To("settle") \/ To("failed") => Retreat
        /\ cmd' = [cmd EXCEPT !.pc = "submit", !.sends = 0] => Retreat
        /\ cmd' = [cmd EXCEPT !.pc = "resubmit", !.sends = 0] => Retreat
    BY <1>1 DEF To, Retreat, CmdType
  <2>4. Retreat
    BY <1>5, <2>2, <2>3 DEF Upload, SubmitLost, RefusalArrives, SubmitRejected, Settle
  <2>5. QED
    BY <2>1, <2>4 DEF Retreat, CmdInv, JobsSane, HasBoard, ImagesBefore, Awaited, AllFlashed, Flashes, Flashed
<1>6. ASSUME NEW j \in TheJobs, LeaderStep(j)
      PROVE  JobsSane' /\ HasBoard' /\ ImagesBefore' /\ Awaited' /\ AllFlashed'
  <2>1. cmd' = cmd /\ JobsSane' /\ HasBoard' /\ JobsGoOn
    BY <1>1, <1>6, LeaderSteps DEF CmdInv
  <2>2. \A i : Flashed(i) => Flashed(i)'
    BY <2>1 DEF JobsGoOn, Flashed
  <2>3. ImagesBefore'
    BY <2>1, <2>2 DEF CmdInv, ImagesBefore
  <2>4. Awaited'
    BY <2>1 DEF CmdInv, Awaited, JobsGoOn
  <2>5. AllFlashed'
    BY <2>1, <2>2 DEF CmdInv, AllFlashed, JobsGoOn, Images
  <2>6. QED
    BY <2>1, <2>3, <2>4, <2>5
<1>7. CASE OtherTakes \/ OtherGives
  <2>1. UNCHANGED <<cmd, fjob>> /\ board \notin TheJobs
    BY <1>7 DEF OtherTakes, OtherGives, TheJobs, Other
  <2>2. JobsSane' /\ ImagesBefore' /\ Awaited' /\ AllFlashed'
    BY <2>1 DEF CmdInv, JobsSane, ImagesBefore, Awaited, AllFlashed, Flashes, Flashed, Images
  <2>3. HasBoard'
    BY <2>1 DEF CmdInv, HasBoard, Flashes
  <2>4. QED
    BY <2>2, <2>3
<1>8. CASE UNCHANGED cmdVars
  BY <1>8 DEF cmdVars, CmdInv, JobsSane, HasBoard, ImagesBefore, Awaited, AllFlashed, Flashes,
              Flashed, Images
<1>9. QED
  BY <1>3, <1>4, <1>5, <1>6, <1>7, <1>8 DEF CmdNext, LeaderStep

LEMMA CmdInvariant == CmdSpec => []CmdInv
  BY CmdInitInv, CmdInvStep, PTL DEF CmdSpec

\* flash, flash with several images and flash-batch report success only when every
\* image was flashed by a job that completed.
THEOREM SuccessCorrect == CmdSpec => []SuccessIsCompletion
<1>1. CmdInv => SuccessIsCompletion
  BY DEF CmdInv, AllFlashed, SuccessIsCompletion, Flashed
<1>2. QED
  BY <1>1, CmdInvariant, PTL

\* When they do, no job they submitted, known to them or not, still flashes under
\* its reservation.
THEOREM NothingFlashesAfterSuccess == CmdSpec => []NothingStillFlashes
<1>1. CmdInv => NothingStillFlashes
  <2> SUFFICES ASSUME CmdInv, cmd.pc = "ok", NEW j \in TheJobs,
                      fjob[j].status \in {"pending", "running"}
               PROVE  fjob[j].loose
    BY DEF NothingStillFlashes
  <2>1. ~ Flashes(j)
    BY DEF CmdInv, AllFlashed
  <2>2. fjob[j].loose \in BOOLEAN
    BY DEF CmdInv, CmdTypeOK
  <2>3. QED
    BY <2>1, <2>2 DEF Flashes
<1>2. QED
  BY <1>1, CmdInvariant, PTL
-----------------------------------------------------------------------------
(* The leader's queue and its clients together.                             *)

\* The queue, the commands and the page keep their types and bounds, whichever
\* of them moves.
THEOREM JobsTypes == MCSpec => []JobsTypeOK
<1> DEFINE Inv == TypeOK /\ CmdTypeOK /\ WebInv
<1>1. MCInit => Inv
  BY InitTypeOK, CmdInitInv, WebInitInv DEF MCInit, CmdInv
<1>2. Inv /\ [MCNext]_<<part, vars, cmdVars, webVars>> => Inv'
  <2> SUFFICES ASSUME Inv, [MCNext]_<<part, vars, cmdVars, webVars>> PROVE Inv'
    OBVIOUS
  <2>1. [Next]_vars /\ [CmdNext]_cmdVars /\ [WebNext]_webVars
    BY DEF MCNext
  <2>2. QED
    BY <2>1, TypeStep, CmdTypeStep, WebStep
<1>3. Inv => JobsTypeOK
  BY DEF JobsTypeOK, WebInv
<1>4. QED
  BY <1>1, <1>2, <1>3, PTL DEF MCSpec
=============================================================================
