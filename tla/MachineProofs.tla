---------------------------- MODULE MachineProofs ----------------------------
(***************************************************************************)
(* Proofs about the self-update and the Docker page.  For any number of    *)
(* releases, replies and installations the dialog says what is so, and only*)
(* a whole bundle of a newer release replaces the app.  For any containers,*)
(* images and changes, and whatever docker answers or leaves unanswered,   *)
(* the page's flags are those of what is under way, and nothing it shows is*)
(* replaced by something older.                                            *)
(***************************************************************************)
EXTENDS Updater, DockerPage, SequenceTheorems, TLAPS

(* What is offered, fetched, ready or unpacked is a release.               *)
ReleaseIsKnown ==
  /\ uState \in {"available", "downloading", "ready", "installing"} => latest # 0
  /\ flying["download"] # {} => latest # 0

(* A bundle waits for the script only once the app has quit into it.       *)
HandedMeansGone == handed # 0 => uState = "gone"

(* From offer to installation, everything is about the version on offer.   *)
OfferIsNewer ==
  uState \in {"available", "downloading", "ready", "installing"} => latest > installed
PathIsLatest ==
  /\ uState \in {"downloading", "ready", "installing"} => path = latest
  /\ \A d \in dittos : d.version = latest
ZipIsWhole == uState \in {"ready", "installing"} => disk[latest] = "full"
WritesOnlyDownloads == uState # "downloading" => reply["download"] = 0
HandedIsWhole == handed # 0 => bundles[handed] = "full" /\ handed > installed

OneReplyEach ==
  /\ flying["check"] = IF uState = "checking" THEN {reply["check"]} ELSE {}
  /\ flying["download"] = IF uState = "downloading" THEN {reply["download"]} ELSE {}
OneDitto == {d.id : d \in dittos} = IF uState = "installing" THEN {ditto} ELSE {}

(* What holds until somebody checks during an installation.                *)
Undisturbed ==
  /\ OneReplyEach /\ OneDitto
  /\ OfferIsNewer /\ PathIsLatest /\ ZipIsWhole
  /\ WritesOnlyDownloads /\ HandedIsWhole

UpdaterIInv ==
  /\ UpdaterTypeOK
  /\ ReleaseIsKnown
  /\ HandedMeansGone
  /\ ~overlap => Undisturbed

-----------------------------------------------------------------------------
LEMMA InitUpdaterIInv == UpdaterInit => UpdaterIInv
<1> SUFFICES ASSUME UpdaterInit PROVE UpdaterIInv
  OBVIOUS
<1>1. 0 \in 0..Newest /\ 1 \in 0..Newest /\ 1 \in Releases /\ 0 \in 0..MaxReplies /\ 0 \in 0..MaxInstalls
  BY UpdaterAssumption DEF Releases
<1>2. UpdaterTypeOK
  BY <1>1 DEF UpdaterInit, UpdaterTypeOK, UState, ReplyKinds, Contents
<1>3. ReleaseIsKnown /\ HandedMeansGone
  BY DEF UpdaterInit, ReleaseIsKnown, HandedMeansGone, ReplyKinds
<1>4. Undisturbed
  BY DEF UpdaterInit, Undisturbed, OneReplyEach, OneDitto, OfferIsNewer, PathIsLatest, ZipIsWhole,
         WritesOnlyDownloads, HandedIsWhole, ReplyKinds
<1>5. QED
  BY <1>2, <1>3, <1>4 DEF UpdaterIInv

(* What a new request, and the end of one, do to the members.              *)
LEMMA RequestFacts ==
  ASSUME UpdaterTypeOK, NEW k \in ReplyKinds, Request(k)
  PROVE  /\ asked' \in [ReplyKinds -> 0..MaxReplies]
         /\ reply' \in [ReplyKinds -> 0..MaxReplies]
         /\ flying' \in [ReplyKinds -> SUBSET (1..MaxReplies)]
         /\ flying'[k] = flying[k] \cup {reply'[k]}
         /\ \A j \in ReplyKinds \ {k} : flying'[j] = flying[j] /\ reply'[j] = reply[j]
<1>1. asked[k] + 1 \in 1..MaxReplies /\ asked'[k] = asked[k] + 1
  BY UpdaterAssumption DEF Request, UpdaterTypeOK
<1>2. QED
  BY <1>1 DEF Request, UpdaterTypeOK

LEMMA FinishesFacts ==
  ASSUME UpdaterTypeOK, NEW k \in ReplyKinds, NEW r \in 1..MaxReplies, Finishes(k, r)
  PROVE  /\ reply' \in [ReplyKinds -> 0..MaxReplies]
         /\ flying' \in [ReplyKinds -> SUBSET (1..MaxReplies)]
         /\ r \in flying[k] /\ flying'[k] = flying[k] \ {r} /\ reply'[k] = 0
         /\ \A j \in ReplyKinds \ {k} : flying'[j] = flying[j] /\ reply'[j] = reply[j]
<1>1. 0 \in 0..MaxReplies
  BY UpdaterAssumption
<1>2. QED
  BY <1>1 DEF Finishes, UpdaterTypeOK

LEMMA CheckIInv ==
  ASSUME UpdaterIInv, Check \/ Startup
  PROVE  UpdaterIInv'
<1> USE DEF UpdaterIInv
<1>1. "check" \in ReplyKinds /\ "download" \in ReplyKinds
  BY DEF ReplyKinds
<1>2. /\ uState \notin {"checking", "downloading", "gone"} /\ uState' = "checking"
      /\ Request("check") /\ overlap' = (overlap \/ uState = "installing")
      /\ due' \in {due, FALSE}
      /\ UNCHANGED <<latest, zip, offer, path, disk, ditto, dittos, bundles, handed,
                     installed, published>>
  BY DEF Check, Startup, checkForUpdates
<1>3. UpdaterTypeOK'
  BY <1>1, <1>2, RequestFacts DEF UpdaterTypeOK, UState
<1>4. flying'["check"] = flying["check"] \cup {reply'["check"]}
      /\ flying'["download"] = flying["download"] /\ reply'["download"] = reply["download"]
  BY <1>1, <1>2, RequestFacts
<1>5. ReleaseIsKnown' /\ HandedMeansGone'
  BY <1>2, <1>4 DEF ReleaseIsKnown, HandedMeansGone
<1>6. ASSUME ~overlap' PROVE Undisturbed'
  <2>1. ~overlap /\ uState # "installing"
    BY <1>2, <1>6
  <2>2. OneReplyEach'
    BY <1>2, <1>4, <2>1 DEF Undisturbed, OneReplyEach
  <2>3. OneDitto'
    BY <1>2, <2>1 DEF Undisturbed, OneDitto
  <2>4. OfferIsNewer' /\ PathIsLatest' /\ ZipIsWhole' /\ WritesOnlyDownloads' /\ HandedIsWhole'
    BY <1>2, <1>4, <2>1
       DEF Undisturbed, OfferIsNewer, PathIsLatest, ZipIsWhole, WritesOnlyDownloads, HandedIsWhole
  <2>5. QED
    BY <2>2, <2>3, <2>4 DEF Undisturbed
<1>7. QED
  BY <1>3, <1>5, <1>6

LEMMA CheckFinishedIInv ==
  ASSUME UpdaterIInv, uState # "gone", NEW r \in 1..MaxReplies, CheckFinished(r)
  PROVE  UpdaterIInv'
<1> USE DEF UpdaterIInv
<1>1. "check" \in ReplyKinds /\ "download" \in ReplyKinds
  BY DEF ReplyKinds
<1>2. /\ r \in flying["check"] /\ flying'["check"] = flying["check"] \ {r}
      /\ flying'["download"] = flying["download"] /\ reply'["download"] = reply["download"]
      /\ reply' \in [ReplyKinds -> 0..MaxReplies]
      /\ flying' \in [ReplyKinds -> SUBSET (1..MaxReplies)]
  BY <1>1, FinishesFacts DEF CheckFinished
<1>3. UNCHANGED <<asked, path, disk, ditto, dittos, bundles, handed, installed,
                  published, due, overlap>>
  BY DEF CheckFinished
(* The state stays, becomes an error, or tells of a release.               *)
<1>4. \/ UNCHANGED <<uState, latest, zip, offer>> /\ reply["check"] = 0
      \/ uState' = "error" /\ offer' = FALSE /\ UNCHANGED <<latest, zip>>
      \/ /\ latest' = published /\ zip' \in BOOLEAN /\ offer' \in BOOLEAN
         /\ uState' \in {"available", "upToDate"}
         /\ uState' = "available" => published > installed
  <2>1. ASSUME NEW macZip \in BOOLEAN
        PROVE  /\ Parsed(published, macZip).latest = published
               /\ Parsed(published, macZip).newer \in BOOLEAN
               /\ Parsed(published, macZip).zip \in BOOLEAN
               /\ Parsed(published, macZip).newer => published > installed
    <3>1. Parsed(published, macZip).newer = (published > installed)
          /\ Parsed(published, macZip).latest = published
      BY DEF Parsed
    <3>2. Parsed(published, macZip).zip = (published # 0 /\ macZip)
      BY DEF Parsed
    <3>3. (published > installed) \in BOOLEAN /\ (published # 0 /\ macZip) \in BOOLEAN
      OBVIOUS
    <3>4. QED
      BY <3>1, <3>2, <3>3
  <2>2. QED
    BY <2>1 DEF CheckFinished, setError
<1>5. published \in 0..Newest /\ published # 0
  BY UpdaterAssumption DEF UpdaterTypeOK, Releases
<1>6. UpdaterTypeOK'
  <2>1. uState' \in UState /\ latest' \in 0..Newest
    BY <1>4, <1>5 DEF UpdaterTypeOK, UState
  <2>2. zip' \in BOOLEAN /\ offer' \in BOOLEAN
    BY <1>4 DEF UpdaterTypeOK
  <2>3. QED
    BY <1>2, <1>3, <2>1, <2>2 DEF UpdaterTypeOK
<1>7. ReleaseIsKnown' /\ HandedMeansGone'
  BY <1>2, <1>3, <1>4, <1>5 DEF ReleaseIsKnown, HandedMeansGone
<1>8. ASSUME ~overlap' PROVE Undisturbed'
  <2>1. ~overlap /\ uState = "checking" /\ r = reply["check"] /\ flying["download"] = {}
    BY <1>2, <1>3, <1>8 DEF Undisturbed, OneReplyEach
  <2>2. flying'["check"] = {} /\ uState' \in {"error", "available", "upToDate"} /\ dittos = {}
    <3>1. dittos = {}
      BY <2>1 DEF Undisturbed, OneDitto
    <3>2. flying'["check"] = {}
      BY <1>2, <2>1 DEF Undisturbed, OneReplyEach
    <3>3. QED
      BY <1>4, <2>1, <3>1, <3>2
  <2>3. OneReplyEach'
    BY <1>2, <2>1, <2>2 DEF OneReplyEach
  <2>4. OneDitto'
    BY <1>3, <2>2 DEF OneDitto
  <2>5. OfferIsNewer' /\ PathIsLatest' /\ ZipIsWhole'
    BY <1>3, <1>4, <2>1, <2>2 DEF Undisturbed, OfferIsNewer, PathIsLatest, ZipIsWhole
  <2>6. WritesOnlyDownloads' /\ HandedIsWhole'
    BY <1>2, <1>3, <2>1 DEF Undisturbed, WritesOnlyDownloads, HandedIsWhole
  <2>7. QED
    BY <2>3, <2>4, <2>5, <2>6 DEF Undisturbed
<1>9. QED
  BY <1>6, <1>7, <1>8

LEMMA DownloadIInv ==
  ASSUME UpdaterIInv, Download
  PROVE  UpdaterIInv'
<1> USE DEF UpdaterIInv
<1>1. "check" \in ReplyKinds /\ "download" \in ReplyKinds
  BY DEF ReplyKinds
<1>2. /\ uState = "available" /\ latest \in Releases /\ path' = latest
      /\ UNCHANGED <<latest, zip, ditto, dittos, bundles, handed, installed, published,
                     due, overlap>>
  BY UpdaterAssumption DEF Download, ReleaseIsKnown, UpdaterTypeOK, Releases
<1>3. ASSUME ~overlap
      PROVE  /\ flying["check"] = {} /\ flying["download"] = {} /\ dittos = {}
             /\ latest > installed /\ reply["download"] = 0
  BY <1>2, <1>3 DEF Undisturbed, OneReplyEach, OneDitto, OfferIsNewer, WritesOnlyDownloads
<1>4. CASE uState' = "error"
  <2>1. offer' = FALSE /\ UNCHANGED <<reply, flying, asked>>
        /\ disk' = [disk EXCEPT ![latest] = "absent"]
    BY <1>4 DEF Download, setError
  <2>2. UpdaterTypeOK'
    BY <1>2, <1>4, <2>1 DEF UpdaterTypeOK, UState, Contents, Releases
  <2>3. ReleaseIsKnown' /\ HandedMeansGone'
    BY <1>2, <1>4, <2>1 DEF ReleaseIsKnown, HandedMeansGone
  <2>4. ASSUME ~overlap' PROVE Undisturbed'
    BY <1>2, <1>3, <1>4, <2>1, <2>4
       DEF Undisturbed, OneReplyEach, OneDitto, OfferIsNewer, PathIsLatest, ZipIsWhole,
           WritesOnlyDownloads, HandedIsWhole
  <2>5. QED
    BY <2>2, <2>3, <2>4
<1>5. CASE uState' # "error"
  <2>1. /\ uState' = "downloading" /\ Request("download") /\ UNCHANGED offer
        /\ disk' = [disk EXCEPT ![latest] = "empty"]
    BY <1>5 DEF Download, setError
  <2>2. /\ asked' \in [ReplyKinds -> 0..MaxReplies]
        /\ reply' \in [ReplyKinds -> 0..MaxReplies]
        /\ flying' \in [ReplyKinds -> SUBSET (1..MaxReplies)]
        /\ flying'["download"] = flying["download"] \cup {reply'["download"]}
        /\ flying'["check"] = flying["check"] /\ reply'["check"] = reply["check"]
    BY <1>1, <2>1, RequestFacts
  <2>3. UpdaterTypeOK'
    BY <1>2, <2>1, <2>2 DEF UpdaterTypeOK, UState, Contents, Releases
  <2>4. ReleaseIsKnown' /\ HandedMeansGone'
    BY <1>2, <2>1 DEF ReleaseIsKnown, HandedMeansGone, Releases
  <2>5. ASSUME ~overlap' PROVE Undisturbed'
    BY <1>2, <1>3, <2>1, <2>2, <2>5
       DEF Undisturbed, OneReplyEach, OneDitto, OfferIsNewer, PathIsLatest, ZipIsWhole,
           WritesOnlyDownloads, HandedIsWhole
  <2>6. QED
    BY <2>3, <2>4, <2>5
<1>6. QED
  BY <1>4, <1>5

LEMMA ReadyReadIInv ==
  ASSUME UpdaterIInv, ReadyRead
  PROVE  UpdaterIInv'
<1> USE DEF UpdaterIInv
<1>1. /\ disk' = [disk EXCEPT ![path] = "part"] /\ reply["download"] # 0
      /\ UNCHANGED <<uState, latest, zip, offer, reply, flying, asked, path, ditto, dittos,
                     bundles, handed, installed, published, due, overlap>>
  BY DEF ReadyRead
<1>2. UpdaterTypeOK'
  BY <1>1 DEF UpdaterTypeOK, Contents
<1>3. ReleaseIsKnown' /\ HandedMeansGone'
  BY <1>1 DEF ReleaseIsKnown, HandedMeansGone
<1>4. ASSUME ~overlap' PROVE Undisturbed'
  <2>1. uState = "downloading"
    BY <1>1, <1>4 DEF Undisturbed, WritesOnlyDownloads
  <2>2. ZipIsWhole'
    BY <1>1, <2>1 DEF ZipIsWhole
  <2>3. QED
    BY <1>1, <1>4, <2>2
       DEF Undisturbed, OneReplyEach, OneDitto, OfferIsNewer, PathIsLatest, WritesOnlyDownloads,
           HandedIsWhole
<1>5. QED
  BY <1>2, <1>3, <1>4

(* The end of a download, its own or by cancel, leaves offer and path.     *)
LEMMA DownloadEndsIInv ==
  ASSUME UpdaterIInv, uState # "gone", NEW r \in 1..MaxReplies,
         DownloadFinished(r) \/ (CancelDownload /\ r = reply["download"])
  PROVE  UpdaterIInv'
<1> USE DEF UpdaterIInv
<1>1. "check" \in ReplyKinds /\ "download" \in ReplyKinds
  BY DEF ReplyKinds
<1>2. /\ r \in flying["download"] /\ flying'["download"] = flying["download"] \ {r}
      /\ flying'["check"] = flying["check"] /\ reply'["check"] = reply["check"]
      /\ reply'["download"] = 0
      /\ reply' \in [ReplyKinds -> 0..MaxReplies]
      /\ flying' \in [ReplyKinds -> SUBSET (1..MaxReplies)]
  BY <1>1, FinishesFacts DEF DownloadFinished, CancelDownload
<1>3. UNCHANGED <<latest, zip, asked, path, ditto, dittos, bundles, handed, installed,
                  published, due, overlap>>
  BY DEF DownloadFinished, CancelDownload
<1>4. \/ UNCHANGED <<uState, offer, disk>> /\ reply["download"] = 0
      \/ /\ uState' \in {"error", "available"} /\ offer' \in BOOLEAN
         /\ disk' = [disk EXCEPT ![path] = "absent"]
      \/ /\ uState' = "ready" /\ UNCHANGED offer /\ reply["download"] # 0
         /\ disk' = [disk EXCEPT ![path] = IF reply["download"] = r THEN "full" ELSE @]
  BY DEF DownloadFinished, CancelDownload, setError
<1>5. disk' \in [Releases -> Contents]
  <2>1. CASE disk' = disk
    BY <2>1 DEF UpdaterTypeOK
  <2>2. CASE disk' = [disk EXCEPT ![path] = "absent"]
    BY <2>2 DEF UpdaterTypeOK, Contents
  <2>3. CASE disk' = [disk EXCEPT ![path] = IF reply["download"] = r THEN "full" ELSE @]
    BY <2>3 DEF UpdaterTypeOK, Contents
  <2>4. QED
    BY <1>4, <2>1, <2>2, <2>3
<1>6. UpdaterTypeOK'
  <2>1. uState' \in UState
    BY <1>4 DEF UpdaterTypeOK, UState
  <2>2. offer' \in BOOLEAN
    BY <1>4 DEF UpdaterTypeOK
  <2>3. QED
    BY <1>2, <1>3, <1>5, <2>1, <2>2 DEF UpdaterTypeOK
<1>7. ReleaseIsKnown' /\ HandedMeansGone'
  BY <1>2, <1>3, <1>4 DEF ReleaseIsKnown, HandedMeansGone
<1>8. ASSUME ~overlap' PROVE Undisturbed'
  <2>1. ~overlap /\ uState = "downloading" /\ r = reply["download"] /\ flying["check"] = {}
    BY <1>2, <1>3, <1>8 DEF Undisturbed, OneReplyEach
  <2>2. flying'["download"] = {} /\ dittos = {} /\ path = latest /\ latest > installed
    BY <1>2, <2>1 DEF Undisturbed, OneReplyEach, OneDitto, PathIsLatest, OfferIsNewer
  <2>3. uState' \in {"error", "available", "ready"}
    BY <1>4, <2>1
  <2>4. ZipIsWhole'
    <3>1. path \in Releases
      BY <1>7, <2>1, <2>2 DEF ReleaseIsKnown, UpdaterTypeOK, Releases
    <3>2. QED
      BY <1>3, <1>4, <2>1, <2>2, <2>3, <3>1 DEF ZipIsWhole, UpdaterTypeOK
  <2>5. OneReplyEach' /\ OneDitto'
    BY <1>2, <1>3, <2>1, <2>2, <2>3 DEF OneReplyEach, OneDitto
  <2>6. OfferIsNewer' /\ PathIsLatest' /\ WritesOnlyDownloads'
    BY <1>2, <1>3, <2>2, <2>3 DEF OfferIsNewer, PathIsLatest, WritesOnlyDownloads
  <2>7. HandedIsWhole'
    BY <1>3, <2>1 DEF Undisturbed, HandedIsWhole
  <2>8. QED
    BY <2>4, <2>5, <2>6, <2>7 DEF Undisturbed
<1>9. QED
  BY <1>6, <1>7, <1>8

LEMMA InstallIInv ==
  ASSUME UpdaterIInv, installAndRestart
  PROVE  UpdaterIInv'
<1> USE DEF UpdaterIInv
<1>1. PICK id \in 1..MaxInstalls :
        ditto' = id /\ dittos' = dittos \cup {[id |-> id, version |-> latest]}
  BY DEF installAndRestart
<1>2. /\ uState = "ready" /\ uState' = "installing"
      /\ bundles' = [bundles EXCEPT ![latest] = "part"]
      /\ UNCHANGED <<latest, zip, offer, reply, flying, asked, path, disk, handed, installed,
                     published, due, overlap>>
  BY DEF installAndRestart
<1>3. latest \in Releases /\ handed = 0
  BY <1>2, UpdaterAssumption DEF ReleaseIsKnown, HandedMeansGone, UpdaterTypeOK, Releases
<1>4. UpdaterTypeOK'
  <2>1. ditto' \in 0..MaxInstalls /\ dittos' \subseteq [id : 1..MaxInstalls, version : Releases]
    BY <1>1, <1>3, UpdaterAssumption DEF UpdaterTypeOK
  <2>2. QED
    BY <1>2, <2>1 DEF UpdaterTypeOK, UState, Contents
<1>5. ReleaseIsKnown' /\ HandedMeansGone'
  BY <1>2, <1>3 DEF ReleaseIsKnown, HandedMeansGone, Releases
<1>6. ASSUME ~overlap' PROVE Undisturbed'
  <2>1. Undisturbed /\ dittos = {}
    BY <1>2, <1>6 DEF Undisturbed, OneDitto
  <2>2. OneReplyEach' /\ WritesOnlyDownloads' /\ HandedIsWhole'
    BY <1>2, <1>3, <2>1 DEF Undisturbed, OneReplyEach, WritesOnlyDownloads, HandedIsWhole
  <2>3. OneDitto'
    BY <1>1, <1>2, <2>1 DEF OneDitto
  <2>4. OfferIsNewer' /\ PathIsLatest' /\ ZipIsWhole'
    BY <1>1, <1>2, <2>1 DEF Undisturbed, OfferIsNewer, PathIsLatest, ZipIsWhole
  <2>5. QED
    BY <2>2, <2>3, <2>4 DEF Undisturbed
<1>7. QED
  BY <1>4, <1>5, <1>6

LEMMA ExtractFinishedIInv ==
  ASSUME UpdaterIInv, uState # "gone", NEW d \in dittos, ExtractFinished(d)
  PROVE  UpdaterIInv'
<1> USE DEF UpdaterIInv
<1>1. /\ ditto' = 0 /\ dittos' = {e \in dittos : e # d /\ e.id # ditto}
      /\ UNCHANGED <<latest, zip, reply, flying, asked, path, disk, installed, published,
                     due, overlap>>
  BY DEF ExtractFinished
<1>2. PICK ok \in BOOLEAN :
        /\ Unpacked(d, ok)
        /\ \/ uState' = "error" /\ offer' = FALSE /\ UNCHANGED handed
           \/ uState' = "gone" /\ handed' = latest /\ UNCHANGED offer /\ ok
  BY DEF ExtractFinished, setError
<1>3. handed = 0 /\ d.version \in Releases
  BY DEF HandedMeansGone, UpdaterTypeOK
<1>4. UpdaterTypeOK'
  <2>1. bundles' \in [Releases -> Contents]
    BY <1>2 DEF Unpacked, UpdaterTypeOK, Contents
  <2>2. ditto' \in 0..MaxInstalls /\ dittos' \subseteq [id : 1..MaxInstalls, version : Releases]
    BY <1>1, UpdaterAssumption DEF UpdaterTypeOK
  <2>3. uState' \in UState /\ handed' \in 0..Newest /\ offer' \in BOOLEAN
    BY <1>2 DEF UpdaterTypeOK, UState
  <2>4. QED
    BY <1>1, <2>1, <2>2, <2>3 DEF UpdaterTypeOK
<1>5. ReleaseIsKnown' /\ HandedMeansGone'
  BY <1>1, <1>2, <1>3 DEF ReleaseIsKnown, HandedMeansGone
<1>6. ASSUME ~overlap' PROVE Undisturbed'
  <2>1. Undisturbed /\ uState = "installing"
    BY <1>1, <1>6 DEF Undisturbed, OneDitto
  <2>2. OneReplyEach' /\ WritesOnlyDownloads'
    BY <1>1, <1>2, <2>1 DEF Undisturbed, OneReplyEach, WritesOnlyDownloads
  <2>3. dittos' = {}
    <3>1. \A e \in dittos : e.id = ditto
      BY <2>1 DEF Undisturbed, OneDitto
    <3>2. QED
      BY <1>1, <3>1
  <2>4. OneDitto' /\ OfferIsNewer' /\ PathIsLatest' /\ ZipIsWhole'
    BY <1>2, <2>3 DEF OneDitto, OfferIsNewer, PathIsLatest, ZipIsWhole
  <2>5. HandedIsWhole'
    <3>1. d.version = latest /\ disk[latest] = "full" /\ latest > installed
      BY <2>1 DEF Undisturbed, PathIsLatest, ZipIsWhole, OfferIsNewer
    <3>2. ok => bundles'[latest] = "full"
      BY <1>2, <1>3, <3>1 DEF Unpacked, UpdaterTypeOK
    <3>3. QED
      BY <1>1, <1>2, <1>3, <3>1, <3>2 DEF HandedIsWhole
  <2>6. QED
    BY <2>2, <2>4, <2>5 DEF Undisturbed
<1>7. QED
  BY <1>4, <1>5, <1>6

(* The members of a new process.                                           *)
LEMMA FreshIInv ==
  ASSUME UpdaterTypeOK, Fresh, handed' = 0, installed' \in 0..Newest,
         bundles' \in [Releases -> Contents], UNCHANGED <<disk, published, due>>
  PROVE  UpdaterIInv'
<1>1. 0 \in 0..Newest /\ 0 \in 0..MaxReplies /\ 0 \in 0..MaxInstalls
  BY UpdaterAssumption
<1>2. UpdaterTypeOK'
  BY <1>1 DEF Fresh, UpdaterTypeOK, UState
<1>3. ReleaseIsKnown' /\ HandedMeansGone'
  BY DEF Fresh, ReleaseIsKnown, HandedMeansGone, ReplyKinds
<1>4. Undisturbed'
  BY DEF Fresh, Undisturbed, OneReplyEach, OneDitto, OfferIsNewer, PathIsLatest, ZipIsWhole,
         WritesOnlyDownloads, HandedIsWhole, ReplyKinds
<1>5. QED
  BY <1>2, <1>3, <1>4 DEF UpdaterIInv

LEMMA InstallScriptIInv ==
  ASSUME UpdaterIInv, InstallScript
  PROVE  UpdaterIInv'
<1> USE DEF UpdaterIInv
<1>1. /\ uState = "gone" /\ handed \in 0..Newest /\ handed' = 0
      /\ bundles' \in [Releases -> Contents]
      /\ UNCHANGED <<disk, published, due>>
  BY DEF InstallScript, UpdaterTypeOK, Contents
<1>2. CASE Fresh /\ installed' = handed
  BY <1>1, <1>2, FreshIInv
<1>3. CASE /\ installed' = 0
           /\ UNCHANGED <<uState, latest, zip, offer, reply, flying, asked, path, ditto,
                          dittos, overlap>>
  <2>1. UpdaterTypeOK'
    BY <1>1, <1>3, UpdaterAssumption DEF UpdaterTypeOK
  <2>2. ReleaseIsKnown' /\ HandedMeansGone'
    BY <1>1, <1>3 DEF ReleaseIsKnown, HandedMeansGone
  <2>3. ASSUME ~overlap' PROVE Undisturbed'
    BY <1>1, <1>3, <2>3
       DEF Undisturbed, OneReplyEach, OneDitto, OfferIsNewer, PathIsLatest, ZipIsWhole,
           WritesOnlyDownloads, HandedIsWhole
  <2>4. QED
    BY <2>1, <2>2, <2>3
<1>4. QED
  BY <1>2, <1>3 DEF InstallScript

LEMMA RelaunchIInv ==
  ASSUME UpdaterIInv, Relaunch
  PROVE  UpdaterIInv'
<1>1. handed' = 0 /\ UpdaterTypeOK
  BY DEF UpdaterIInv, HandedMeansGone, Relaunch
<1>2. installed' \in 0..Newest /\ bundles' \in [Releases -> Contents]
  BY DEF UpdaterIInv, UpdaterTypeOK, Relaunch
<1>3. QED
  BY <1>1, <1>2, FreshIInv DEF Relaunch

(* Releases and days, or nothing at all: none of the members moves.        *)
LEMMA WorldIInv ==
  ASSUME UpdaterIInv, WorldMoves \/ UNCHANGED updaterVars
  PROVE  UpdaterIInv'
<1> USE DEF UpdaterIInv
<1>1. /\ published' \in Releases /\ due' \in BOOLEAN
      /\ UNCHANGED <<uState, latest, zip, offer, reply, flying, asked, path, disk, ditto,
                     dittos, bundles, handed, installed, overlap>>
  BY DEF WorldMoves, updaterVars, UpdaterTypeOK
<1>2. UpdaterTypeOK'
  BY <1>1 DEF UpdaterTypeOK
<1>3. ReleaseIsKnown' /\ HandedMeansGone'
  BY <1>1 DEF ReleaseIsKnown, HandedMeansGone
<1>4. ASSUME ~overlap' PROVE Undisturbed'
  BY <1>1, <1>4
     DEF Undisturbed, OneReplyEach, OneDitto, OfferIsNewer, PathIsLatest, ZipIsWhole,
         WritesOnlyDownloads, HandedIsWhole
<1>5. QED
  BY <1>2, <1>3, <1>4

-----------------------------------------------------------------------------
(* The invariant of the self-update, for any number of releases, replies   *)
(* and installations (src/src/updater.cpp): the members name the reply or  *)
(* process the state is about, and what is fetched, unpacked and handed    *)
(* over is the newer version on offer.                                     *)
THEOREM UpdaterInvariant == UpdaterSpec => []UpdaterIInv
<1>1. UpdaterInit => UpdaterIInv
  BY InitUpdaterIInv
<1>2. UpdaterIInv /\ [UpdaterNext]_updaterVars => UpdaterIInv'
  <2> SUFFICES ASSUME UpdaterIInv, [UpdaterNext]_updaterVars PROVE UpdaterIInv'
    OBVIOUS
  <2>1. CASE Check \/ Startup
    BY <2>1, CheckIInv
  <2>2. CASE Download
    BY <2>2, DownloadIInv
  <2>3. CASE ReadyRead
    BY <2>3, ReadyReadIInv
  <2>4. CASE CancelDownload
    <3>1. uState # "gone" /\ reply["download"] \in 1..MaxReplies
      BY <2>4 DEF CancelDownload, UpdaterIInv, UpdaterTypeOK, ReplyKinds
    <3>2. QED
      BY <2>4, <3>1, DownloadEndsIInv
  <2>5. CASE installAndRestart
    BY <2>5, InstallIInv
  <2>6. CASE InstallScript
    BY <2>6, InstallScriptIInv
  <2>7. CASE Relaunch
    BY <2>7, RelaunchIInv
  <2>8. CASE WorldMoves \/ UNCHANGED updaterVars
    BY <2>8, WorldIInv
  <2>9. CASE UpdaterEnds
    BY <2>9, CheckFinishedIInv, DownloadEndsIInv, ExtractFinishedIInv DEF UpdaterEnds
  <2>10. QED
    BY <2>1, <2>2, <2>3, <2>4, <2>5, <2>6, <2>7, <2>8, <2>9 DEF UpdaterNext
<1>3. QED
  BY <1>1, <1>2, PTL DEF UpdaterSpec

(* What the update dialog says is so (updater.cpp), however often releases *)
(* are checked, downloaded, cancelled and installed, as long as nobody     *)
(* checks during an installation.                                          *)
THEOREM DialogIsRight == UpdaterSpec => []UpdaterSound
<1>1. UpdaterIInv => UpdaterSound
  <2> SUFFICES ASSUME UpdaterIInv PROVE UpdaterSound
    OBVIOUS
  <2>1. UpdaterTypeOK
    BY DEF UpdaterIInv
  <2>2. ReadyIsDownloaded
    BY DEF UpdaterIInv, Undisturbed, ZipIsWhole, PathIsLatest, OfferIsNewer, ReadyIsDownloaded
  <2>3. OneThingAtATime
    BY DEF UpdaterIInv, Undisturbed, OneReplyEach, OneDitto, OneThingAtATime
  <2>4. QED
    BY <2>1, <2>2, <2>3 DEF UpdaterSound
<1>2. QED
  BY <1>1, UpdaterInvariant, PTL

(* Only a whole bundle of a newer release replaces the app, in the same    *)
(* case: the script of writeInstallScript() never leaves a broken or an    *)
(* older one behind.                                                       *)
THEOREM UpdatesAreWhole == UpdaterSpec => OnlyWholeUpdates
<1>1. UpdaterIInv /\ [UpdaterNext]_updaterVars
        => [installed' # installed /\ ~overlap => installed' > installed]_updaterVars
  <2> SUFFICES ASSUME UpdaterIInv, UpdaterNext, ~overlap, installed' # installed
               PROVE  installed' > installed
    BY DEF updaterVars
  <2>1. InstallScript
    BY DEF UpdaterNext, UpdaterEnds, Check, Startup, Download, ReadyRead, CancelDownload,
           installAndRestart, Relaunch, WorldMoves, CheckFinished, DownloadFinished,
           ExtractFinished
  <2>2. handed # 0 /\ bundles[handed] = "full" /\ handed > installed
    BY <2>1 DEF UpdaterIInv, Undisturbed, HandedIsWhole, InstallScript
  <2>3. QED
    BY <2>1, <2>2 DEF InstallScript
<1>2. QED
  BY <1>1, UpdaterInvariant, PTL DEF UpdaterSpec, OnlyWholeUpdates

-----------------------------------------------------------------------------
(* Docker.                                                                 *)

(* The one operation the flags are about, stated as a case.                *)
Loader ==
  IF dBusy
  THEN \E o \in operations :
         /\ operations = {o} /\ controllingId = o.target
         /\ dScanning <=> o.kind = "scan"
         /\ o.kind = "scan" => o.target = Nobody
  ELSE operations = {} /\ controllingId = Nobody /\ ~dScanning

(* Nothing shown or done is ahead of docker.                               *)
PageIsPast ==
  /\ \A l \in Lists : shown[l] <= truth
  /\ stats <= truth /\ done <= truth

(* The command of an operation comes before everything it reads.           *)
CommandFirst ==
  \A o \in operations : \A i \in 1..Len(o.todo) :
    o.todo[i] = "command" => i = 1 /\ \A l \in Lists : o.got[l] = Failed

(* What an operation has read is as new as the page and as what it did.    *)
ReadsAreNew ==
  \A o \in operations, l \in Lists :
    o.got[l] \in {Blank, Failed} \/ (shown[l] <= o.got[l] /\ done <= o.got[l] /\ o.got[l] <= truth)

OnePoll ==
  IF statsBusy
  THEN \E a \in polls : polls = {a} /\ (a = Failed \/ (stats <= a /\ a <= truth))
  ELSE polls = {}

DockerIInv ==
  /\ DockerTypeOK
  /\ Loader
  /\ PageIsPast
  /\ CommandFirst /\ ReadsAreNew
  /\ OnePoll

(* The logs: one request, about a prefix of what is printed that is at     *)
(* least what the open card shows of the same container.                   *)
OneRequest ==
  /\ \A r, q \in logRequests : r = q
  /\ logsBusy <=> logRequests # {}
LogsArePast ==
  /\ \A r \in logRequests :
       r.lines <= printed[r.name] /\ (r.name = logsOf.name => logsOf.lines <= r.lines)
  /\ logsOf.name # NoCard => logsOf.lines <= printed[logsOf.name]
LogsIInv == DockerLogsTypeOK /\ OneRequest /\ LogsArePast

-----------------------------------------------------------------------------
LEMMA Numbers ==
  /\ truth \in Truths => truth \in Nat /\ truth >= 1 /\ truth <= MaxChanges + 1 /\ truth # Failed
  /\ Blank = 0 /\ Failed = MaxChanges + 2 /\ MaxChanges \in Nat /\ 1 \in Truths
  /\ \A a \in Truths : a \in Nat /\ a # Failed /\ a # Blank /\ a <= MaxChanges + 1
BY DockerAssumption DEF Truths, Blank, Failed

(* The sequence of calls of each kind of operation.                        *)
LEMMA Plans ==
  ASSUME NEW kind \in {"scan", "control", "startEngine", "stopEngine"}
  PROVE  /\ Plan(kind) \in Seq(Calls)
         /\ \A i \in 1..Len(Plan(kind)) : Plan(kind)[i] = "command" => i = 1
<1>1. ReadAll \in Seq(Calls) /\ Len(ReadAll) = 4 /\ \A i \in 1..4 : ReadAll[i] # "command"
  BY DEF ReadAll, Calls, Lists
<1>2. <<"command">> \in Seq(Calls) /\ Len(<<"command">>) = 1
  BY DEF Calls
<1>3. CASE kind = "scan"
  BY <1>1, <1>3 DEF Plan
<1>4. CASE kind = "stopEngine"
  BY <1>4 DEF Plan, Calls
<1>5. CASE kind \in {"control", "startEngine"}
  <2>1. Plan(kind) = <<"command">> \o ReadAll
    BY <1>5 DEF Plan
  <2> DEFINE c == <<"command">>
  <2>2. c \in Seq(Calls) /\ Len(c) = 1 /\ ReadAll \in Seq(Calls) /\ Len(ReadAll) = 4
    BY <1>1, <1>2
  <2> HIDE DEF c
  <2>3. /\ c \o ReadAll \in Seq(Calls) /\ Len(c \o ReadAll) = 5
        /\ \A i \in 1..5 : (c \o ReadAll)[i] = IF i <= 1 THEN c[i] ELSE ReadAll[i - 1]
    <3>1. /\ c \o ReadAll \in Seq(Calls)
          /\ Len(c \o ReadAll) = Len(c) + Len(ReadAll)
          /\ \A i \in 1..(Len(c) + Len(ReadAll)) :
               (c \o ReadAll)[i] = IF i <= Len(c) THEN c[i] ELSE ReadAll[i - Len(c)]
      BY <2>2, ConcatProperties, Zenon
    <3>2. QED
      BY <2>2, <3>1
  <2>4. Plan(kind) = c \o ReadAll
    BY <2>1 DEF c
  <2>5. \A i \in 2..5 : i - 1 \in 1..4 /\ Plan(kind)[i] = ReadAll[i - 1]
    BY <2>3, <2>4, SMTT(30)
  <2>6. QED
    BY <1>1, <2>3, <2>4, <2>5
<1>6. QED
  BY <1>3, <1>4, <1>5

LEMMA NewOperationFacts ==
  ASSUME NEW kind \in {"scan", "control", "startEngine", "stopEngine"}, NEW target \in Targets
  PROVE  LET o == NewOperation(kind, target)
         IN  /\ o \in Operation /\ o.kind = kind /\ o.target = target
             /\ \A l \in Lists : o.got[l] = Failed
             /\ \A i \in 1..Len(o.todo) : o.todo[i] = "command" => i = 1
BY Plans DEF NewOperation, Operation

LEMMA InitDocker == DockerInit => DockerIInv
<1> SUFFICES ASSUME DockerInit PROVE DockerIInv
  OBVIOUS
<1> DEFINE o == NewOperation("scan", Nobody)
<1>1. /\ o \in Operation /\ o.kind = "scan" /\ o.target = Nobody
      /\ \A l \in Lists : o.got[l] = Failed
      /\ \A i \in 1..Len(o.todo) : o.todo[i] = "command" => i = 1
  BY NewOperationFacts DEF Targets
<1>2. operations = {o}
  BY DEF DockerInit
<1> HIDE DEF o
<1>3. DockerTypeOK
  BY <1>1, <1>2, Numbers DEF DockerInit, DockerTypeOK, Targets
<1>4. Loader
  BY <1>1, <1>2 DEF DockerInit, Loader
<1>5. PageIsPast /\ OnePoll
  BY Numbers DEF DockerInit, PageIsPast, OnePoll
<1>6. CommandFirst /\ ReadsAreNew
  BY <1>1, <1>2 DEF CommandFirst, ReadsAreNew
<1>7. QED
  BY <1>3, <1>4, <1>5, <1>6 DEF DockerIInv

(* A new operation when none is under way.                                 *)
LEMMA BeginsKeep ==
  ASSUME DockerIInv, ~dBusy, dBusy',
         NEW kind \in {"scan", "control", "startEngine", "stopEngine"}, NEW target \in Targets,
         kind = "scan" => target = Nobody,
         operations' = operations \cup {NewOperation(kind, target)},
         controllingId' = target, dScanning' = (kind = "scan"),
         UNCHANGED <<daemon, truth, available, shown, stats, statsBusy, polls, done>>
  PROVE  DockerIInv'
<1> DEFINE o == NewOperation(kind, target)
<1>1. /\ o \in Operation /\ o.kind = kind /\ o.target = target
      /\ \A l \in Lists : o.got[l] = Failed
      /\ \A i \in 1..Len(o.todo) : o.todo[i] = "command" => i = 1
  BY NewOperationFacts
<1>2. operations' = {o}
  BY DEF DockerIInv, Loader
<1> HIDE DEF o
<1>3. DockerTypeOK'
  BY <1>1, <1>2 DEF DockerIInv, DockerTypeOK
<1>4. Loader'
  BY <1>1, <1>2 DEF Loader
<1>5. PageIsPast' /\ OnePoll'
  BY DEF DockerIInv, PageIsPast, OnePoll
<1>6. CommandFirst' /\ ReadsAreNew'
  BY <1>1, <1>2 DEF CommandFirst, ReadsAreNew
<1>7. QED
  BY <1>3, <1>4, <1>5, <1>6 DEF DockerIInv

(* What the poll is and what docker can be asked to answer.                *)
LEMMA Answers ==
  ASSUME truth \in Truths, NEW up \in BOOLEAN, NEW a \in Answer(up)
  PROVE  a \in {Blank, Failed, truth}
BY DEF Answer

(* An operation goes on to its next call.                                  *)
LEMMA StepsKeep ==
  ASSUME DockerIInv, NEW o \in operations, OperationStep(o)
  PROVE  DockerIInv'
<1> DEFINE call == Head(o.todo)
<1>1. /\ o \in Operation /\ o.todo \in Seq(Calls) /\ o.todo # <<>> /\ call \in Calls
      /\ call = o.todo[1] /\ Tail(o.todo) \in Seq(Calls) /\ Len(Tail(o.todo)) = Len(o.todo) - 1
      /\ \A i \in 1..Len(Tail(o.todo)) : Tail(o.todo)[i] = o.todo[i + 1]
      /\ Len(o.todo) \in Nat \ {0}
  <2>1. o \in Operation /\ o.todo \in Seq(Calls) /\ o.todo # <<>>
    BY DEF DockerIInv, DockerTypeOK, OperationStep, Operation
  <2>2. QED
    BY <2>1, HeadTailProperties, EmptySeq
<1>2. operations = {o} /\ dBusy
  BY DEF DockerIInv, Loader
<1>3. \E p \in Operation :
        /\ operations' = {p} /\ p.kind = o.kind /\ p.target = o.target /\ p.todo = Tail(o.todo)
        /\ p.got = o.got \/ \E l \in Lists, a \in {Blank, Failed, truth} : p.got = [o.got EXCEPT ![l] = a]
        /\ call = "command" => p.got = o.got
  <2>1. CASE call = "command"
    <3>1. operations' = (operations \ {o}) \cup {[o EXCEPT !.todo = Tail(@)]}
      BY <2>1 DEF OperationStep
    <3> DEFINE p == [o EXCEPT !.todo = Tail(@)]
    <3>2. /\ p \in Operation /\ p.kind = o.kind /\ p.target = o.target /\ p.todo = Tail(o.todo)
          /\ p.got = o.got
      BY <1>1 DEF Operation
    <3>3. operations' = {p}
      BY <1>2, <3>1
    <3>4. QED
      BY <3>2, <3>3
  <2>2. CASE call = "info"
    <3>1. PICK up \in Available :
            operations' = (operations \ {o}) \cup {[[o EXCEPT !.up = up] EXCEPT !.todo = Tail(@)]}
      BY <2>2 DEF OperationStep
    <3>2. up \in BOOLEAN
      BY <3>1 DEF Available
    <3> DEFINE p == [[o EXCEPT !.up = up] EXCEPT !.todo = Tail(@)]
    <3>3. /\ p \in Operation /\ p.kind = o.kind /\ p.target = o.target /\ p.todo = Tail(o.todo)
          /\ p.got = o.got
      BY <1>1, <3>2 DEF Operation
    <3>4. operations' = {p}
      BY <1>2, <3>1
    <3>5. QED
      BY <3>3, <3>4
  <2>3. CASE call \in Lists
    <3>1. PICK a \in Answer(o.up) :
            operations' = (operations \ {o}) \cup {[[o EXCEPT !.got[call] = a] EXCEPT !.todo = Tail(@)]}
      BY <2>3 DEF OperationStep, Lists
    <3>2. a \in {Blank, Failed, truth} /\ truth \in Truths
      BY <1>1, <3>1, Answers DEF Operation, DockerIInv, DockerTypeOK
    <3>3. [o.got EXCEPT ![call] = a] \in [Lists -> Truths \cup {Blank, Failed}]
      BY <1>1, <2>3, <3>2 DEF Operation
    <3>4. call # "command"
      BY <2>3 DEF Lists
    <3> DEFINE p == [[o EXCEPT !.got[call] = a] EXCEPT !.todo = Tail(@)]
    <3>5. /\ p \in Operation /\ p.kind = o.kind /\ p.target = o.target /\ p.todo = Tail(o.todo)
          /\ p.got = [o.got EXCEPT ![call] = a]
      BY <1>1, <3>3 DEF Operation
    <3>6. operations' = {p}
      BY <1>2, <3>1
    <3> HIDE DEF p
    <3>7. \E l \in Lists, b \in {Blank, Failed, truth} : p.got = [o.got EXCEPT ![l] = b]
      BY <2>3, <3>2, <3>5
    <3>8. QED
      BY <3>4, <3>5, <3>6, <3>7
  <2>4. QED
    BY <1>1, <2>1, <2>2, <2>3 DEF Calls
<1>4. PICK p \in Operation :
        /\ operations' = {p} /\ p.kind = o.kind /\ p.target = o.target /\ p.todo = Tail(o.todo)
        /\ p.got = o.got \/ \E l \in Lists, a \in {Blank, Failed, truth} : p.got = [o.got EXCEPT ![l] = a]
        /\ call = "command" => p.got = o.got
  BY <1>3
<1>5. /\ daemon' \in Moods /\ truth' \in Truths /\ done' \in Truths \cup {Blank}
      /\ truth <= truth' /\ done' <= truth'
      /\ done' = done \/ (call = "command" /\ done' = truth')
  <2>1. truth \in Truths /\ done \in Truths \cup {Blank} /\ done <= truth /\ daemon \in Moods
    BY DEF DockerIInv, DockerTypeOK, PageIsPast
  <2>2. CASE call = "command" /\ ~UNCHANGED <<daemon, truth, done>>
    <3>1. Command(o)
      BY <2>2 DEF OperationStep
    <3>2. CASE o.kind = "control" /\ truth <= MaxChanges /\ truth' = truth + 1 /\ done' = truth' /\ daemon' = daemon
      BY <2>1, <2>2, <3>2, Numbers DEF Truths
    <3>3. CASE o.kind = "startEngine" /\ daemon' = "up" /\ UNCHANGED <<truth, done>>
      BY <2>1, <3>3, DockerAssumption, Numbers
    <3>4. CASE o.kind = "stopEngine" /\ daemon' \in Moods \cap {"down"} /\ UNCHANGED <<truth, done>>
      BY <2>1, <3>4, Numbers
    <3>5. QED
      BY <2>2, <3>1, <3>2, <3>3, <3>4 DEF Command
  <2>3. CASE UNCHANGED <<daemon, truth, done>>
    BY <2>1, <2>3, Numbers
  <2>4. QED
    BY <2>2, <2>3 DEF OperationStep
<1>6. UNCHANGED <<available, shown, stats, dBusy, dScanning, controllingId, statsBusy, polls>>
  BY DEF OperationStep
<1>7. DockerTypeOK'
  BY <1>4, <1>5, <1>6 DEF DockerIInv, DockerTypeOK
<1>8. Loader'
  BY <1>2, <1>4, <1>6 DEF DockerIInv, Loader
<1>9. PageIsPast' /\ OnePoll'
  BY <1>5, <1>6, Numbers DEF DockerIInv, DockerTypeOK, PageIsPast, OnePoll
<1>10. CommandFirst'
  <2>1. \A i \in 1..Len(p.todo) : p.todo[i] # "command"
    BY <1>1, <1>4 DEF DockerIInv, CommandFirst
  <2>2. QED
    BY <1>4, <2>1 DEF CommandFirst
<1>11. ReadsAreNew'
  <2> SUFFICES ASSUME NEW l \in Lists, p.got[l] \notin {Blank, Failed}
               PROVE  shown[l] <= p.got[l] /\ done' <= p.got[l] /\ p.got[l] <= truth'
    BY <1>4, <1>6 DEF ReadsAreNew
  <2>1. /\ truth \in Truths /\ done \in Truths \cup {Blank} /\ shown[l] \in Truths \cup {Blank}
        /\ shown[l] <= truth /\ done <= truth
        /\ o.got \in [Lists -> Truths \cup {Blank, Failed}]
    BY <1>1 DEF DockerIInv, DockerTypeOK, PageIsPast, Operation
  <2>2. CASE call = "command"
    <3>1. o.got[l] = Failed
      BY <1>1, <2>2 DEF DockerIInv, CommandFirst
    <3>2. QED
      BY <1>4, <2>2, <3>1
  <2>3. CASE call # "command"
    <3>1. done' = done
      BY <1>5, <2>3
    <3>2. CASE p.got[l] = o.got[l]
      <4>1. o.got[l] \notin {Blank, Failed} /\ o.got[l] \in Truths
        BY <2>1, <3>2
      <4>2. shown[l] <= o.got[l] /\ done <= o.got[l] /\ o.got[l] <= truth
        BY <4>1 DEF DockerIInv, ReadsAreNew
      <4>3. QED
        BY <1>5, <2>1, <3>1, <3>2, <4>1, <4>2, Numbers
    <3>3. CASE p.got[l] = truth
      BY <1>5, <2>1, <3>1, <3>3, Numbers
    <3>4. QED
      BY <1>4, <2>1, <3>2, <3>3
  <2>4. QED
    BY <2>2, <2>3
<1>12. QED
  BY <1>7, <1>8, <1>9, <1>10, <1>11 DEF DockerIInv

(* The queued call at the end of an operation, and what it puts on the     *)
(* page.                                                                   *)
LEMMA ResultKeeps ==
  ASSUME DockerIInv, NEW o, Result(o)
  PROVE  /\ DockerIInv'
         /\ \A l \in Lists :
              shown'[l] \in {Blank, shown[l]} \/ (shown'[l] > shown[l] /\ shown'[l] >= done)
         /\ stats' \in {Blank, stats}
<1>1. o \in operations /\ o \in Operation /\ o.todo = <<>>
  BY DEF Result, DockerIInv, DockerTypeOK
<1>2. /\ operations = {o} /\ operations' = {} /\ dBusy /\ controllingId = o.target
      /\ dScanning <=> o.kind = "scan"
      /\ o.kind = "scan" => o.target = Nobody
  BY <1>1 DEF DockerIInv, Loader, Result
<1>3. ~dBusy' /\ ~dScanning' /\ dBusy' \in BOOLEAN /\ dScanning' \in BOOLEAN /\ controllingId' = Nobody
  BY <1>2 DEF Result, endOp, DockerIInv, DockerTypeOK
<1>4. UNCHANGED <<daemon, truth, statsBusy, polls, done>>
  BY DEF Result
<1>5. /\ truth \in Truths /\ done \in Truths \cup {Blank} /\ stats \in Truths \cup {Blank}
      /\ shown \in [Lists -> Truths \cup {Blank}]
      /\ o.got \in [Lists -> Truths \cup {Blank, Failed}] /\ o.up \in BOOLEAN
  BY <1>1 DEF DockerIInv, DockerTypeOK, Operation
<1>6. available' \in BOOLEAN /\ stats' \in {Blank, stats}
  BY <1>5 DEF Result, applyScan, BlankPage
<1>7. /\ shown' = [l \in Lists |-> shown'[l]]
      /\ \A l \in Lists : shown'[l] \in {Blank, shown[l]} \/ (shown'[l] = o.got[l] /\ o.got[l] # Failed)
  BY <1>5 DEF Result, applyScan, BlankPage
<1>8. ASSUME NEW l \in Lists
      PROVE  /\ shown'[l] \in Truths \cup {Blank} /\ shown'[l] <= truth
             /\ shown'[l] \in {Blank, shown[l]} \/ (shown'[l] > shown[l] /\ shown'[l] >= done)
  <2>1. shown[l] \in Truths \cup {Blank} /\ shown[l] <= truth
    BY <1>5 DEF DockerIInv, PageIsPast
  <2>2. CASE shown'[l] \in {Blank, shown[l]}
    BY <1>5, <2>1, <2>2, Numbers
  <2>3. CASE shown'[l] = o.got[l] /\ o.got[l] \notin {Blank, Failed}
    <3>1. o.got[l] \in Truths /\ shown[l] <= o.got[l] /\ done <= o.got[l] /\ o.got[l] <= truth
      BY <1>1, <1>5, <2>3 DEF DockerIInv, ReadsAreNew
    <3>2. QED
      BY <1>5, <2>1, <2>3, <3>1, Numbers
  <2>4. QED
    BY <1>7, <2>2, <2>3
<1>9. shown' \in [Lists -> Truths \cup {Blank}]
  BY <1>7, <1>8
<1>10. Nobody \in Targets
  BY DEF Targets
<1>11. DockerTypeOK'
  BY <1>2, <1>3, <1>4, <1>5, <1>6, <1>9, <1>10 DEF DockerIInv, DockerTypeOK
<1>12. Loader'
  BY <1>2, <1>3 DEF Loader
<1>13. PageIsPast'
  BY <1>4, <1>5, <1>6, <1>8, Numbers DEF DockerIInv, PageIsPast
<1>14. CommandFirst' /\ ReadsAreNew'
  BY <1>2 DEF CommandFirst, ReadsAreNew
<1>15. OnePoll'
  <2>1. CASE statsBusy
    <3>1. PICK a \in polls : polls = {a} /\ (a = Failed \/ (stats <= a /\ a <= truth))
      BY <2>1 DEF DockerIInv, OnePoll
    <3>2. a \in Truths \cup {Blank, Failed}
      BY <3>1 DEF DockerIInv, DockerTypeOK
    <3>3. a = Failed \/ (stats' <= a /\ a <= truth')
      BY <1>4, <1>5, <1>6, <3>1, <3>2, Numbers
    <3>4. QED
      BY <1>4, <2>1, <3>1, <3>3 DEF OnePoll
  <2>2. CASE ~statsBusy
    BY <1>4, <2>2 DEF DockerIInv, OnePoll
  <2>3. QED
    BY <2>1, <2>2
<1>16. QED
  BY <1>6, <1>8, <1>11, <1>12, <1>13, <1>14, <1>15 DEF DockerIInv

LEMMA FetchStatsKeeps == ASSUME DockerIInv, FetchStats PROVE DockerIInv'
<1>1. PICK a \in Answer(daemon # "down") : polls' = polls \cup {IF a = Blank THEN Failed ELSE a}
  BY DEF FetchStats
<1> DEFINE b == IF a = Blank THEN Failed ELSE a
<1>2. /\ polls = {} /\ polls' = {b} /\ statsBusy'
      /\ UNCHANGED <<daemon, truth, available, shown, stats, dBusy, dScanning, controllingId,
                     operations, done>>
  BY <1>1 DEF FetchStats, DockerIInv, OnePoll
<1>3. b \in {Failed, truth} /\ truth \in Truths
  BY <1>1, Answers DEF DockerIInv, DockerTypeOK
<1> HIDE DEF b
<1>4. b = Failed \/ (stats <= b /\ b <= truth)
  <2>1. stats <= truth
    BY DEF DockerIInv, PageIsPast
  <2>2. QED
    BY <1>3, <2>1, Numbers
<1>5. statsBusy' \in BOOLEAN
  BY DEF FetchStats
<1>6. DockerTypeOK'
  BY <1>2, <1>3, <1>5 DEF DockerIInv, DockerTypeOK
<1>7. Loader' /\ PageIsPast' /\ CommandFirst' /\ ReadsAreNew'
  BY <1>2 DEF DockerIInv, Loader, PageIsPast, CommandFirst, ReadsAreNew
<1>8. OnePoll'
  BY <1>2, <1>4 DEF OnePoll
<1>9. QED
  BY <1>6, <1>7, <1>8 DEF DockerIInv

(* A poll ends; nothing can have made the statistics newer meanwhile.      *)
LEMMA StatsResultKeeps ==
  ASSUME DockerIInv, NEW a, StatsResult(a)
  PROVE  DockerIInv' /\ stats' \in {Blank} \cup stats..(MaxChanges + 1)
<1>1. /\ polls = {a} /\ polls' = {} /\ ~statsBusy' /\ statsBusy' \in BOOLEAN
      /\ a = Failed \/ (stats <= a /\ a <= truth)
      /\ a \in Truths \cup {Blank, Failed}
  <2>1. a \in polls /\ polls' = polls \ {a} /\ statsBusy' = FALSE
    BY DEF StatsResult
  <2>2. PICK b \in polls : polls = {b} /\ (b = Failed \/ (stats <= b /\ b <= truth))
    BY <2>1 DEF DockerIInv, OnePoll
  <2>3. a = b
    BY <2>1, <2>2
  <2>4. QED
    BY <2>1, <2>2, <2>3 DEF DockerIInv, DockerTypeOK
<1>2. truth \in Truths /\ stats \in Truths \cup {Blank} /\ stats <= truth
  BY DEF DockerIInv, DockerTypeOK, PageIsPast
<1>3. stats' = IF a = Failed THEN stats ELSE a
  BY DEF StatsResult
<1>4. stats' \in Truths \cup {Blank} /\ stats' <= truth /\ stats <= stats'
  BY <1>1, <1>2, <1>3, Numbers
<1>5. UNCHANGED <<daemon, truth, available, shown, dBusy, dScanning, controllingId, operations, done>>
  BY DEF StatsResult
<1>6. DockerTypeOK'
  BY <1>1, <1>4, <1>5 DEF DockerIInv, DockerTypeOK
<1>7. Loader' /\ PageIsPast' /\ CommandFirst' /\ ReadsAreNew'
  BY <1>4, <1>5 DEF DockerIInv, Loader, PageIsPast, CommandFirst, ReadsAreNew
<1>8. OnePoll'
  BY <1>1 DEF OnePoll
<1>9. stats' \in {Blank} \cup stats..(MaxChanges + 1)
  BY <1>2, <1>4, Numbers
<1>10. QED
  BY <1>6, <1>7, <1>8, <1>9 DEF DockerIInv

LEMMA ElsewhereKeeps == ASSUME DockerIInv, Elsewhere PROVE DockerIInv'
<1>1. truth \in Truths /\ truth' \in Truths /\ truth <= truth' /\ daemon' \in Moods
  BY Numbers DEF Elsewhere, Truths, DockerIInv, DockerTypeOK
<1>2. UNCHANGED <<available, shown, stats, dBusy, dScanning, controllingId, operations, statsBusy,
                  polls, done>>
  BY DEF Elsewhere
<1>3. DockerTypeOK'
  BY <1>1, <1>2 DEF DockerIInv, DockerTypeOK
<1>4. Loader' /\ CommandFirst'
  BY <1>2 DEF DockerIInv, Loader, CommandFirst
<1>5. PageIsPast'
  BY <1>1, <1>2, Numbers DEF DockerIInv, DockerTypeOK, PageIsPast
<1>6. ReadsAreNew'
  BY <1>1, <1>2, Numbers DEF DockerIInv, DockerTypeOK, ReadsAreNew, Operation
<1>7. OnePoll'
  BY <1>1, <1>2, Numbers DEF DockerIInv, DockerTypeOK, OnePoll
<1>8. QED
  BY <1>3, <1>4, <1>5, <1>6, <1>7 DEF DockerIInv

(* What a step may do to the page: it never goes back to older data.       *)
PageStep ==
  /\ \A l \in Lists :
       shown'[l] \in {Blank, shown[l]} \/ (shown'[l] > shown[l] /\ shown'[l] >= done)
  /\ stats' \in {Blank} \cup stats..(MaxChanges + 1)

LEMMA DockerKeeps == DockerIInv /\ [DockerNext]_dockerVars => DockerIInv' /\ PageStep
<1> SUFFICES ASSUME DockerIInv, [DockerNext]_dockerVars PROVE DockerIInv' /\ PageStep
  OBVIOUS
<1>1. stats \in stats..(MaxChanges + 1)
  BY Numbers DEF DockerIInv, DockerTypeOK
<1>2. UNCHANGED <<shown, stats>> => PageStep
  BY <1>1 DEF PageStep
<1>3. CASE Refresh
  <2>1. /\ operations' = operations \cup {NewOperation("scan", Nobody)} /\ controllingId' = Nobody
        /\ dScanning' = ("scan" = "scan") /\ Nobody \in Targets
    BY <1>3 DEF Refresh, DockerIInv, Loader, Targets
  <2>2. DockerIInv'
    BY <1>3, <2>1, BeginsKeep DEF Refresh
  <2>3. QED
    BY <1>2, <1>3, <2>2 DEF Refresh
<1>4. ASSUME NEW kind \in {"control", "startEngine", "stopEngine"}, NEW t \in Targets, Operate(kind, t)
      PROVE  DockerIInv' /\ PageStep
  <2>1. ~dBusy /\ dBusy' /\ dScanning' = (kind = "scan") /\ kind # "scan"
    BY <1>4 DEF Operate, beginOp, DockerIInv, DockerTypeOK, Loader
  <2>2. DockerIInv'
    BY <1>4, <2>1, BeginsKeep DEF Operate, beginOp
  <2>3. QED
    BY <1>2, <1>4, <2>2 DEF Operate
<1>5. CASE Control
  BY <1>4, <1>5 DEF Control, Targets
<1>6. CASE EngineSwitch
  BY <1>4, <1>6 DEF EngineSwitch, Targets
<1>7. CASE FetchStats
  BY <1>2, <1>7, FetchStatsKeeps DEF FetchStats
<1>8. CASE Elsewhere
  BY <1>2, <1>8, ElsewhereKeeps DEF Elsewhere
<1>9. CASE OperationThread
  <2>1. PICK o \in operations : OperationStep(o) \/ Result(o)
    BY <1>9 DEF OperationThread
  <2>2. CASE OperationStep(o)
    BY <1>2, <2>2, StepsKeep DEF OperationStep
  <2>3. CASE Result(o)
    BY <1>1, <2>3, ResultKeeps DEF PageStep
  <2>4. QED
    BY <2>1, <2>2, <2>3
<1>10. CASE PollThread
  <2>1. PICK a \in polls : StatsResult(a)
    BY <1>10 DEF PollThread
  <2>2. shown' = shown
    BY <2>1 DEF StatsResult
  <2>3. QED
    BY <2>1, <2>2, StatsResultKeeps DEF PageStep
<1>11. CASE UNCHANGED dockerVars
  BY <1>2, <1>11 DEF dockerVars, DockerIInv, DockerTypeOK, Loader, PageIsPast, CommandFirst, ReadsAreNew, OnePoll
<1>12. QED
  BY <1>3, <1>5, <1>6, <1>7, <1>8, <1>9, <1>10, <1>11 DEF DockerNext

-----------------------------------------------------------------------------
LEMMA InitLogs == DockerLogsInit => LogsIInv
<1> SUFFICES ASSUME DockerLogsInit PROVE LogsIInv
  OBVIOUS
<1>1. 0 \in 0..MaxLines
  BY LogsAssumption
<1>2. DockerLogsTypeOK
  BY <1>1 DEF DockerLogsInit, DockerLogsTypeOK, NoText, Text
<1>3. OneRequest /\ LogsArePast
  BY DEF DockerLogsInit, NoText, OneRequest, LogsArePast
<1>4. QED
  BY <1>2, <1>3 DEF LogsIInv

(* A request reads what is printed, which is not behind what is shown.     *)
LEMMA FetchLogsKeeps ==
  ASSUME LogsIInv, NEW name \in Carded, fetchLogs(name), printed' = printed,
         openLogsFor' \in Carded \cup {NoCard}, loading' \in BOOLEAN,
         logsOf' \in {NoText, logsOf}
  PROVE  LogsIInv'
<1>1. name # NoCard /\ 0 \in 0..MaxLines /\ printed[name] \in 0..MaxLines
  BY LogsAssumption DEF LogsIInv, DockerLogsTypeOK
<1>2. logsOf \in Text /\ logsOf' \in Text
  BY <1>1 DEF LogsIInv, DockerLogsTypeOK, NoText, Text
<1>3. logsOf'.name \in Carded => logsOf' = logsOf
  BY LogsAssumption DEF NoText
<1>4. CASE logsBusy
  <2>1. UNCHANGED <<logsBusy, logRequests>>
    BY <1>4 DEF fetchLogs
  <2>2. DockerLogsTypeOK'
    BY <1>2, <2>1 DEF LogsIInv, DockerLogsTypeOK
  <2>3. OneRequest'
    BY <2>1 DEF LogsIInv, OneRequest
  <2>4. LogsArePast'
    BY <1>2, <1>3, <2>1 DEF LogsIInv, LogsArePast, DockerLogsTypeOK, Text
  <2>5. QED
    BY <2>2, <2>3, <2>4 DEF LogsIInv
<1>5. CASE ~logsBusy
  <2>1. PICK ok \in BOOLEAN :
          logRequests' = logRequests \cup {[name |-> name, lines |-> printed[name], ok |-> ok]}
    BY <1>5 DEF fetchLogs
  <2>2. logRequests' = {[name |-> name, lines |-> printed[name], ok |-> ok]} /\ logsBusy' = TRUE
    BY <1>5, <2>1 DEF fetchLogs, LogsIInv, OneRequest
  <2>3. DockerLogsTypeOK'
    BY <1>1, <1>2, <2>2 DEF LogsIInv, DockerLogsTypeOK
  <2>4. OneRequest'
    BY <2>2 DEF OneRequest
  <2>5. LogsArePast'
    <3>1. logsOf.name \in Carded => logsOf.lines <= printed[logsOf.name]
      BY LogsAssumption DEF LogsIInv, LogsArePast
    <3>2. printed[name] <= printed[name]
      BY <1>1
    <3>3. logsOf'.name # NoCard => logsOf'.name \in Carded
      BY <1>2 DEF Text
    <3>4. QED
      BY <1>3, <2>2, <3>1, <3>2, <3>3 DEF LogsArePast
  <2>6. QED
    BY <2>3, <2>4, <2>5 DEF LogsIInv
<1>6. QED
  BY <1>4, <1>5

LEMMA ToggleKeeps == ASSUME LogsIInv, NEW name \in Carded, toggleLogs(name) PROVE LogsIInv'
<1>1. printed' = printed /\ logsOf' = NoText
  BY DEF toggleLogs
<1>2. CASE openLogsFor = name
  <2>1. openLogsFor' = NoCard /\ loading' = FALSE /\ UNCHANGED <<logsBusy, logRequests>>
    BY <1>2 DEF toggleLogs
  <2>2. 0 \in 0..MaxLines
    BY LogsAssumption
  <2>3. DockerLogsTypeOK'
    BY <1>1, <2>1, <2>2 DEF LogsIInv, DockerLogsTypeOK, NoText, Text
  <2>4. OneRequest'
    BY <2>1 DEF LogsIInv, OneRequest
  <2>5. LogsArePast'
    BY <1>1, <2>1, LogsAssumption DEF LogsIInv, LogsArePast, DockerLogsTypeOK, NoText
  <2>6. QED
    BY <2>3, <2>4, <2>5 DEF LogsIInv
<1>3. CASE openLogsFor # name
  BY <1>1, <1>3, FetchLogsKeeps DEF toggleLogs
<1>4. QED
  BY <1>2, <1>3

(* What a step may put into the open card.                                 *)
LogsStep ==
  logsOf' # logsOf /\ logsOf' # NoText =>
    /\ logsOf'.name = openLogsFor'
    /\ logsOf.name = logsOf'.name => logsOf'.lines >= logsOf.lines

LEMMA LogsReadyKeeps ==
  ASSUME LogsIInv, NEW r \in logRequests, LogsReady(r)
  PROVE  LogsIInv' /\ LogsStep
<1>1. /\ r \in [name : Carded, lines : 0..MaxLines, ok : BOOLEAN]
      /\ r.lines <= printed[r.name]
      /\ r.name = logsOf.name => logsOf.lines <= r.lines
  BY DEF LogsIInv, DockerLogsTypeOK, LogsArePast
<1>2. logRequests' = {} /\ logsBusy' = FALSE /\ UNCHANGED <<printed, openLogsFor>>
  BY DEF LogsReady, LogsIInv, OneRequest
<1>3. CASE r.ok /\ openLogsFor = r.name
  <2>1. loading' = FALSE /\ logsOf' = [name |-> r.name, lines |-> r.lines]
    BY <1>3 DEF LogsReady
  <2>2. DockerLogsTypeOK'
    BY <1>1, <1>2, <2>1 DEF LogsIInv, DockerLogsTypeOK, Text
  <2>3. OneRequest' /\ LogsArePast'
    BY <1>1, <1>2, <2>1 DEF OneRequest, LogsArePast
  <2>4. logsOf'.name = r.name /\ logsOf'.lines = r.lines
    BY <2>1
  <2>5. LogsStep
    <3>1. logsOf.lines \in Nat /\ r.lines \in Nat
      BY <1>1 DEF LogsIInv, DockerLogsTypeOK, Text
    <3>2. QED
      BY <1>1, <1>2, <1>3, <2>4, <3>1 DEF LogsStep
  <2>6. QED
    BY <2>2, <2>3, <2>5 DEF LogsIInv
<1>4. CASE ~(r.ok /\ openLogsFor = r.name)
  <2>1. UNCHANGED <<loading, logsOf>>
    BY <1>4 DEF LogsReady
  <2>2. QED
    BY <1>2, <2>1 DEF LogsIInv, DockerLogsTypeOK, OneRequest, LogsArePast, LogsStep
<1>5. QED
  BY <1>3, <1>4

LEMMA PrintsKeep == ASSUME LogsIInv, NEW name \in Carded, Prints(name) PROVE LogsIInv'
<1>1. /\ printed \in [Carded -> 0..MaxLines] /\ printed' \in [Carded -> 0..MaxLines]
      /\ \A n \in Carded : printed[n] <= printed'[n]
  BY LogsAssumption DEF Prints, LogsIInv, DockerLogsTypeOK
<1>2. UNCHANGED <<openLogsFor, loading, logsOf, logsBusy, logRequests>>
  BY DEF Prints
<1>3. DockerLogsTypeOK' /\ OneRequest'
  BY <1>1, <1>2 DEF LogsIInv, DockerLogsTypeOK, OneRequest
<1>4. LogsArePast'
  <2>1. /\ logsOf.name \in Carded \cup {NoCard} /\ logsOf.lines \in 0..MaxLines
        /\ \A r \in logRequests : r.name \in Carded /\ r.lines \in 0..MaxLines
    BY DEF LogsIInv, DockerLogsTypeOK, Text
  <2>2. QED
    BY <1>1, <1>2, <2>1 DEF LogsIInv, LogsArePast
<1>5. QED
  BY <1>3, <1>4 DEF LogsIInv

LEMMA LogsKeep == LogsIInv /\ [DockerLogsNext]_dockerLogsVars => LogsIInv' /\ LogsStep
<1> SUFFICES ASSUME LogsIInv, [DockerLogsNext]_dockerLogsVars PROVE LogsIInv' /\ LogsStep
  OBVIOUS
<1>1. ASSUME NEW name \in Carded, toggleLogs(name) PROVE LogsIInv' /\ LogsStep
  BY <1>1, ToggleKeeps DEF toggleLogs, LogsStep
<1>2. ASSUME NEW name \in Carded, Prints(name) PROVE LogsIInv' /\ LogsStep
  BY <1>2, PrintsKeep DEF Prints, LogsStep
<1>3. CASE FollowLogs
  <2>1. openLogsFor \in Carded /\ fetchLogs(openLogsFor) /\ UNCHANGED <<printed, openLogsFor, loading, logsOf>>
    BY <1>3 DEF FollowLogs, LogsIInv, DockerLogsTypeOK
  <2>2. openLogsFor' \in Carded \cup {NoCard} /\ loading' \in BOOLEAN
    BY <2>1 DEF LogsIInv, DockerLogsTypeOK
  <2>3. QED
    BY <2>1, <2>2, FetchLogsKeeps DEF LogsStep
<1>4. CASE LogsThread
  BY <1>4, LogsReadyKeeps DEF LogsThread
<1>5. CASE UNCHANGED dockerLogsVars
  BY <1>5 DEF dockerLogsVars, LogsIInv, DockerLogsTypeOK, OneRequest, LogsArePast, LogsStep
<1>6. QED
  BY <1>1, <1>2, <1>3, <1>4, <1>5 DEF DockerLogsNext

-----------------------------------------------------------------------------
(* The inductive invariant of the page holds in every reachable state.     *)
THEOREM DockerInvariant == DockerPageSpec => [](DockerIInv /\ LogsIInv)
  BY InitDocker, InitLogs, DockerKeeps, LogsKeep, PTL DEF DockerPageSpec

(* The header of dockerservice.h on busy, scanning and controllingId: one  *)
(* operation holds the flag, the spinner follows a rescan, and exactly the *)
(* control that was pressed shows its loader.                              *)
THEOREM DockerIsSound == DockerPageSpec => []DockerSound
<1>1. DockerIInv /\ LogsIInv => DockerSound
  <2> SUFFICES ASSUME DockerIInv, LogsIInv PROVE OneLoader
    BY DEF DockerIInv, LogsIInv, DockerSound
  <2>1. CASE dBusy
    <3>1. PICK o \in operations :
            /\ operations = {o} /\ controllingId = o.target
            /\ dScanning <=> o.kind = "scan"
      BY <2>1 DEF DockerIInv, Loader
    <3>2. (CHOOSE p \in operations : TRUE) = o
      BY <3>1
    <3>3. QED
      BY <2>1, <3>1, <3>2 DEF OneLoader
  <2>2. CASE ~dBusy
    BY <2>2 DEF DockerIInv, Loader, OneLoader
  <2>3. QED
    BY <2>1, <2>2
<1>2. QED
  BY <1>1, DockerInvariant, PTL

(* Nothing on the page is replaced by something older, and what it shows   *)
(* after an operation is as of that operation or later.                    *)
THEOREM DockerGoesForward == DockerPageSpec => DockerMovesOn
<1>1. DockerIInv /\ [DockerNext]_dockerVars =>
        [\A l \in Lists :
           shown'[l] \in {Blank, shown[l]} \/ (shown'[l] > shown[l] /\ shown'[l] >= done)]_dockerVars
  BY DockerKeeps DEF PageStep
<1>2. DockerIInv /\ [DockerNext]_dockerVars =>
        [stats' \in {Blank} \cup stats..(MaxChanges + 1)]_dockerVars
  BY DockerKeeps DEF PageStep
<1>3. LogsIInv /\ [DockerLogsNext]_dockerLogsVars =>
        [logsOf' # logsOf /\ logsOf' # NoText =>
           /\ logsOf'.name = openLogsFor'
           /\ logsOf.name = logsOf'.name => logsOf'.lines >= logsOf.lines]_dockerLogsVars
  BY LogsKeep DEF LogsStep
<1>4. DockerPageSpec => PageMovesOn
  BY <1>1, DockerInvariant, PTL DEF DockerPageSpec, PageMovesOn
<1>5. DockerPageSpec => StatsMoveOn
  BY <1>2, DockerInvariant, PTL DEF DockerPageSpec, StatsMoveOn
<1>6. DockerPageSpec => LogsFollow
  BY <1>3, DockerInvariant, PTL DEF DockerPageSpec, LogsFollow
<1>7. QED
  BY <1>4, <1>5, <1>6 DEF DockerMovesOn
=============================================================================
