------------------------------- MODULE Updater -------------------------------
(***************************************************************************)
(* The self-update (src/src/updater.cpp, buttons of qml/UpdateDialog.qml): *)
(* look up the latest release, download its zip, unpack it with ditto, and *)
(* quit into a script that swaps the bundle.  Replies, child processes and *)
(* the members that point to the last one of each are kept apart, because  *)
(* the handlers read the member, whichever reply or process has ended.     *)
(***************************************************************************)
EXTENDS Naturals, FiniteSets

CONSTANTS
  Newest,      \* releases are numbered 1..Newest; trun starts as release 1
  MaxReplies,  \* bound on the requests of one run of the app, per kind
  MaxInstalls  \* bound on the installations of one run of the app

ASSUME UpdaterAssumption ==
  Newest \in Nat \ {0} /\ MaxReplies \in Nat /\ MaxInstalls \in Nat

VARIABLES
  uState,     \* m_state; "gone" while the app is not running
  latest,     \* m_latestVersion, 0 when empty
  zip,        \* m_zipUrl is valid
  offer,      \* m_updateAvailable
  reply,      \* m_checkReply and m_downloadReply, 0 for nullptr
  flying,     \* per kind: the replies that have not finished
  asked,      \* per kind: how many replies were made
  path,       \* m_downloadPath, by version; 0 when empty
  disk,       \* the zips in the work directories: absent, empty, part, full
  ditto,      \* m_extractProcess, 0 for nullptr
  dittos,     \* the ditto processes that run, with the version they unpack
  bundles,    \* the unpacked bundles in the work directories
  handed,     \* the version given to the install script, 0 when none waits
  installed,  \* the bundle in /Applications, 0 when it is broken
  published,  \* external: the latest release on GitHub
  due,        \* updates/lastCheck is older than a day
  overlap     \* history: a check was made while an installation ran

updaterVars == <<uState, latest, zip, offer, reply, flying, asked, path, disk, ditto,
                 dittos, bundles, handed, installed, published, due, overlap>>

Releases == 1..Newest
ReplyKinds == {"check", "download"}
UState == {"idle", "checking", "upToDate", "available", "downloading", "ready",
           "installing", "error", "gone"}
Contents == {"absent", "empty", "part", "full"}

UpdaterTypeOK ==
  /\ uState \in UState
  /\ latest \in 0..Newest /\ path \in 0..Newest /\ handed \in 0..Newest
  /\ installed \in 0..Newest /\ published \in Releases
  /\ zip \in BOOLEAN /\ offer \in BOOLEAN /\ due \in BOOLEAN /\ overlap \in BOOLEAN
  /\ reply \in [ReplyKinds -> 0..MaxReplies] /\ asked \in [ReplyKinds -> 0..MaxReplies]
  /\ flying \in [ReplyKinds -> SUBSET (1..MaxReplies)]
  /\ disk \in [Releases -> Contents] /\ bundles \in [Releases -> Contents]
  /\ ditto \in 0..MaxInstalls
  /\ dittos \subseteq [id : 1..MaxInstalls, version : Releases]

(* What a start of the app finds: the disk, but no member of the last run. *)
Fresh ==
  /\ uState' = "idle" /\ latest' = 0 /\ zip' = FALSE /\ offer' = FALSE
  /\ reply' = [k \in ReplyKinds |-> 0] /\ flying' = [k \in ReplyKinds |-> {}]
  /\ asked' = [k \in ReplyKinds |-> 0] /\ path' = 0 /\ ditto' = 0 /\ dittos' = {}
  /\ overlap' = FALSE

UpdaterInit ==
  /\ uState = "idle" /\ latest = 0 /\ zip = FALSE /\ offer = FALSE
  /\ reply = [k \in ReplyKinds |-> 0] /\ flying = [k \in ReplyKinds |-> {}]
  /\ asked = [k \in ReplyKinds |-> 0] /\ path = 0 /\ ditto = 0 /\ dittos = {}
  /\ overlap = FALSE /\ handed = 0 /\ installed = 1 /\ published = 1 /\ due = TRUE
  /\ disk = [v \in Releases |-> "absent"] /\ bundles = [v \in Releases |-> "absent"]

-----------------------------------------------------------------------------
(* A new request: its reply becomes the member, whatever was there before. *)
Request(k) ==
  /\ asked[k] < MaxReplies
  /\ asked' = [asked EXCEPT ![k] = @ + 1]
  /\ flying' = [flying EXCEPT ![k] = @ \cup {asked'[k]}]
  /\ reply' = [reply EXCEPT ![k] = asked'[k]]

(* A reply ends; the handler takes the member and clears it.               *)
Finishes(k, r) ==
  /\ r \in flying[k]
  /\ flying' = [flying EXCEPT ![k] = @ \ {r}]
  /\ reply' = [reply EXCEPT ![k] = 0]

setError == uState' = "error" /\ offer' = FALSE

(* The dialog checks on every opening, in whatever state that is.          *)
checkForUpdates ==
  /\ uState \notin {"checking", "downloading", "gone"}
  /\ Request("check")
  /\ uState' = "checking"
  /\ overlap' = (overlap \/ uState = "installing")

Check ==
  /\ checkForUpdates
  /\ UNCHANGED <<latest, zip, offer, path, disk, ditto, dittos, bundles, handed,
                 installed, published, due>>

(* parseReleasePayload() of a payload: the release, if it has a version    *)
(* tag, whether its zip for this Mac is among the assets, and whether the  *)
(* version is newer than the running one.                                  *)
Parsed(tag, macZip) ==
  [ok |-> tag # 0, newer |-> tag > installed, latest |-> tag, zip |-> tag # 0 /\ macZip]

(* Bug: the error of a reply is not looked at.                             *)
CheckUnheard(r) ==
  /\ Finishes("check", r)
  /\ IF reply["check"] = 0
     THEN UNCHANGED <<uState, latest, zip, offer>>
     ELSE \/ UNCHANGED <<uState, latest, zip, offer>>
          \/ \E macZip \in BOOLEAN : LET info == Parsed(published, macZip) IN
               /\ latest' = info.latest
               /\ zip' = info.zip
               /\ offer' = info.newer
               /\ uState' = IF info.newer THEN "available" ELSE "upToDate"
  /\ UNCHANGED <<asked, path, disk, ditto, dittos, bundles, handed, installed,
                 published, due, overlap>>

(* The whole of onCheckFinished(): a finished reply fails or brings the    *)
(* payload; if the member is another reply, that one is read half-way,     *)
(* which shows no object or, with luck, all of the payload.                *)
CheckFinished(r) ==
  /\ Finishes("check", r)
  /\ IF reply["check"] = 0
     THEN UNCHANGED <<uState, latest, zip, offer>>
     ELSE \/ setError /\ UNCHANGED <<latest, zip>>
          \/ \E macZip \in BOOLEAN : LET info == Parsed(published, macZip) IN
               /\ info.ok
               /\ latest' = info.latest
               /\ zip' = info.zip
               /\ offer' = info.newer
               /\ uState' = IF info.newer THEN "available" ELSE "upToDate"
  /\ UNCHANGED <<asked, path, disk, ditto, dittos, bundles, handed, installed,
                 published, due, overlap>>

-----------------------------------------------------------------------------
(* downloadUpdate() from its button, which only an offer with a zip shows: *)
(* the zip of the version is made anew, unless the disk refuses.           *)
Download ==
  /\ uState = "available" /\ zip
  /\ path' = latest
  /\ \/ /\ setError
        /\ disk' = [disk EXCEPT ![latest] = "absent"]
        /\ UNCHANGED <<reply, flying, asked>>
     \/ /\ Request("download")
        /\ uState' = "downloading"
        /\ disk' = [disk EXCEPT ![latest] = "empty"]
        /\ UNCHANGED offer
  /\ UNCHANGED <<latest, zip, ditto, dittos, bundles, handed, installed, published,
                 due, overlap>>

ReadyRead ==
  /\ uState # "gone" /\ reply["download"] # 0 /\ disk[path] = "empty"
  /\ disk' = [disk EXCEPT ![path] = "part"]
  /\ UNCHANGED <<uState, latest, zip, offer, reply, flying, asked, path, ditto, dittos,
                 bundles, handed, installed, published, due, overlap>>

(* Bug: a failed transfer is only seen in an empty file.                   *)
DownloadBelieved(r) ==
  /\ Finishes("download", r)
  /\ IF reply["download"] = 0 THEN UNCHANGED <<uState, offer, disk>>
     ELSE \/ /\ disk[path] = "empty" /\ setError
             /\ disk' = [disk EXCEPT ![path] = "absent"]
          \/ /\ uState' = "ready" /\ UNCHANGED offer
             /\ \E c \in {"part", "full"} : disk' = [disk EXCEPT ![path] = c]
  /\ UNCHANGED <<latest, zip, asked, path, ditto, dittos, bundles, handed, installed,
                 published, due, overlap>>

(* onDownloadFinished(): a failure or the time-out removes the file; an    *)
(* empty file is a failure, too; a member that is still running shows no   *)
(* error, so what it has brought by then counts as the download.           *)
DownloadFinished(r) ==
  /\ Finishes("download", r)
  /\ IF reply["download"] = 0
     THEN UNCHANGED <<uState, offer, disk>>
     ELSE \/ /\ reply["download"] = r \/ disk[path] = "empty"
             /\ setError
             /\ disk' = [disk EXCEPT ![path] = "absent"]
          \/ /\ reply["download"] = r \/ disk[path] = "part"
             /\ disk' = [disk EXCEPT ![path] = IF reply["download"] = r THEN "full" ELSE @]
             /\ uState' = "ready"
             /\ UNCHANGED offer
  /\ UNCHANGED <<latest, zip, asked, path, ditto, dittos, bundles, handed, installed,
                 published, due, overlap>>

(* cancelDownload(): abort() calls the handler before it returns, with     *)
(* m_cancelled set and an error, so the offer is back at once.             *)
CancelDownload ==
  /\ uState = "downloading" /\ reply["download"] # 0
  /\ Finishes("download", reply["download"])
  /\ disk' = [disk EXCEPT ![path] = "absent"]
  /\ uState' = "available" /\ offer' = TRUE
  /\ UNCHANGED <<latest, zip, asked, path, ditto, dittos, bundles, handed, installed,
                 published, due, overlap>>

-----------------------------------------------------------------------------
(* installAndRestart(): the work directory is that of m_latestVersion.     *)
installAndRestart ==
  /\ uState = "ready" /\ disk[path] # "absent"
  /\ \E id \in 1..MaxInstalls :
       /\ \A d \in dittos : d.id < id
       /\ ditto' = id
       /\ dittos' = dittos \cup {[id |-> id, version |-> latest]}
  /\ bundles' = [bundles EXCEPT ![latest] = "part"]
  /\ uState' = "installing"
  /\ UNCHANGED <<latest, zip, offer, reply, flying, asked, path, disk, handed, installed,
                 published, due, overlap>>

(* A ditto ends: only a whole zip can give a whole bundle.                 *)
Unpacked(d, ok) ==
  bundles' = [bundles EXCEPT ![d.version] =
    IF ok /\ disk[d.version] = "full" THEN "full" ELSE "part"]

(* Bug: the exit code is not looked at.                                    *)
ExtractBelieved(d) ==
  /\ d \in dittos
  /\ \E ok \in BOOLEAN : Unpacked(d, ok)
  /\ ditto' = 0 /\ dittos' = {}
  /\ uState' = "gone" /\ handed' = latest
  /\ UNCHANGED <<latest, zip, offer, reply, flying, asked, path, disk, installed,
                 published, due, overlap>>

(* onExtractFinished(): clears and kills the member, looks for the bundle  *)
(* in the work directory of now, hands the running processes over (module  *)
(* Session, QuitLeave) and quits into the script.                          *)
ExtractFinished(d) ==
  /\ d \in dittos
  /\ ditto' = 0
  /\ dittos' = {e \in dittos : e # d /\ e.id # ditto}
  /\ \/ /\ \E ok \in BOOLEAN : Unpacked(d, ok)
        /\ setError
        /\ UNCHANGED handed
     \/ /\ Unpacked(d, TRUE)
        /\ bundles'[latest] # "absent"
        /\ uState' = "gone" /\ handed' = latest
        /\ UNCHANGED offer
  /\ UNCHANGED <<latest, zip, reply, flying, asked, path, disk, installed, published,
                 due, overlap>>

(* The script waits for the app to go, replaces the bundle and opens it,   *)
(* whatever it is: only a whole one runs.                                  *)
InstallScript ==
  /\ uState = "gone" /\ handed # 0
  /\ bundles' = [bundles EXCEPT ![handed] = "absent"]
  /\ handed' = 0
  /\ \/ /\ bundles[handed] = "full"
        /\ installed' = handed
        /\ Fresh
     \/ /\ bundles[handed] # "full"
        /\ installed' = 0
        /\ UNCHANGED <<uState, latest, zip, offer, reply, flying, asked, path, ditto, dittos, overlap>>
  /\ UNCHANGED <<disk, published, due>>

-----------------------------------------------------------------------------
(* checkOnStartup(): at most once a day; the time is noted before asking.  *)
Startup ==
  /\ uState = "idle" /\ due
  /\ checkForUpdates
  /\ due' = FALSE
  /\ UNCHANGED <<latest, zip, offer, path, disk, ditto, dittos, bundles, handed,
                 installed, published>>

(* The user quits and starts the app; what was running dies with it.       *)
Relaunch ==
  /\ uState # "gone" /\ installed # 0
  /\ Fresh
  /\ UNCHANGED <<disk, bundles, handed, installed, published, due>>

(* A release is published, or the latest one is withdrawn; a day passes.   *)
WorldMoves ==
  /\ \/ \E v \in Releases : v \in {published - 1, published + 1} /\ published' = v
                            /\ UNCHANGED due
     \/ ~due /\ due' = TRUE /\ UNCHANGED published
  /\ UNCHANGED <<uState, latest, zip, offer, reply, flying, asked, path, disk, ditto,
                 dittos, bundles, handed, installed, overlap>>

(* What ends by itself, as long as there is an event loop to hear of it.   *)
UpdaterEnds ==
  /\ uState # "gone"
  /\ \/ \E r \in 1..MaxReplies : CheckFinished(r) \/ DownloadFinished(r)
     \/ \E d \in dittos : ExtractFinished(d)

UpdaterNext ==
  \/ Check \/ Download \/ ReadyRead \/ CancelDownload \/ installAndRestart
  \/ InstallScript \/ Startup \/ Relaunch \/ WorldMoves
  \/ UpdaterEnds

UpdaterSpec == UpdaterInit /\ [][UpdaterNext]_updaterVars

-----------------------------------------------------------------------------
(* The dialog in "ready": "The update is downloaded."  As long as nobody   *)
(* checks during an installation, ready means that the whole zip of the    *)
(* very version on offer is on disk, and that it is newer than this one.   *)
ReadyIsDownloaded ==
  ~overlap /\ uState = "ready" => disk[path] = "full" /\ path = latest /\ latest > installed

(* Then also each state belongs to the one reply or process it shows, and  *)
(* no handler ever takes one for another.                                  *)
OneThingAtATime ==
  ~overlap =>
    /\ flying["check"] = IF uState = "checking" THEN {reply["check"]} ELSE {}
    /\ flying["download"] = IF uState = "downloading" THEN {reply["download"]} ELSE {}
    /\ {d.id : d \in dittos} = IF uState = "installing" THEN {ditto} ELSE {}

(* README "installs new versions with one restart": what replaces the app  *)
(* is a whole bundle of a newer release, over releases that come and go,   *)
(* failed downloads, restarts and leftovers in the work directories.       *)
OnlyWholeUpdates ==
  [][installed' # installed /\ ~overlap => installed' > installed]_updaterVars

(* "Checking" and "downloading" end: both replies have a timer that aborts *)
(* them, and ditto ends; so the dialog gets its buttons back.              *)
UpdateSettles == uState \in {"checking", "downloading", "installing"} ~>
                 uState \notin {"checking", "downloading", "installing"}

(* What the dialog says of the update is so.                               *)
UpdaterSound ==
  /\ UpdaterTypeOK
  /\ ReadyIsDownloaded
  /\ OneThingAtATime
=============================================================================
