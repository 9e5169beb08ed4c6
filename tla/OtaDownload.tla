---------------------------- MODULE OtaDownload -----------------------------
(***************************************************************************)
(* The download half of OtaUpdater (src/client/services/otaupdater.cpp):   *)
(* the server pushes a new build, the client asks for the file, receives   *)
(* it in chunks, verifies it and installs it from a 500 ms timer.          *)
(*                                                                         *)
(* Slots run one at a time on the Qt main thread, but between two of them  *)
(* anything may arrive: another push, chunks of an older request, a lost   *)
(* link, a kill.  installAppOta is split where the power may fail: after   *)
(* the old program is removed and before the new one is renamed.           *)
(***************************************************************************)
EXTENDS Integers, Sequences, FiniteSets

CONSTANTS
  Builds,     (* contents the server may publish (told apart by sha256)    *)
  Chunks,     (* Chunks[b]: number of chunks of build b                    *)
  Names,      (* <version>_<filename> of a push                            *)
  OldApp,     (* content of the program installed before any update        *)
  NoFile,     (* the file does not exist                                   *)
  None,       (* no push, no install, no open temp file                    *)
  MaxPushes,  (* bound: pushes sent by the server                          *)
  MaxLosses   (* bound: lost links                                         *)

ASSUME OtaDownloadAssumption ==
  /\ Builds # {} /\ Names # {} /\ "installed" \notin Names
  /\ Chunks \in [Builds -> Nat \ {0}]
  /\ MaxPushes \in Nat /\ MaxLosses \in Nat

Types == {"app", "system"}

Push == [name : Names, build : Builds, type : Types]

(* The file of a build, chunk by chunk: content is compared by sha256. *)
Complete(b) == [i \in 1 .. Chunks[b] |-> <<b, i - 1>>]

(* Where a push is saved: staging directory or work_dir, then its name. *)
Path(push) == <<push.type, push.name>>
Paths == Types \X Names

(* The installed program, work_dir/<manifest.filename>. *)
App == <<"app", "installed">>

VARIABLES
  inbox,        (* messages on the TCP link, oldest first                  *)
  streams,      (* file requests the server is still answering             *)
  pushes,       (* pushes sent so far                                      *)
  losses,       (* links lost so far                                       *)
  downloading,  (* m_tcpDownloading                                        *)
  cur,          (* m_tcpVersion, m_tcpFilename, m_tcpSha256, ..., m_tcpType *)
  expected,     (* m_expectedChunkIndex                                    *)
  handle,       (* file that m_tcpTempFile writes to, or None              *)
  files,        (* contents of the temp files and of the program           *)
  manifest,     (* m_ota->manifest and m_ota->type                         *)
  timers,       (* pending 500 ms timers: the savePath each one captured   *)
  installing,   (* savePath being renamed over the removed program, or None *)
  quitting,     (* the 2 s timer towards QApplication::quit is running     *)
  alive,        (* the client process runs                                 *)
  overtaken,    (* history: a push was taken since the manifest was stored *)
  lastInstall   (* history: the last install and whether it was disturbed  *)

netVars == <<inbox, streams, pushes, losses>>
dlVars == <<downloading, cur, expected, handle>>
vars == <<netVars, dlVars, files, manifest, timers, installing, quitting,
          alive, overtaken, lastInstall>>

PushMsg == [kind : {"ota_push"}, push : Push]
ChunkMsg == [kind : {"ota_chunk"}, idx : Nat, total : Nat,
             data : Builds \X Nat]

Content == Seq(Builds \X Nat)

TypeOK ==
  /\ inbox \in Seq(PushMsg \cup ChunkMsg)
  /\ streams \in Seq([build : Builds, next : Nat])
  /\ pushes \in 0 .. MaxPushes
  /\ losses \in 0 .. MaxLosses
  /\ downloading \in BOOLEAN
  /\ cur \in Push \cup {None}
  /\ expected \in Nat
  /\ downloading => \E b \in Builds : expected < Chunks[b]
  /\ handle \in Paths \cup {App, None}
  /\ DOMAIN files = Paths \cup {App}
  /\ \A f \in DOMAIN files : files[f] \in Content \cup {NoFile, OldApp}
  /\ manifest \in Push \cup {None}
  /\ timers \in Seq(Paths)
  /\ installing \in Paths \cup {None}
  /\ {quitting, alive, overtaken} \subseteq BOOLEAN

Init ==
  /\ inbox = <<>> /\ streams = <<>> /\ pushes = 0 /\ losses = 0
  /\ downloading = FALSE /\ cur = None /\ expected = 0 /\ handle = None
  /\ files = [f \in Paths \cup {App} |-> IF f = App THEN OldApp ELSE NoFile]
  /\ manifest = None
  /\ timers = <<>>
  /\ installing = None
  /\ quitting = FALSE
  /\ alive = TRUE
  /\ overtaken = FALSE
  /\ lastInstall = None

-----------------------------------------------------------------------------
(* The server, as far as the client's handlers rely on it. *)

ServerPush(push) ==
  /\ alive
  /\ pushes < MaxPushes
  /\ pushes' = pushes + 1
  /\ inbox' = Append(inbox, [kind |-> "ota_push", push |-> push])
  /\ UNCHANGED <<streams, losses, dlVars, files, manifest, timers, installing,
                 quitting, alive, overtaken, lastInstall>>

(* The next chunk of some request; requests are answered side by side. *)
ServerChunk ==
  \E i \in DOMAIN streams :
    LET s == streams[i] IN
    /\ inbox' = Append(inbox, [kind |-> "ota_chunk", idx |-> s.next,
                               total |-> Chunks[s.build],
                               data |-> <<s.build, s.next>>])
    /\ streams' =
         IF s.next + 1 < Chunks[s.build]
           THEN [streams EXCEPT ![i].next = @ + 1]
           ELSE SubSeq(streams, 1, i - 1) \o SubSeq(streams, i + 1, Len(streams))
    /\ UNCHANGED <<pushes, losses, dlVars, files, manifest, timers, installing,
                   quitting, alive, overtaken, lastInstall>>

(* The link breaks: what was under way is gone, the client's state is not. *)
LinkLost ==
  /\ losses < MaxLosses
  /\ losses' = losses + 1
  /\ inbox' = <<>>
  /\ streams' = <<>>
  /\ UNCHANGED <<pushes, dlVars, files, manifest, timers, installing, quitting,
                 alive, overtaken, lastInstall>>

-----------------------------------------------------------------------------
(* slotStartTcpDownload. *)

(* The download starts from an empty temp file, whatever was there; a temp  *)
(* file that cannot be opened ends it.                                      *)
StartTcpDownload(push) ==
  /\ cur' = push
  /\ expected' = 0
  /\ \/ /\ downloading' = TRUE
        /\ handle' = Path(push)
        /\ files' = [files EXCEPT ![Path(push)] = <<>>]
        /\ streams' = Append(streams, [build |-> push.build, next |-> 0])
     \/ /\ downloading' = FALSE
        /\ handle' = None
        /\ UNCHANGED <<files, streams>>

ReceivePush ==
  /\ installing = None
  /\ inbox # <<>> /\ Head(inbox).kind = "ota_push"
  /\ inbox' = Tail(inbox)
  /\ StartTcpDownload(Head(inbox).push)
  /\ overtaken' = TRUE
  /\ UNCHANGED <<pushes, losses, manifest, timers, installing, quitting, alive,
                 lastInstall>>

-----------------------------------------------------------------------------
(* slotReceiveChunk. *)

(* Give up: close and remove the temp file, signalUpdateFinished(false). *)
AbortDownload(fs) ==
  /\ downloading' = FALSE
  /\ handle' = None
  /\ files' = [fs EXCEPT ![Path(cur)] = NoFile]
  /\ UNCHANGED <<cur, manifest, timers, overtaken>>

(* The temp file after the chunk is appended to whatever file is open. *)
Written(data) ==
  IF handle = None THEN files
  ELSE [files EXCEPT ![handle] = Append(@, data)]

(* Mutant: only the length of the file is compared, not its digest. *)
VerifiedBySize(fs) ==
  /\ fs[Path(cur)] # NoFile
  /\ Len(fs[Path(cur)]) = Chunks[cur.build]

(* Size and sha256 of the temp file are those of the push. *)
Verified(fs) == fs[Path(cur)] = Complete(cur.build)

(* Mutant: the last chunk is not recognised as the last. *)
AcceptOffByOne(msg, fs) ==
  /\ expected' = msg.idx + 1
  /\ IF msg.idx + 1 <= msg.total
       THEN /\ files' = fs
            /\ UNCHANGED <<downloading, cur, handle, manifest, timers, overtaken>>
       ELSE AbortDownload(fs)

Accept(msg, fs) ==
  /\ expected' = msg.idx + 1
  /\ IF msg.idx + 1 < msg.total
       THEN /\ files' = fs
            /\ UNCHANGED <<downloading, cur, handle, manifest, timers, overtaken>>
       ELSE IF msg.idx + 1 = msg.total /\ Verified(fs)
         THEN /\ downloading' = FALSE
              /\ handle' = None
              /\ files' = fs
              /\ manifest' = cur
              /\ timers' = Append(timers, Path(cur))
              /\ overtaken' = FALSE
              /\ UNCHANGED cur
         ELSE AbortDownload(fs)

ReceiveChunk ==
  /\ installing = None
  /\ inbox # <<>> /\ Head(inbox).kind = "ota_chunk"
  /\ inbox' = Tail(inbox)
  /\ LET msg == Head(inbox) IN
     \/ /\ ~ downloading
        /\ UNCHANGED <<dlVars, files, manifest, timers, overtaken>>
     \/ /\ downloading /\ msg.idx # expected
        /\ AbortDownload(files)
        /\ UNCHANGED expected
     \/ /\ downloading /\ msg.idx = expected
        /\ Accept(msg, Written(msg.data))
     \/ /\ downloading /\ msg.idx = expected   (* disk full *)
        /\ AbortDownload(files)
        /\ UNCHANGED expected
  /\ UNCHANGED <<streams, pushes, losses, installing, quitting, alive,
                 lastInstall>>

-----------------------------------------------------------------------------
(* slotInstallTcpDownload, from the timer. *)

(* The history of installs: an install is disturbed when a push was taken   *)
(* after the one it belongs to was verified (other = later pending timers). *)
Record(content, type, other) ==
  lastInstall' = [content |-> content, type |-> type, manifest |-> manifest,
                  disturbed |-> overtaken \/ other # <<>>]

(* Install routing: by m_tcpType, which is that of the newest push. *)
Route(push) == push.type

(* installSystemOta: the file goes to the inactive partition.  A missing    *)
(* file or a failing swupdate or fw_setenv ends the update.                 *)
InstallSystem ==
  /\ installing = None
  /\ timers # <<>> /\ Route(cur) = "system"
  /\ timers' = Tail(timers)
  /\ \/ /\ files[Head(timers)] # NoFile
        /\ Record(files[Head(timers)], "system", Tail(timers))
        /\ quitting' = TRUE
     \/ UNCHANGED <<lastInstall, quitting>>
  /\ UNCHANGED <<netVars, dlVars, files, manifest, installing, alive, overtaken>>

(* installAppOta: back up, remove the installed program ...                 *)
InstallAppRemove ==
  /\ installing = None
  /\ timers # <<>> /\ Route(cur) = "app"
  /\ timers' = Tail(timers)
  /\ installing' = Head(timers)
  /\ files' = [files EXCEPT ![App] = NoFile]
  /\ handle' = IF handle = App THEN None ELSE handle
  /\ UNCHANGED <<netVars, downloading, cur, expected, manifest, quitting, alive,
                 overtaken, lastInstall>>

(* ... and rename the downloaded file into its place, with a boot mark.  An *)
(* open temp file keeps writing to the renamed file.                        *)
InstallAppRename ==
  /\ installing # None
  /\ installing' = None
  /\ \/ /\ files[installing] # NoFile
        /\ files' = [files EXCEPT ![App] = files[installing],
                                  ![installing] = NoFile]
        /\ handle' = IF handle = installing THEN App ELSE handle
        /\ Record(files[installing], "app", timers)
        /\ quitting' = TRUE
     \/ /\ files[installing] = NoFile
        /\ UNCHANGED <<files, handle, lastInstall, quitting>>
  /\ UNCHANGED <<netVars, downloading, cur, expected, manifest, timers, alive,
                 overtaken>>

(* The process ends: by quit two seconds after an update, or by a kill or a *)
(* power failure at any moment.                                             *)
Stop ==
  /\ alive
  /\ quitting \/ losses < MaxLosses
  /\ losses' = IF quitting THEN losses ELSE losses + 1
  /\ alive' = FALSE
  /\ inbox' = <<>> /\ streams' = <<>>
  /\ downloading' = FALSE /\ cur' = None /\ expected' = 0 /\ handle' = None
  /\ manifest' = None /\ timers' = <<>> /\ installing' = None
  /\ quitting' = FALSE /\ overtaken' = FALSE
  /\ UNCHANGED <<pushes, files, lastInstall>>

(* systemd starts the program again, if there is one. *)
Start ==
  /\ ~ alive
  /\ files[App] # NoFile
  /\ alive' = TRUE
  /\ UNCHANGED <<netVars, dlVars, files, manifest, timers, installing, quitting,
                 overtaken, lastInstall>>

-----------------------------------------------------------------------------

ClientStep ==
  ReceivePush \/ ReceiveChunk \/ InstallSystem \/ InstallAppRemove
  \/ InstallAppRename

Next ==
  \/ \E push \in Push : ServerPush(push)
  \/ ServerChunk
  \/ LinkLost
  \/ ClientStep
  \/ Stop
  \/ Start

Spec == Init /\ [][Next]_vars

(* The event loop runs, and the server answers the requests it received. *)
FairSpec == Spec /\ WF_vars(ClientStep) /\ WF_vars(ServerChunk)

-----------------------------------------------------------------------------
(* Properties. *)

(* An install that no later push disturbed puts exactly the pushed build in *)
(* place, in the way its type asks for - although chunks carry no version,  *)
(* so that chunks of an older request can end up in the newer temp file.    *)
UndisturbedInstallIsPush ==
  lastInstall # None /\ ~ lastInstall.disturbed =>
    /\ lastInstall.content = Complete(lastInstall.manifest.build)
    /\ lastInstall.type = lastInstall.manifest.type

(* An open temp file holds chunks, and an install never runs beside an open *)
(* program file; a chunk says how many its build has.                       *)
TransferInv ==
  /\ handle # None => files[handle] \in Content
  /\ installing # None => handle \in Paths \cup {None}
  /\ downloading => cur \in Push
  /\ \A i \in DOMAIN inbox :
       inbox[i].kind = "ota_chunk" => \E b \in Builds : inbox[i].total = Chunks[b]

(* Why UndisturbedInstallIsPush holds: the last timer and the install under  *)
(* way belong to the manifest, and until the next push is taken nothing      *)
(* writes to the verified file - a finished download has no open temp file.  *)
PendingInv ==
  /\ timers # <<>> => manifest \in Push /\ timers[Len(timers)] = Path(manifest)
  /\ installing # None =>
       /\ manifest \in Push /\ cur.type = "app"
       /\ timers = <<>> => installing = Path(manifest)
  /\ (timers # <<>> \/ installing # None) /\ ~ overtaken =>
       /\ cur = manifest /\ ~ downloading
       /\ files[Path(manifest)] \in {Complete(manifest.build), NoFile}

DownloadInv == TypeOK /\ TransferInv /\ PendingInv /\ UndisturbedInstallIsPush

(* The server stops a request with the last chunk of its build.              *)
Unanswered == {r \in [build : Builds, next : Nat] : r.next < Chunks[r.build]}

RequestInv == streams \in Seq(Unanswered)

(* While the link has not been lost, a download is never left waiting for     *)
(* nothing: some request is still being answered, or the last chunk of one    *)
(* is on its way - and whatever request that belongs to, it ends the download *)
(* (otaupdater.cpp:112-118, 140-160).                                        *)
LastChunk(msg) == msg.kind = "ota_chunk" /\ msg.idx + 1 = msg.total

DownloadAnswered ==
  downloading /\ losses = 0 =>
    streams # <<>> \/ \E i \in DOMAIN inbox : LastChunk(inbox[i])

(* A download comes to an end, with the update installed or refused, as     *)
(* long as the link stays up and the process is not killed.                 *)
DownloadEnds == downloading ~> (~ downloading \/ losses > 0)

(* README.md:80 promises an atomic replacement of the program (tar.gz       *)
(* atomic replace): a process that stops leaves a program to start again.   *)
AtomicReplacement == ~ alive => files[App] # NoFile

(* README.md:29 lists resumed downloads for ota.c/h: a push whose temp file *)
(* already holds the first chunks of the build goes on behind them.         *)
Partial(push) ==
  LET f == files[Path(push)] IN
  /\ f \notin {NoFile, <<>>}
  /\ \E n \in 1 .. (Chunks[push.build] - 1) : f = SubSeq(Complete(push.build), 1, n)

ResumesDownload ==
  [][\A push \in Push :
       /\ inbox # <<>> /\ Head(inbox) = [kind |-> "ota_push", push |-> push]
       /\ inbox' = Tail(inbox) /\ downloading' /\ Partial(push)
       => expected' = Len(files[Path(push)])]_vars

(* otaupdater.cpp:190 captures the verified path "so it is not overwritten  *)
(* later": whatever arrives before the timer fires, the install is that of  *)
(* the verified push.                                                       *)
PendingInstallKept ==
  lastInstall # None =>
    /\ lastInstall.content = Complete(lastInstall.manifest.build)
    /\ lastInstall.type = lastInstall.manifest.type

=============================================================================
