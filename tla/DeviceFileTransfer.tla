------------------------- MODULE DeviceFileTransfer -------------------------
(***************************************************************************)
(* The upload of a package to the Pico: the frames an uploader writes      *)
(* (HELLO, FILE_BEGIN, FILE_CHUNK.., FILE_COMMIT, RUN_PACKAGE, or one      *)
(* KIBO_PKG line), the serial line that may lose them, and the firmware's  *)
(* handlers.  An uploader never waits for an answer between two frames; it *)
(* only looks for the kibo_pkg_ack line after the last one.  A frame that  *)
(* is damaged on the way fails its body CRC and changes nothing, so it is  *)
(* a lost frame.  Packages are sequences of bytes; what the firmware makes *)
(* of one is its Verdict.  ERROR, LOG, CAPABILITIES and PONG frames are    *)
(* not modelled: no uploader reads them.                                   *)
(***************************************************************************)
EXTENDS Naturals, Sequences

CONSTANTS
    Byte,            \* the bytes packages are made of
    Files,           \* the minified packages somebody may upload
    Boot,            \* the package embedded in the firmware
    ChunkSizes,      \* --chunk-utf8-bytes, and the 768 of the browser
    FileIds,         \* the fileId of every uploader of the repository is 1
    DeviceLimit,     \* the firmware's limit on a package (a build macro)
    MaxInFlight,     \* bound: frames written and not yet handled
    Crc(_),          \* the CRC32 of a sequence of bytes
    Verdict(_)       \* what committing these bytes does, see Verdicts

(***************************************************************************)
(* "runs"      : validated, dry-run, activated and acknowledged            *)
(* "rejected"  : a check or the dry run fails: kibo_pkg_ack status=error   *)
(* "raises"    : packageSchemaVersion is not an integer: an exception      *)
(*               before anything is assigned                               *)
(* "raisesLate": live.tickIntervalMilliseconds is not an integer: an       *)
(*               exception after the active package was replaced           *)
(***************************************************************************)
Verdicts == {"runs", "rejected", "raises", "raisesLate"}

ASSUME FilesAssumption == /\ Files \subseteq Seq(Byte)
                          /\ Boot \in Seq(Byte)
ASSUME SizesAssumption == /\ ChunkSizes \subseteq Nat \ {0}
                          /\ FileIds \subseteq Nat
                          /\ DeviceLimit \in Nat
                          /\ MaxInFlight \in Nat
\* Two different packages of one length do not share their checksum: true of
\* the packages one meets, not of all of them, as with any CRC.
ASSUME CrcAssumption ==
    \A f \in Files :
        /\ \A n \in 0..Len(f) : \A bytes \in [1..n -> Byte] : Crc(bytes) \in Nat
        /\ \A bytes \in [1..Len(f) -> Byte] : Crc(bytes) = Crc(f) => bytes = f
ASSUME VerdictAssumption == Verdict(Boot) = "runs"

VARIABLES
    host,     \* the uploader: what it sends and how far it is
    line,     \* frames on their way to the device
    session,  \* g_file_receive_session_for_device_protocol_v1
    staged,   \* g_has_staged.. and g_staged_pico_runtime_package_utf8_bytes
    active,   \* g_active_pico_runtime_package_json
    live,     \* the package g_live_animation_runtime was built from
    periodic, \* g_live_runtime_periodic_reset_enabled
    up,       \* FALSE once an exception escaped loop()
    ack,      \* the kibo_pkg_ack line waiting in the uploader's input
    intact    \* history: no frame of the current upload was lost

vars == <<host, line, session, staged, active, live, periodic, up, ack, intact>>
device == <<session, staged, active, live, periodic, up>>

-----------------------------------------------------------------------------
\* The frames and how an uploader produces them

Frame ==
    [kind : {"HELLO", "RUN_PACKAGE", "GARBLED"}]
    \cup {[kind |-> "FILE_BEGIN", fileId |-> id, total |-> Len(f), crc |-> Crc(f)] :
            id \in FileIds, f \in Files}
    \cup [kind : {"FILE_CHUNK"}, fileId : FileIds, index : Nat, offset : Nat,
          crc : Nat, bytes : Seq(Byte)]
    \cup [kind : {"FILE_COMMIT"}, fileId : FileIds]
    \cup [kind : {"KIBO_PKG"}, bytes : Files]

NoUpload == [phase |-> "idle"]

Uploads ==
    [phase : {"hello", "begin", "chunk", "commit", "run", "line", "await"},
     file : Files, size : ChunkSizes, fileId : FileIds,
     index : Nat, offset : Nat]

ChunkEnd(h) == IF h.offset + h.size < Len(h.file) THEN h.offset + h.size
                                                  ELSE Len(h.file)

\* Plausible bug: the line keeps only what one chunk would hold.
OneChunkOfPackage(h) == SubSeq(h.file, 1, h.size)

PackageBytes(h) == h.file

NextFrame(h) ==
    CASE h.phase = "hello"  -> [kind |-> "HELLO"]
      [] h.phase = "begin"  -> [kind |-> "FILE_BEGIN", fileId |-> h.fileId,
                                total |-> Len(h.file), crc |-> Crc(h.file)]
      [] h.phase = "chunk"  ->
            LET bytes == SubSeq(h.file, h.offset + 1, ChunkEnd(h))
            IN [kind |-> "FILE_CHUNK", fileId |-> h.fileId, index |-> h.index,
                offset |-> h.offset, crc |-> Crc(bytes), bytes |-> bytes]
      [] h.phase = "commit" -> [kind |-> "FILE_COMMIT", fileId |-> h.fileId]
      [] h.phase = "run"    -> [kind |-> "RUN_PACKAGE"]
      [] h.phase = "line"   -> [kind |-> "KIBO_PKG", bytes |-> PackageBytes(h)]

MoreChunks(h) == IF h.offset < Len(h.file) THEN "chunk" ELSE "commit"

AfterFrame(h) ==
    CASE h.phase = "hello"  -> [h EXCEPT !.phase = "begin"]
      [] h.phase = "begin"  -> [h EXCEPT !.phase = MoreChunks(h)]
      [] h.phase = "chunk"  ->
            LET next == [h EXCEPT !.index = @ + 1, !.offset = ChunkEnd(h)]
            IN [next EXCEPT !.phase = MoreChunks(next)]
      [] h.phase = "commit" -> [h EXCEPT !.phase = "run"]
      [] h.phase \in {"run", "line"} -> [h EXCEPT !.phase = "await"]

\* A tool opens the port and shakes hands with KIBO_PING.  The answer comes
\* after everything written before was handled, and the tool drops the input
\* it read so far, so it starts with an empty line and no acknowledgement.
StartUpload(f, size, id, first) ==
    /\ host = NoUpload
    /\ up
    /\ line = <<>>
    /\ host' = [phase |-> first, file |-> f, size |-> size, fileId |-> id,
                index |-> 0, offset |-> 0]
    /\ ack' = "none"
    /\ intact' = TRUE
    /\ UNCHANGED <<line, device>>

SendFrame ==
    /\ host.phase \notin {"idle", "await"}
    /\ Len(line) < MaxInFlight
    /\ line' = Append(line, NextFrame(host))
    /\ host' = AfterFrame(host)
    /\ UNCHANGED <<device, ack, intact>>

\* The tool found kibo_pkg_ack status=ok in what it read.
ReportOk ==
    /\ host.phase = "await"
    /\ ack = "ok"
    /\ host' = NoUpload
    /\ UNCHANGED <<line, device, ack, intact>>

\* status=error, or no acknowledgement before the deadline; a write may also
\* fail, and the tool may be stopped, at any point of the upload.
GiveUp ==
    /\ host # NoUpload
    /\ ~(host.phase = "await" /\ ack = "ok")
    /\ host' = NoUpload
    /\ UNCHANGED <<line, device, ack, intact>>

-----------------------------------------------------------------------------
\* The line

LoseFrame ==
    /\ line # <<>>
    /\ line' = Tail(line)
    /\ intact' = FALSE
    /\ UNCHANGED <<host, device, ack>>

\* A damaged KIBO_PKG line is still answered, with status=error.
GarbleLine ==
    /\ line # <<>>
    /\ Head(line).kind = "KIBO_PKG"
    /\ line' = <<[kind |-> "GARBLED"]>> \o Tail(line)
    /\ intact' = FALSE
    /\ UNCHANGED <<host, device, ack>>

-----------------------------------------------------------------------------
\* The firmware

NoSession == [open |-> FALSE, fileId |-> 0, total |-> 0, crc |-> 0,
              received |-> <<>>, nextIndex |-> 0]

Sessions == [open : BOOLEAN, fileId : Nat, total : Nat, crc : Nat,
             received : Seq(Byte), nextIndex : Nat]

NoStaged == [has |-> FALSE, bytes |-> <<>>]

Receive(kind) == /\ up
                 /\ line # <<>>
                 /\ Head(line).kind = kind
                 /\ line' = Tail(line)
                 /\ UNCHANGED <<host, intact>>

HandleHello ==
    /\ Receive("HELLO")
    /\ UNCHANGED <<device, ack>>

\* Plausible bug: the chunk counter of the previous session survives.
OpenSessionKeepsIndex(frame) ==
    IF frame.total > DeviceLimit
    THEN NoSession
    ELSE [open |-> TRUE, fileId |-> frame.fileId, total |-> frame.total,
          crc |-> frame.crc, received |-> <<>>, nextIndex |-> session.nextIndex]

OpenSession(frame) ==
    IF frame.total > DeviceLimit
    THEN NoSession
    ELSE [open |-> TRUE, fileId |-> frame.fileId, total |-> frame.total,
          crc |-> frame.crc, received |-> <<>>, nextIndex |-> 0]

\* Plausible bug: the staged package is dropped only if FILE_BEGIN is accepted.
StagedUnlessRefused(frame) ==
    IF frame.total > DeviceLimit THEN staged ELSE NoStaged

\* Whatever was staged or half received is dropped before the checks, so that
\* an upload that is refused here cannot end by running an older package.
StagedAfterBegin(frame) == NoStaged

HandleFileBegin ==
    /\ Receive("FILE_BEGIN")
    /\ session' = OpenSession(Head(line))
    /\ staged' = StagedAfterBegin(Head(line))
    /\ UNCHANGED <<active, live, periodic, up, ack>>

\* Plausible bug: nothing bounds the copy into the receive buffer.
ChunkInSequence(frame) ==
    /\ session.open
    /\ frame.fileId = session.fileId
    /\ frame.index = session.nextIndex
    /\ frame.offset = Len(session.received)
    /\ Crc(frame.bytes) = frame.crc

\* next_expected_byte_offset is the length of what was received.
ChunkAccepted(frame) ==
    /\ session.open
    /\ frame.fileId = session.fileId
    /\ frame.index = session.nextIndex
    /\ frame.offset = Len(session.received)
    /\ frame.offset + Len(frame.bytes) <= session.total
    /\ Crc(frame.bytes) = frame.crc

AppendChunk(frame) ==
    [session EXCEPT !.received = @ \o frame.bytes, !.nextIndex = @ + 1]

\* A chunk that is refused leaves the session as it was.
HandleFileChunk ==
    /\ Receive("FILE_CHUNK")
    /\ session' = IF ChunkAccepted(Head(line)) THEN AppendChunk(Head(line))
                                               ELSE session
    /\ UNCHANGED <<staged, active, live, periodic, up, ack>>

\* Plausible bug: the length alone decides that the file is complete.
LengthComplete == Len(session.received) = session.total

FileComplete == /\ Len(session.received) = session.total
                /\ Crc(session.received) = session.crc

\* Without a session, or with another fileId, the commit changes nothing; an
\* incomplete or corrupt file ends the session.
HandleFileCommit ==
    /\ Receive("FILE_COMMIT")
    /\ IF session.open /\ Head(line).fileId = session.fileId
       THEN /\ session' = NoSession
            /\ staged' = IF FileComplete
                         THEN [has |-> TRUE, bytes |-> session.received]
                         ELSE staged
       ELSE UNCHANGED <<session, staged>>
    /\ UNCHANGED <<active, live, periodic, up, ack>>

\* try_commit_..: the dry run comes first; the tick interval is read after
\* the active package is replaced and before anything else.
Commits(bytes) == Verdict(bytes) \in {"runs", "raisesLate"}

\* Plausible bugs: the dry run comes after the assignment; the live runtime is
\* rebuilt from the bytes before they are validated.
ActiveBeforeDryRun(bytes) == IF Verdict(bytes) = "raises" THEN active ELSE bytes
LiveBeforeDryRun(bytes) == bytes

ActiveAfter(bytes) == IF Commits(bytes) THEN bytes ELSE active
LiveAfter(bytes) == IF Verdict(bytes) = "runs" THEN bytes ELSE live
Throws(bytes) == Verdict(bytes) \in {"raises", "raisesLate"}

TryCommit(bytes) ==
    /\ active' = ActiveAfter(bytes)
    /\ live' = LiveAfter(bytes)
    /\ periodic' = (periodic /\ Verdict(bytes) # "runs")
    /\ ack' = CASE Verdict(bytes) = "runs" -> "ok"
                [] Verdict(bytes) = "rejected" -> "error"
                [] OTHER -> ack

\* The frame handler catches the exception and drops the receive session.
HandleRunPackage ==
    /\ Receive("RUN_PACKAGE")
    /\ IF staged.has
       THEN /\ TryCommit(staged.bytes)
            /\ session' = IF Throws(staged.bytes) THEN NoSession ELSE session
       ELSE UNCHANGED <<active, live, periodic, ack, session>>
    /\ UNCHANGED <<staged, up>>

\* The KIBO_PKG line carries the whole package.  One that is too long is either
\* refused or, longer than any line may be, dropped with a diagnostic.  Nothing
\* catches an exception of this path: the firmware stops.
HandleKiboPkgLine ==
    /\ Receive("KIBO_PKG")
    /\ LET bytes == Head(line).bytes
       IN IF Len(bytes) > DeviceLimit
          THEN /\ ack' \in {"error", ack}
               /\ UNCHANGED <<active, live, periodic, up>>
          ELSE /\ TryCommit(bytes)
               /\ up' = ~Throws(bytes)
    /\ UNCHANGED <<session, staged>>

HandleGarbledLine ==
    /\ Receive("GARBLED")
    /\ ack' = "error"
    /\ UNCHANGED device

\* While the boot package runs, the live runtime is rebuilt from the active
\* package about every three seconds.
PeriodicReset ==
    /\ up
    /\ periodic
    /\ live' = active
    /\ UNCHANGED <<host, line, session, staged, active, periodic, up, ack, intact>>

\* Power cycle or reset: everything is in RAM, and the port disappears under
\* the uploader.
Restart ==
    /\ host' = NoUpload
    /\ line' = <<>>
    /\ session' = NoSession
    /\ staged' = NoStaged
    /\ active' = Boot
    /\ live' = Boot
    /\ periodic' = TRUE
    /\ up' = TRUE
    /\ ack' = "none"
    /\ UNCHANGED intact

-----------------------------------------------------------------------------
Init ==
    /\ host = NoUpload
    /\ line = <<>>
    /\ session = NoSession
    /\ staged = NoStaged
    /\ active = Boot
    /\ live = Boot
    /\ periodic = TRUE
    /\ up = TRUE
    /\ ack = "none"
    /\ intact = TRUE

Device ==
    \/ HandleHello
    \/ HandleFileBegin
    \/ HandleFileChunk
    \/ HandleFileCommit
    \/ HandleRunPackage
    \/ HandleKiboPkgLine
    \/ HandleGarbledLine
    \/ PeriodicReset
    \/ Restart

Next ==
    \/ \E f \in Files, size \in ChunkSizes, id \in FileIds :
          \E first \in {"hello", "line"} : StartUpload(f, size, id, first)
    \/ SendFrame
    \/ ReportOk
    \/ GiveUp
    \/ LoseFrame
    \/ GarbleLine
    \/ Device

Spec == Init /\ [][Next]_vars

-----------------------------------------------------------------------------
\* Properties

TypeOK ==
    /\ host \in Uploads \cup {NoUpload}
    /\ line \in Seq(Frame)
    /\ session \in Sessions
    /\ staged \in [has : BOOLEAN, bytes : Seq(Byte)]
    /\ active \in Seq(Byte)
    /\ live \in Seq(Byte)
    /\ periodic \in BOOLEAN
    /\ up \in BOOLEAN
    /\ ack \in {"none", "ok", "error"}
    /\ intact \in BOOLEAN

\* The chunks of a session never exceed the buffer FILE_BEGIN reserved, which
\* is within the firmware's limit, whichever uploads the accepted chunks are
\* from (main.cpp:565, main.cpp:662).
SessionFits ==
    session.open => /\ Len(session.received) <= session.total
                    /\ session.total <= DeviceLimit

\* What is staged, active or drawn is one package an uploader built, never
\* chunks of two uploads put together: an upload that dies leaves its session
\* open, and the next one, its FILE_BEGIN lost, goes on filling it.
OnlyWholePackages ==
    /\ staged.has => staged.bytes \in Files
    /\ active \in Files \cup {Boot}
    /\ live \in Files \cup {Boot}

\* No package becomes active, or is drawn, that failed the dry run
\* (main.cpp:460): not through the frames, the line or the periodic reset.
PassedDryRun == Commits(active) /\ Commits(live)

\* An upload of which no frame was lost does its work whatever earlier
\* uploads left behind on the device: once its frames are handled, a package
\* that fits and validates is active, drawn and acknowledged.
CleanUploadLands ==
    (/\ host.phase = "await"
     /\ line = <<>>
     /\ intact
     /\ Len(host.file) <= DeviceLimit
     /\ Verdict(host.file) = "runs")
        => active = host.file /\ live = host.file /\ ack = "ok"

\* A tool whose frames all arrived says "ok" of the package that runs, also
\* when FILE_BEGIN refused the package and an older one had been staged
\* (the comment at main.cpp:551).
IntactOkIsTrue == [][ReportOk /\ intact => active = host.file]_vars

\* The loader as its user sees it.
Loader == INSTANCE PackageStore WITH
            Sound <- {f \in Files : Commits(f)},
            staged <- IF staged.has THEN {staged.bytes} ELSE {}

\* Losing frames, restarting and interleaving uploads never make the board do
\* anything a loader of whole packages does not do.
ImplementsPackageStore == Loader!Spec

\* upload_pico_runtime_package_via_device_protocol_v1.py:199 prints "OK:
\* device protocol v1 upload succeeded." when it read status=ok: then the
\* package it uploaded should be the active one.  A lost FILE_BEGIN is enough
\* against it: a session left open by an upload given up may be completed by
\* the chunks of this one, and committed and run in its place.
OkIsTrue == [][ReportOk => active = host.file]_vars
=============================================================================
