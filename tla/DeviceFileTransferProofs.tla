---------------------- MODULE DeviceFileTransferProofs ----------------------
(***************************************************************************)
(* Proofs about the upload protocol, for any set of packages, any chunk    *)
(* sizes, any firmware limit and any number of uploads, lost frames and    *)
(* restarts.  The inductive invariant adds one fact to the properties of   *)
(* DeviceFileTransfer: an open session was announced for one package.  A   *)
(* second one, for uploads that lose nothing, follows the frames in flight. *)
(***************************************************************************)
EXTENDS DeviceFileTransfer, SequenceTheorems, TLAPS

SessionOfOneFile ==
    session.open => \E f \in Files : /\ session.total = Len(f)
                                     /\ session.crc = Crc(f)

IInv == TypeOK /\ SessionFits /\ SessionOfOneFile /\ OnlyWholePackages /\ PassedDryRun

-----------------------------------------------------------------------------
\* Operators

\* A piece of a package is a sequence no longer than the package.
LEMMA PieceOfPackage ==
    ASSUME NEW f \in Seq(Byte), NEW a \in Nat, NEW b \in 0..Len(f)
    PROVE  /\ SubSeq(f, a + 1, b) \in Seq(Byte)
           /\ \E n \in 0..Len(f) : SubSeq(f, a + 1, b) \in [1..n -> Byte]
<1>1. CASE b <= a
  <2>1. SubSeq(f, a + 1, b) = << >>
    BY <1>1
  <2>2. << >> \in [1..0 -> Byte]
    OBVIOUS
  <2> QED BY <2>1, <2>2
<1>2. CASE a < b
  <2>1. SubSeq(f, a + 1, b) \in [1..(b - a) -> Byte]
    <3>1. /\ a + 1 \in 1..Len(f) /\ b \in a + 1..Len(f)
          /\ b - (a + 1) + 1 = b - a
      BY <1>2, SMT
    <3>2. SubSeq(f, a + 1, b) \in [1..(b - (a + 1) + 1) -> Byte]
      <4>1. /\ Len(SubSeq(f, a + 1, b)) = b - (a + 1) + 1
            /\ SubSeq(f, a + 1, b) \in Seq(Byte)
        BY <3>1, SubSeqProperties
      <4> QED BY <4>1, LenProperties
    <3> QED BY <3>1, <3>2
  <2>2. b - a \in 0..Len(f)
    BY <1>2
  <2>3. SubSeq(f, a + 1, b) \in Seq(Byte)
    BY <1>2
  <2> QED BY <2>1, <2>2, <2>3
<1> QED BY <1>1, <1>2

\* The end of a chunk is within the package and not before its beginning.
LEMMA ChunkEndType ==
    ASSUME NEW h \in Uploads
    PROVE  ChunkEnd(h) \in 0..Len(h.file)
<1>1. h.file \in Seq(Byte) /\ h.offset \in Nat /\ h.size \in Nat
  BY FilesAssumption, SizesAssumption DEF Uploads
<1> QED BY <1>1 DEF ChunkEnd

\* What an uploader writes is a frame.
LEMMA NextFrameType ==
    ASSUME NEW h \in Uploads, h.phase # "await"
    PROVE  NextFrame(h) \in Frame
<1>1. /\ h.phase \in {"hello", "begin", "chunk", "commit", "run", "line"}
      /\ h.file \in Files /\ h.fileId \in FileIds
      /\ h.index \in Nat /\ h.offset \in Nat
      /\ h.file \in Seq(Byte)
  BY FilesAssumption DEF Uploads
<1>2. CASE h.phase = "hello"
  BY <1>1, <1>2 DEF NextFrame, Frame
<1>3. CASE h.phase = "begin"
  BY <1>1, <1>3 DEF NextFrame, Frame
<1>4. CASE h.phase = "chunk"
  <2> DEFINE bytes == SubSeq(h.file, h.offset + 1, ChunkEnd(h))
  <2>1. bytes \in Seq(Byte) /\ \E n \in 0..Len(h.file) : bytes \in [1..n -> Byte]
    BY <1>1, ChunkEndType, PieceOfPackage
  <2>2. Crc(bytes) \in Nat
    BY <2>1, <1>1, CrcAssumption
  <2>3. NextFrame(h) = [kind |-> "FILE_CHUNK", fileId |-> h.fileId, index |-> h.index,
                        offset |-> h.offset, crc |-> Crc(bytes), bytes |-> bytes]
    BY <1>4 DEF NextFrame
  <2> HIDE DEF bytes
  <2> QED BY <1>1, <2>1, <2>2, <2>3 DEF Frame
<1>5. CASE h.phase = "commit"
  BY <1>1, <1>5 DEF NextFrame, Frame
<1>6. CASE h.phase = "run"
  BY <1>1, <1>6 DEF NextFrame, Frame
<1>7. CASE h.phase = "line"
  BY <1>1, <1>7 DEF NextFrame, Frame, PackageBytes
<1> QED BY <1>1, <1>2, <1>3, <1>4, <1>5, <1>6, <1>7

\* An uploader that wrote a frame is still an uploader.
LEMMA AfterFrameType ==
    ASSUME NEW h \in Uploads, h.phase # "await"
    PROVE  AfterFrame(h) \in Uploads
<1>1. ChunkEnd(h) \in Nat /\ h.index + 1 \in Nat
  <2>1. ChunkEnd(h) \in 0..Len(h.file) /\ h.file \in Seq(Byte) /\ h.index \in Nat
    BY ChunkEndType, FilesAssumption DEF Uploads
  <2> QED BY <2>1
<1>2. h.phase \in {"hello", "begin", "chunk", "commit", "run", "line"}
  BY DEF Uploads
<1>3. MoreChunks(h) \in {"chunk", "commit"}
  BY DEF MoreChunks
<1>4. CASE h.phase = "chunk"
  <2> DEFINE next == [h EXCEPT !.index = @ + 1, !.offset = ChunkEnd(h)]
  <2>1. next \in Uploads
    BY <1>1 DEF Uploads
  <2>2. MoreChunks(next) \in {"chunk", "commit"}
    BY DEF MoreChunks
  <2>3. AfterFrame(h) = [next EXCEPT !.phase = MoreChunks(next)]
    BY <1>4 DEF AfterFrame
  <2> HIDE DEF next
  <2> QED BY <2>1, <2>2, <2>3 DEF Uploads
<1>5. CASE h.phase # "chunk"
  BY <1>2, <1>3, <1>5 DEF AfterFrame, Uploads
<1> QED BY <1>4, <1>5

\* What each kind of frame carries.
LEMMA FrameFields ==
    ASSUME NEW frame \in Frame
    PROVE  /\ frame.kind = "FILE_BEGIN" =>
                  \E id \in FileIds, f \in Files :
                      /\ frame.fileId = id
                      /\ frame.total = Len(f)
                      /\ frame.crc = Crc(f)
           /\ frame.kind = "FILE_CHUNK" => /\ frame.bytes \in Seq(Byte)
                                           /\ frame.offset \in Nat
           /\ frame.kind = "KIBO_PKG" => frame.bytes \in Files
BY DEF Frame

\* A closed session is a session.
LEMMA NoSessionType == NoSession \in Sessions
BY DEF NoSession, Sessions

\* So is one that received more.
LEMMA LongerSessionType ==
    ASSUME NEW s \in Sessions, NEW r \in Seq(Byte)
    PROVE  [s EXCEPT !.received = r, !.nextIndex = @ + 1] \in Sessions
<1>1. s.nextIndex + 1 \in Nat
  BY DEF Sessions
<1> DEFINE n == s.nextIndex + 1
<1> HIDE DEF n
<1>2. n \in Nat /\ [s EXCEPT !.received = r, !.nextIndex = n] \in Sessions
  BY <1>1 DEF Sessions, n
<1> QED BY <1>2 DEF n

\* The frame at the head of the line, and the line without it.
LEMMA HeadOfLine ==
    ASSUME TypeOK, line # << >>
    PROVE  Head(line) \in Frame /\ Tail(line) \in Seq(Frame)
BY DEF TypeOK

\* The checksum and the length tell whose bytes were received.
LEMMA CompleteFileIsAPackage ==
    ASSUME IInv, session.open, FileComplete
    PROVE  session.received \in Files
<1>1. session.received \in Seq(Byte)
  BY DEF IInv, TypeOK, Sessions
<1>2. PICK f \in Files : session.total = Len(f) /\ session.crc = Crc(f)
  BY DEF IInv, SessionOfOneFile
<1>3. Len(session.received) = Len(f) /\ Crc(session.received) = Crc(f)
  BY <1>2 DEF FileComplete
<1>4. session.received \in [1..Len(f) -> Byte]
  BY <1>1, <1>3, LenProperties
<1>5. session.received = f
  BY <1>2, <1>3, <1>4, CrcAssumption
<1> QED BY <1>2, <1>5

\* Committing a package keeps what is said of the active and the live one.
LEMMA CommitKeepsPrograms ==
    ASSUME IInv, NEW bytes \in Files, TryCommit(bytes)
    PROVE  /\ active' \in Files \cup {Boot} /\ live' \in Files \cup {Boot}
           /\ Commits(active') /\ Commits(live')
           /\ periodic' \in BOOLEAN
           /\ ack' \in {"none", "ok", "error"}
<1> USE DEF IInv, TryCommit
<1>1. active' \in Files \cup {Boot} /\ Commits(active')
  BY DEF OnlyWholePackages, PassedDryRun, ActiveAfter
<1>2. live' \in Files \cup {Boot} /\ Commits(live')
  BY DEF OnlyWholePackages, PassedDryRun, LiveAfter, Commits
<1>3. periodic' \in BOOLEAN
  BY DEF TypeOK
<1>4. ack' \in {"none", "ok", "error"}
  BY DEF TypeOK
<1> QED BY <1>1, <1>2, <1>3, <1>4

-----------------------------------------------------------------------------
\* The inductive invariant

\* The loader starts in the invariant.
LEMMA InvInit == Init => IInv
<1> SUFFICES ASSUME Init PROVE IInv
  OBVIOUS
<1>1. TypeOK
  BY FilesAssumption, NoSessionType DEF Init, TypeOK, NoStaged
<1>2. SessionFits /\ SessionOfOneFile
  BY DEF Init, SessionFits, SessionOfOneFile, NoSession
<1>3. OnlyWholePackages /\ PassedDryRun
  BY VerdictAssumption DEF Init, OnlyWholePackages, PassedDryRun, NoStaged, Commits
<1> QED BY <1>1, <1>2, <1>3 DEF IInv

\* Every step of the uploader, the line and the firmware keeps it.
LEMMA InvNext == IInv /\ [Next]_vars => IInv'
<1> SUFFICES ASSUME IInv, [Next]_vars PROVE IInv'
  OBVIOUS
<1> USE DEF IInv
<1>0. CASE UNCHANGED vars
  BY <1>0 DEF vars, TypeOK, SessionFits, SessionOfOneFile, OnlyWholePackages, PassedDryRun, Commits
<1>1. ASSUME UNCHANGED <<device>>, TypeOK' PROVE IInv'
  BY <1>1 DEF device, SessionFits, SessionOfOneFile, OnlyWholePackages, PassedDryRun, Commits
<1>2. ASSUME NEW f \in Files, NEW size \in ChunkSizes, NEW id \in FileIds,
             NEW first \in {"hello", "line"}, StartUpload(f, size, id, first)
      PROVE  IInv'
  <2>1. TypeOK'
    BY <1>2 DEF StartUpload, TypeOK, Uploads, device
  <2> QED BY <1>1, <1>2, <2>1 DEF StartUpload
<1>3. CASE SendFrame
  <2>1. host \in Uploads /\ host.phase # "await"
    BY <1>3 DEF SendFrame, TypeOK, NoUpload
  <2>2. NextFrame(host) \in Frame /\ AfterFrame(host) \in Uploads
    BY <2>1, NextFrameType, AfterFrameType
  <2>3. TypeOK'
    BY <1>3, <2>2 DEF SendFrame, TypeOK, device
  <2> QED BY <1>1, <1>3, <2>3 DEF SendFrame
<1>4. CASE ReportOk \/ GiveUp
  <2>1. TypeOK'
    BY <1>4 DEF ReportOk, GiveUp, TypeOK, device
  <2> QED BY <1>1, <1>4, <2>1 DEF ReportOk, GiveUp
<1>5. CASE LoseFrame
  <2>1. TypeOK'
    BY <1>5, HeadOfLine DEF LoseFrame, TypeOK, device
  <2> QED BY <1>1, <1>5, <2>1 DEF LoseFrame
<1>6. CASE GarbleLine
  <2>1. [kind |-> "GARBLED"] \in Frame
    BY DEF Frame
  <2>2. <<[kind |-> "GARBLED"]>> \o Tail(line) \in Seq(Frame)
    BY <1>6, <2>1, HeadOfLine DEF GarbleLine
  <2>3. TypeOK'
    BY <1>6, <2>2 DEF GarbleLine, TypeOK, device
  <2> QED BY <1>1, <1>6, <2>3 DEF GarbleLine
<1>7. CASE HandleHello
  <2>1. TypeOK'
    BY <1>7, HeadOfLine DEF HandleHello, Receive, TypeOK, device
  <2> QED BY <1>1, <1>7, <2>1 DEF HandleHello
<1>8. CASE HandleFileBegin
  <2> DEFINE frame == Head(line)
  <2>1. PICK id \in FileIds, f \in Files :
           frame.fileId = id /\ frame.total = Len(f) /\ frame.crc = Crc(f)
    BY <1>8, HeadOfLine, FrameFields DEF HandleFileBegin, Receive
  <2>2. id \in Nat /\ Len(f) \in Nat /\ Crc(f) \in Nat
    <3>1. f \in Seq(Byte) /\ Len(f) \in Nat
      BY FilesAssumption, LenProperties
    <3>2. f \in [1..Len(f) -> Byte] /\ Len(f) \in 0..Len(f)
      BY <3>1, LenProperties
    <3> QED BY <3>1, <3>2, SizesAssumption, CrcAssumption
  <2>3. session' = OpenSession(frame) /\ staged' = NoStaged
    BY <1>8 DEF HandleFileBegin, StagedAfterBegin
  <2>4. TypeOK'
    <3>1. session' \in Sessions
      BY <2>1, <2>2, <2>3, NoSessionType DEF OpenSession, Sessions
    <3>2. staged' \in [has : BOOLEAN, bytes : Seq(Byte)]
      BY <2>3 DEF NoStaged
    <3> QED BY <1>8, <3>1, <3>2, HeadOfLine DEF HandleFileBegin, Receive, TypeOK
  <2>5. SessionFits' /\ SessionOfOneFile'
    BY <2>1, <2>2, <2>3, SizesAssumption
       DEF OpenSession, NoSession, SessionFits, SessionOfOneFile
  <2>6. OnlyWholePackages' /\ PassedDryRun'
    BY <1>8, <2>3 DEF HandleFileBegin, OnlyWholePackages, PassedDryRun, NoStaged, Commits
  <2> QED BY <2>4, <2>5, <2>6
<1>9. CASE HandleFileChunk
  <2> DEFINE frame == Head(line)
  <2>1. frame.bytes \in Seq(Byte) /\ frame.offset \in Nat
    BY <1>9, HeadOfLine, FrameFields DEF HandleFileChunk, Receive
  <2>2. CASE ChunkAccepted(frame)
    <3>1. session' = AppendChunk(frame)
      BY <1>9, <2>2 DEF HandleFileChunk
    <3>2. /\ session.received \in Seq(Byte) /\ session.nextIndex \in Nat
          /\ session.received \o frame.bytes \in Seq(Byte)
          /\ Len(session.received \o frame.bytes) = Len(session.received) + Len(frame.bytes)
      BY <2>1 DEF TypeOK, Sessions
    <3>3. TypeOK'
      <4>1. session' \in Sessions
        BY <3>1, <3>2, LongerSessionType DEF AppendChunk, TypeOK
      <4> QED BY <1>9, <4>1, HeadOfLine DEF HandleFileChunk, Receive, TypeOK
    <3>4. /\ session'.open = session.open /\ session'.total = session.total
          /\ session'.crc = session.crc
          /\ session'.received = session.received \o frame.bytes
      BY <3>1 DEF AppendChunk, TypeOK, Sessions
    <3>5. SessionFits' /\ SessionOfOneFile'
      BY <2>2, <3>2, <3>4 DEF ChunkAccepted, SessionFits, SessionOfOneFile
    <3>6. OnlyWholePackages' /\ PassedDryRun'
      BY <1>9 DEF HandleFileChunk, OnlyWholePackages, PassedDryRun, Commits
    <3> QED BY <3>3, <3>5, <3>6
  <2>3. CASE ~ChunkAccepted(frame)
    <3>1. session' = session
      BY <1>9, <2>3 DEF HandleFileChunk
    <3>2. TypeOK'
      BY <1>9, <3>1, HeadOfLine DEF HandleFileChunk, Receive, TypeOK
    <3> QED BY <1>9, <3>1, <3>2 DEF HandleFileChunk, SessionFits, SessionOfOneFile,
                                   OnlyWholePackages, PassedDryRun, Commits
  <2> QED BY <2>2, <2>3
<1>10. CASE HandleFileCommit
  <2>1. \/ session' = session /\ staged' = staged
        \/ /\ session' = NoSession
           /\ \/ staged' = staged
              \/ staged' = [has |-> TRUE, bytes |-> session.received]
                 /\ session.received \in Files
    BY <1>10, CompleteFileIsAPackage DEF HandleFileCommit
  <2>2. TypeOK'
    <3>1. session' \in Sessions
      BY <2>1, NoSessionType DEF TypeOK
    <3>2. staged' \in [has : BOOLEAN, bytes : Seq(Byte)]
      <4>1. session.received \in Seq(Byte)
        BY DEF TypeOK, Sessions
      <4>2. [has |-> TRUE, bytes |-> session.received] \in
                [has : BOOLEAN, bytes : Seq(Byte)]
        BY <4>1
      <4> QED BY <2>1, <4>2 DEF TypeOK
    <3> QED BY <1>10, <3>1, <3>2, HeadOfLine DEF HandleFileCommit, Receive, TypeOK
  <2>3. SessionFits' /\ SessionOfOneFile'
    BY <2>1 DEF NoSession, SessionFits, SessionOfOneFile
  <2>4. OnlyWholePackages' /\ PassedDryRun'
    BY <1>10, <2>1 DEF HandleFileCommit, OnlyWholePackages, PassedDryRun, Commits
  <2> QED BY <2>2, <2>3, <2>4
<1>11. CASE HandleRunPackage
  <2>1. CASE staged.has
    <3>1. staged.bytes \in Files /\ TryCommit(staged.bytes)
      BY <1>11, <2>1 DEF HandleRunPackage, OnlyWholePackages
    <3>2. /\ active' \in Files \cup {Boot} /\ live' \in Files \cup {Boot}
          /\ Commits(active') /\ Commits(live')
          /\ periodic' \in BOOLEAN /\ ack' \in {"none", "ok", "error"}
      BY <3>1, CommitKeepsPrograms
    <3>3. session' = session \/ session' = NoSession
      BY <1>11, <2>1 DEF HandleRunPackage
    <3>4. TypeOK'
      <4>1. active' \in Seq(Byte) /\ live' \in Seq(Byte)
        BY <3>2, FilesAssumption
      <4>2. session' \in Sessions
        BY <3>3, NoSessionType DEF TypeOK
      <4> QED BY <1>11, <3>2, <4>1, <4>2, HeadOfLine DEF HandleRunPackage, Receive, TypeOK
    <3>5. SessionFits' /\ SessionOfOneFile'
      BY <3>3 DEF NoSession, SessionFits, SessionOfOneFile
    <3>6. OnlyWholePackages' /\ PassedDryRun'
      BY <1>11, <3>2 DEF HandleRunPackage, OnlyWholePackages, PassedDryRun, Commits
    <3> QED BY <3>4, <3>5, <3>6
  <2>2. CASE ~staged.has
    <3>1. TypeOK'
      BY <1>11, <2>2, HeadOfLine DEF HandleRunPackage, Receive, TypeOK
    <3> QED BY <1>1, <1>11, <2>2, <3>1 DEF HandleRunPackage, device
  <2> QED BY <2>1, <2>2
<1>12. CASE HandleKiboPkgLine
  <2> DEFINE bytes == Head(line).bytes
  <2>1. bytes \in Files
    BY <1>12, HeadOfLine, FrameFields DEF HandleKiboPkgLine, Receive
  <2>2. /\ active' \in Files \cup {Boot} /\ live' \in Files \cup {Boot}
        /\ Commits(active') /\ Commits(live')
        /\ periodic' \in BOOLEAN /\ ack' \in {"none", "ok", "error"}
        /\ up' \in BOOLEAN
    <3>1. CASE Len(bytes) > DeviceLimit
      BY <1>12, <3>1 DEF HandleKiboPkgLine, TypeOK, OnlyWholePackages, PassedDryRun, Commits
    <3>2. CASE ~(Len(bytes) > DeviceLimit)
      <4>1. TryCommit(bytes) /\ up' = ~Throws(bytes)
        BY <1>12, <3>2 DEF HandleKiboPkgLine
      <4> HIDE DEF bytes
      <4> QED BY <2>1, <4>1, CommitKeepsPrograms DEF Throws
    <3> QED BY <3>1, <3>2
  <2>3. TypeOK'
    <3>1. active' \in Seq(Byte) /\ live' \in Seq(Byte)
      BY <2>2, FilesAssumption
    <3> QED BY <1>12, <2>2, <3>1, HeadOfLine DEF HandleKiboPkgLine, Receive, TypeOK
  <2> QED BY <1>12, <2>2, <2>3 DEF HandleKiboPkgLine, SessionFits, SessionOfOneFile,
                                  OnlyWholePackages, PassedDryRun, Commits
<1>13. CASE HandleGarbledLine
  <2>1. TypeOK'
    BY <1>13, HeadOfLine DEF HandleGarbledLine, Receive, TypeOK, device
  <2> QED BY <1>1, <1>13, <2>1 DEF HandleGarbledLine
<1>14. CASE PeriodicReset
  BY <1>14 DEF PeriodicReset, TypeOK, SessionFits, SessionOfOneFile, OnlyWholePackages,
               PassedDryRun, Commits
<1>15. CASE Restart
  BY <1>15, NoSessionType, FilesAssumption, VerdictAssumption
     DEF Restart, TypeOK, SessionFits, SessionOfOneFile, OnlyWholePackages, PassedDryRun,
         Commits, NoSession, NoStaged
<1> QED BY <1>0, <1>2, <1>3, <1>4, <1>5, <1>6, <1>7, <1>8, <1>9, <1>10, <1>11, <1>12,
           <1>13, <1>14, <1>15 DEF Next, Device

-----------------------------------------------------------------------------
\* Theorems

\* The inductive invariant holds of every behaviour of the loader
\* (main.cpp:541-786 and the uploaders).
THEOREM TransferInvariant == Spec => []IInv
BY InvInit, InvNext, PTL DEF Spec

\* Every variable of the loader and of the uploader keeps its type; frames in
\* flight are frames some uploader builds.
THEOREM TransferTypes == Spec => []TypeOK
BY TransferInvariant, PTL DEF IInv

\* The receive buffer is never overrun (main.cpp:662).
THEOREM TransferFits == Spec => []SessionFits
BY TransferInvariant, PTL DEF IInv

\* Staging, the active package and the live runtime only ever hold a whole
\* package, whatever was lost (main.cpp:715-741).
THEOREM TransferIsWhole == Spec => []OnlyWholePackages
BY TransferInvariant, PTL DEF IInv

\* Only packages that passed the dry run are active or drawn (main.cpp:450-469).
THEOREM TransferIsValidated == Spec => []PassedDryRun
BY TransferInvariant, PTL DEF IInv

\* Every step of the loader is a step of a store of whole packages, or none.
LEMMA StepOfTheStore == IInv /\ [Next]_vars => [Loader!Next]_(Loader!vars)
<1> SUFFICES ASSUME IInv, [Next]_vars PROVE [Loader!Next]_(Loader!vars)
  OBVIOUS
<1> USE DEF IInv, Loader!vars
<1>1. ASSUME UNCHANGED <<staged, active>> PROVE [Loader!Next]_(Loader!vars)
  BY <1>1
<1>2. CASE UNCHANGED vars
  BY <1>1, <1>2 DEF vars
<1>3. CASE \/ \E f \in Files, size \in ChunkSizes, id \in FileIds :
                \E first \in {"hello", "line"} : StartUpload(f, size, id, first)
           \/ SendFrame \/ ReportOk \/ GiveUp \/ LoseFrame \/ GarbleLine
  BY <1>1, <1>3 DEF StartUpload, SendFrame, ReportOk, GiveUp, LoseFrame, GarbleLine, device
<1>4. CASE HandleHello \/ HandleFileChunk \/ HandleGarbledLine \/ PeriodicReset
  BY <1>1, <1>4 DEF HandleHello, HandleFileChunk, HandleGarbledLine, PeriodicReset, device
<1>5. CASE HandleFileBegin
  <2>1. ~staged'.has /\ active' = active
    BY <1>5 DEF HandleFileBegin, StagedAfterBegin, NoStaged
  <2> QED BY <2>1 DEF Loader!Next, Loader!Discard
<1>6. CASE HandleFileCommit
  <2>1. \/ staged' = staged
        \/ staged' = [has |-> TRUE, bytes |-> session.received]
           /\ session.received \in Files
    BY <1>6, CompleteFileIsAPackage DEF HandleFileCommit
  <2>2. active' = active
    BY <1>6 DEF HandleFileCommit
  <2>3. CASE staged' = staged
    BY <1>1, <2>2, <2>3
  <2>4. CASE staged' = [has |-> TRUE, bytes |-> session.received]
             /\ session.received \in Files
    BY <2>2, <2>4 DEF Loader!Next, Loader!Stage
  <2> QED BY <2>1, <2>3, <2>4
<1>7. CASE HandleRunPackage
  <2>1. staged' = staged
    BY <1>7 DEF HandleRunPackage
  <2>2. CASE staged.has /\ Commits(staged.bytes)
    <3>1. staged.bytes \in Files /\ active' = staged.bytes
      BY <1>7, <2>2 DEF HandleRunPackage, TryCommit, ActiveAfter, OnlyWholePackages
    <3> QED BY <2>1, <2>2, <3>1 DEF Loader!Next, Loader!RunStaged
  <2>3. CASE ~(staged.has /\ Commits(staged.bytes))
    <3>1. active' = active
      BY <1>7, <2>3 DEF HandleRunPackage, TryCommit, ActiveAfter
    <3> QED BY <1>1, <2>1, <3>1
  <2> QED BY <2>2, <2>3
<1>8. CASE HandleKiboPkgLine
  <2> DEFINE bytes == Head(line).bytes
  <2>1. bytes \in Files /\ staged' = staged
    BY <1>8, HeadOfLine, FrameFields DEF HandleKiboPkgLine, Receive
  <2>2. active' = active \/ (Commits(bytes) /\ active' = bytes)
    BY <1>8 DEF HandleKiboPkgLine, TryCommit, ActiveAfter
  <2>3. CASE active' = active
    BY <1>1, <2>1, <2>3
  <2>4. CASE Commits(bytes) /\ active' = bytes
    BY <2>1, <2>4 DEF Loader!Next, Loader!RunLine
  <2> QED BY <2>2, <2>3, <2>4
<1>9. CASE Restart
  <2>1. ~staged'.has /\ active' = Boot
    BY <1>9 DEF Restart, NoStaged
  <2> QED BY <2>1 DEF Loader!Next, Loader!Restart
<1> QED BY <1>2, <1>3, <1>4, <1>5, <1>6, <1>7, <1>8, <1>9 DEF Next, Device

\* The loader implements PackageStore: lost frames, uploads cut short and
\* restarts are invisible but for what they discard.
THEOREM TransferImplementsStore == Spec => ImplementsPackageStore
<1>1. Init => Loader!Init
  BY DEF Init, Loader!Init, NoStaged
<1> QED BY <1>1, TransferInvariant, StepOfTheStore, PTL
       DEF Spec, ImplementsPackageStore, Loader!Spec

-----------------------------------------------------------------------------
\* An upload of which no frame was lost

\* Where an uploader can be in its package.
Sound(d) ==
    /\ d.offset \in 0..Len(d.file)
    /\ d.phase \in {"hello", "begin"} => d.offset = 0 /\ d.index = 0
    /\ d.phase = "chunk" => d.offset < Len(d.file)
    /\ d.phase \in {"commit", "run"} => d.offset = Len(d.file)

Fits(d) == Len(d.file) <= DeviceLimit

\* What the device has made of the frames an uploader wrote before it was at d.
ReceivedSoFar(d) ==
    IF Fits(d)
    THEN /\ session.open
         /\ session.fileId = d.fileId
         /\ session.total = Len(d.file)
         /\ session.crc = Crc(d.file)
         /\ session.received = SubSeq(d.file, 1, d.offset)
         /\ session.nextIndex = d.index
    ELSE ~session.open

Answered(d) ==
    /\ ack = "ok" => active = d.file
    /\ Fits(d) /\ Verdict(d.file) = "runs" =>
          active = d.file /\ live = d.file /\ ack = "ok"

Handled(d) ==
    /\ d.phase # "await" => ack = "none"
    /\ d.phase \in {"chunk", "commit"} => ReceivedSoFar(d) /\ ~staged.has
    /\ d.phase = "run" => IF Fits(d) THEN staged.has /\ staged.bytes = d.file
                                     ELSE ~staged.has
    /\ d.phase = "await" => Answered(d)

\* The frames in flight are those the uploader wrote on its way from
\* trail[1], as far as the device is, to where it is now.
Wrote(trail) ==
    /\ trail \in Seq(Uploads)
    /\ Len(trail) = Len(line) + 1
    /\ trail[Len(trail)] = host
    /\ \A i \in 1..Len(line) : /\ line[i] = NextFrame(trail[i])
                               /\ trail[i + 1] = AfterFrame(trail[i])
                               /\ trail[i].phase # "await"

IntactInv ==
    host # NoUpload /\ intact =>
        \E trail \in Seq(Uploads) : Wrote(trail) /\ Sound(trail[1]) /\ Handled(trail[1])

\* The fields of an uploader.
LEMMA UploadFields ==
    ASSUME NEW d \in Uploads
    PROVE  /\ d.phase \in {"hello", "begin", "chunk", "commit", "run", "line", "await"}
           /\ d.file \in Files /\ d.file \in Seq(Byte) /\ Len(d.file) \in Nat
           /\ d.size \in Nat \ {0}
           /\ d.fileId \in FileIds /\ d.index \in Nat /\ d.offset \in Nat
BY FilesAssumption, SizesAssumption, LenProperties DEF Uploads

\* The kind of a frame tells where its uploader was.
LEMMA KindOfFrame ==
    ASSUME NEW d \in Uploads, d.phase # "await"
    PROVE  /\ NextFrame(d).kind = "HELLO"       <=> d.phase = "hello"
           /\ NextFrame(d).kind = "FILE_BEGIN"  <=> d.phase = "begin"
           /\ NextFrame(d).kind = "FILE_CHUNK"  <=> d.phase = "chunk"
           /\ NextFrame(d).kind = "FILE_COMMIT" <=> d.phase = "commit"
           /\ NextFrame(d).kind = "RUN_PACKAGE" <=> d.phase = "run"
           /\ NextFrame(d).kind = "KIBO_PKG"    <=> d.phase = "line"
           /\ NextFrame(d).kind # "GARBLED"
<1>1. d.phase \in {"hello", "begin", "chunk", "commit", "run", "line"}
  BY UploadFields
<1>2. CASE d.phase = "hello"
  BY <1>2 DEF NextFrame
<1>3. CASE d.phase = "begin"
  BY <1>3 DEF NextFrame
<1>4. CASE d.phase = "chunk"
  BY <1>4 DEF NextFrame
<1>5. CASE d.phase = "commit"
  BY <1>5 DEF NextFrame
<1>6. CASE d.phase = "run"
  BY <1>6 DEF NextFrame
<1>7. CASE d.phase = "line"
  BY <1>7 DEF NextFrame
<1> QED BY <1>1, <1>2, <1>3, <1>4, <1>5, <1>6, <1>7

\* What a frame says of its uploader.
LEMMA ContentsOfFrame ==
    ASSUME NEW d \in Uploads
    PROVE  /\ d.phase = "begin" => /\ NextFrame(d).fileId = d.fileId
                                   /\ NextFrame(d).total = Len(d.file)
                                   /\ NextFrame(d).crc = Crc(d.file)
           /\ d.phase = "chunk" =>
                LET bytes == SubSeq(d.file, d.offset + 1, ChunkEnd(d))
                IN  /\ NextFrame(d).fileId = d.fileId
                    /\ NextFrame(d).index = d.index
                    /\ NextFrame(d).offset = d.offset
                    /\ NextFrame(d).bytes = bytes
                    /\ NextFrame(d).crc = Crc(bytes)
           /\ d.phase = "commit" => NextFrame(d).fileId = d.fileId
           /\ d.phase = "line" => NextFrame(d).bytes = d.file
<1>1. ASSUME d.phase = "begin"
      PROVE  /\ NextFrame(d).fileId = d.fileId
             /\ NextFrame(d).total = Len(d.file)
             /\ NextFrame(d).crc = Crc(d.file)
  BY <1>1 DEF NextFrame
<1>2. ASSUME d.phase = "chunk", NEW bytes, bytes = SubSeq(d.file, d.offset + 1, ChunkEnd(d))
      PROVE  /\ NextFrame(d).fileId = d.fileId
             /\ NextFrame(d).index = d.index
             /\ NextFrame(d).offset = d.offset
             /\ NextFrame(d).bytes = bytes
             /\ NextFrame(d).crc = Crc(bytes)
  <2>1. NextFrame(d) = [kind |-> "FILE_CHUNK", fileId |-> d.fileId, index |-> d.index,
                        offset |-> d.offset, crc |-> Crc(bytes), bytes |-> bytes]
    BY <1>2 DEF NextFrame
  <2> QED BY <2>1
<1>3. ASSUME d.phase = "commit" PROVE NextFrame(d).fileId = d.fileId
  BY <1>3 DEF NextFrame
<1>4. ASSUME d.phase = "line" PROVE NextFrame(d).bytes = d.file
  BY <1>4 DEF NextFrame, PackageBytes
<1> QED BY <1>1, <1>2, <1>3, <1>4

\* Where an uploader is after a frame.
LEMMA FieldsAfterFrame ==
    ASSUME NEW d \in Uploads, d.phase # "await"
    PROVE  /\ AfterFrame(d).file = d.file
           /\ AfterFrame(d).size = d.size
           /\ AfterFrame(d).fileId = d.fileId
           /\ d.phase # "chunk" => /\ AfterFrame(d).index = d.index
                                   /\ AfterFrame(d).offset = d.offset
           /\ d.phase = "chunk" => /\ AfterFrame(d).index = d.index + 1
                                   /\ AfterFrame(d).offset = ChunkEnd(d)
           /\ d.phase = "hello" => AfterFrame(d).phase = "begin"
           /\ d.phase \in {"begin", "chunk"} =>
                 AfterFrame(d).phase = IF AfterFrame(d).offset < Len(d.file)
                                       THEN "chunk" ELSE "commit"
           /\ d.phase = "commit" => AfterFrame(d).phase = "run"
           /\ d.phase \in {"run", "line"} => AfterFrame(d).phase = "await"
<1>1. d.phase \in {"hello", "begin", "chunk", "commit", "run", "line"}
  BY UploadFields
<1>2. CASE d.phase = "chunk"
  <2> DEFINE next == [d EXCEPT !.index = @ + 1, !.offset = ChunkEnd(d)]
  <2>1. /\ next.file = d.file /\ next.size = d.size /\ next.fileId = d.fileId
        /\ next.index = d.index + 1 /\ next.offset = ChunkEnd(d)
    BY DEF Uploads
  <2>2. next \in Uploads
    <3>1. ChunkEnd(d) \in Nat /\ d.index + 1 \in Nat
      BY UploadFields, ChunkEndType
    <3> QED BY <3>1 DEF Uploads
  <2>3. AfterFrame(d) = [next EXCEPT !.phase = MoreChunks(next)]
    BY <1>2 DEF AfterFrame
  <2> HIDE DEF next
  <2>4. /\ AfterFrame(d).phase = MoreChunks(next)
        /\ AfterFrame(d).file = next.file /\ AfterFrame(d).size = next.size
        /\ AfterFrame(d).fileId = next.fileId
        /\ AfterFrame(d).index = next.index /\ AfterFrame(d).offset = next.offset
    BY <2>2, <2>3 DEF Uploads
  <2> QED BY <1>2, <2>1, <2>4 DEF MoreChunks
<1>3. CASE d.phase = "begin"
  <2>1. AfterFrame(d) = [d EXCEPT !.phase = MoreChunks(d)]
    BY <1>3 DEF AfterFrame
  <2> QED BY <1>3, <2>1 DEF Uploads, MoreChunks
<1>4. CASE d.phase \in {"hello", "commit", "run", "line"}
  BY <1>4 DEF AfterFrame, Uploads
<1> QED BY <1>1, <1>2, <1>3, <1>4

\* A chunk ends where the next one begins, or with the package.
LEMMA ChunkEndFollows ==
    ASSUME NEW d \in Uploads, d.offset < Len(d.file)
    PROVE  /\ ChunkEnd(d) \in Nat
           /\ d.offset < ChunkEnd(d) /\ ChunkEnd(d) <= Len(d.file)
<1>1. d.offset \in Nat /\ Len(d.file) \in Nat /\ d.size \in Nat \ {0}
  BY UploadFields
<1> QED BY <1>1 DEF ChunkEnd

\* An uploader walks through its package from the beginning to the end.
LEMMA SoundAfterFrame ==
    ASSUME NEW d \in Uploads, Sound(d), d.phase # "await"
    PROVE  Sound(AfterFrame(d))
<1>1. /\ d.phase \in {"hello", "begin", "chunk", "commit", "run", "line"}
      /\ Len(d.file) \in Nat /\ d.offset \in Nat
  BY UploadFields
<1>2. CASE d.phase = "chunk"
  <2>1. ChunkEnd(d) \in Nat /\ ChunkEnd(d) <= Len(d.file)
    BY <1>2, ChunkEndFollows DEF Sound
  <2> QED BY <1>1, <1>2, <2>1, FieldsAfterFrame DEF Sound
<1>3. CASE d.phase # "chunk"
  BY <1>1, <1>3, FieldsAfterFrame DEF Sound
<1> QED BY <1>2, <1>3

\* A beginning and the piece after it make a longer beginning.
LEMMA LongerBeginning ==
    ASSUME NEW f \in Seq(Byte), NEW a \in Nat, NEW b \in Nat, a < b, b <= Len(f)
    PROVE  /\ SubSeq(f, 1, a) \o SubSeq(f, a + 1, b) = SubSeq(f, 1, b)
           /\ Len(SubSeq(f, 1, a)) = a
           /\ Len(SubSeq(f, a + 1, b)) = b - a
<1> DEFINE x == SubSeq(f, 1, a)
           y == SubSeq(f, a + 1, b)
           z == SubSeq(f, 1, b)
<1>1. x \in Seq(Byte) /\ Len(x) = a /\ \A i \in 1..a : x[i] = f[i]
  OBVIOUS
<1>2. y \in Seq(Byte) /\ Len(y) = b - a /\ \A i \in 1..(b - a) : y[i] = f[a + i]
  OBVIOUS
<1>3. z \in Seq(Byte) /\ Len(z) = b /\ \A i \in 1..b : z[i] = f[i]
  OBVIOUS
<1> HIDE DEF x, y, z
<1>4. x \o y \in Seq(Byte) /\ Len(x \o y) = b
  BY <1>1, <1>2
<1>5. ASSUME NEW i \in 1..b PROVE (x \o y)[i] = z[i]
  <2>1. CASE i <= a
    <3>1. i \in 1..a /\ i \in 1..Len(x)
      BY <1>1, <2>1
    <3>2. (x \o y)[i] = x[i]
      BY <1>1, <1>2, <3>1
    <3> QED BY <1>1, <1>3, <3>1, <3>2
  <2>2. CASE a < i
    <3>1. i - a \in 1..(b - a) /\ a + (i - a) = i
      BY <2>2
    <3>2. (x \o y)[i] = y[i - a]
      BY <1>1, <1>2, <2>2
    <3>3. y[i - a] = f[a + (i - a)]
      BY <1>2, <3>1
    <3> QED BY <1>3, <3>1, <3>2, <3>3
  <2>3. i <= a \/ a < i
    OBVIOUS
  <2> QED BY <2>1, <2>2, <2>3
<1>6. x \o y = z
  BY <1>3, <1>4, <1>5
<1> QED BY <1>1, <1>2, <1>6 DEF x, y, z

\* The beginning as long as the package is the package.
LEMMA WholeBeginning ==
    ASSUME NEW f \in Seq(Byte)
    PROVE  SubSeq(f, 1, Len(f)) = f /\ SubSeq(f, 1, 0) = << >>
OBVIOUS

\* The uploader whose frame is next on the line.
LEMMA HeadOfTrail ==
    ASSUME TypeOK, NEW trail \in Seq(Uploads), Wrote(trail), line # << >>
    PROVE  /\ trail[1] \in Uploads /\ trail[1].phase # "await"
           /\ Head(line) = NextFrame(trail[1])
           /\ trail[2] = AfterFrame(trail[1])
           /\ Tail(trail) \in Seq(Uploads) /\ Tail(trail)[1] = trail[2]
<1>1. Len(line) \in Nat /\ Len(line) >= 1 /\ Head(line) = line[1]
  BY DEF TypeOK
<1>2. 1 \in 1..Len(line) /\ 1 \in 1..Len(trail) /\ Len(trail) >= 2
  BY <1>1 DEF Wrote
<1>3. trail[1] \in Uploads
  BY <1>2
<1>4. trail[1].phase # "await" /\ line[1] = NextFrame(trail[1]) /\ trail[1 + 1] = AfterFrame(trail[1])
  BY <1>2 DEF Wrote
<1>5. Tail(trail) \in Seq(Uploads) /\ Tail(trail)[1] = trail[2] /\ 1 + 1 = 2
  BY <1>2
<1>6. trail[2] = AfterFrame(trail[1])
  BY <1>4, <1>5
<1> QED BY <1>1, <1>3, <1>4, <1>5, <1>6

\* A frame handled, the uploader is one frame less ahead of the device.
LEMMA ShorterTrail ==
    ASSUME TypeOK, NEW trail \in Seq(Uploads), Wrote(trail), line # << >>,
           line' = Tail(line), host' = host
    PROVE  Wrote(Tail(trail))'
<1>1. /\ Len(line) \in Nat /\ Len(line) >= 1 /\ Len(trail) = Len(line) + 1
      /\ Len(Tail(line)) = Len(line) - 1
      /\ \A i \in 1..(Len(line) - 1) : Tail(line)[i] = line[i + 1]
  BY DEF TypeOK, Wrote
<1>2. /\ Tail(trail) \in Seq(Uploads) /\ Len(Tail(trail)) = Len(line)
      /\ \A i \in 1..Len(line) : Tail(trail)[i] = trail[i + 1]
  BY <1>1
<1>3. Tail(trail)[Len(line)] = host
  <2>1. Len(line) \in 1..Len(line)
    BY <1>1
  <2>2. Tail(trail)[Len(line)] = trail[Len(line) + 1]
    BY <1>2, <2>1
  <2> QED BY <1>1, <2>2 DEF Wrote
<1>4. ASSUME NEW i \in 1..Len(Tail(line))
      PROVE  /\ Tail(line)[i] = NextFrame(Tail(trail)[i])
             /\ Tail(trail)[i + 1] = AfterFrame(Tail(trail)[i])
             /\ Tail(trail)[i].phase # "await"
  <2>1. /\ i \in 1..(Len(line) - 1) /\ i \in 1..Len(line) /\ i + 1 \in 1..Len(line)
    BY <1>1
  <2>2. /\ Tail(line)[i] = line[i + 1]
        /\ Tail(trail)[i] = trail[i + 1]
        /\ Tail(trail)[i + 1] = trail[(i + 1) + 1]
    BY <1>1, <1>2, <2>1
  <2>3. /\ line[i + 1] = NextFrame(trail[i + 1])
        /\ trail[(i + 1) + 1] = AfterFrame(trail[i + 1])
        /\ trail[i + 1].phase # "await"
    BY <2>1 DEF Wrote
  <2> QED BY <2>2, <2>3
<1> QED BY <1>1, <1>2, <1>3, <1>4 DEF Wrote

\* A frame written, it is one more.
LEMMA LongerTrail ==
    ASSUME TypeOK, NEW trail \in Seq(Uploads), Wrote(trail), SendFrame,
           NEW next \in Uploads, next = AfterFrame(host)
    PROVE  /\ Append(trail, next) \in Seq(Uploads)
           /\ Append(trail, next)[1] = trail[1]
           /\ Wrote(Append(trail, next))'
<1> DEFINE n == Len(line)
           frame == NextFrame(host)
<1>1. host \in Uploads /\ host.phase # "await"
  BY DEF SendFrame, TypeOK, NoUpload
<1>2. frame \in Frame
  BY <1>1, NextFrameType
<1>3. line' = Append(line, frame) /\ host' = next
  BY DEF SendFrame
<1>4. n \in Nat /\ Len(trail) = n + 1 /\ trail[n + 1] = host
  BY DEF TypeOK, Wrote
<1> HIDE DEF frame
<1>5. /\ Append(line, frame) \in Seq(Frame) /\ Len(Append(line, frame)) = n + 1
      /\ Append(line, frame)[n + 1] = frame
      /\ \A i \in 1..n : Append(line, frame)[i] = line[i]
  BY <1>2 DEF TypeOK
<1>6. /\ Append(trail, next) \in Seq(Uploads) /\ Len(Append(trail, next)) = (n + 1) + 1
      /\ Append(trail, next)[(n + 1) + 1] = next
      /\ \A i \in 1..(n + 1) : Append(trail, next)[i] = trail[i]
  BY <1>2, <1>4
<1> HIDE DEF n
<1>7. ASSUME NEW i \in 1..(n + 1)
      PROVE  /\ Append(line, frame)[i] = NextFrame(Append(trail, next)[i])
             /\ Append(trail, next)[i + 1] = AfterFrame(Append(trail, next)[i])
             /\ Append(trail, next)[i].phase # "await"
  <2>1. CASE i = n + 1
    BY <1>1, <1>4, <1>5, <1>6, <2>1 DEF frame
  <2>2. CASE i # n + 1
    <3>1. i \in 1..n /\ i + 1 \in 1..(n + 1)
      BY <1>4, <2>2
    <3>2. /\ line[i] = NextFrame(trail[i]) /\ trail[i + 1] = AfterFrame(trail[i])
          /\ trail[i].phase # "await"
      BY <3>1 DEF Wrote, n
    <3> QED BY <1>5, <1>6, <3>1, <3>2
  <2> QED BY <2>1, <2>2
<1>8. Append(trail, next)[1] = trail[1]
  BY <1>4, <1>6
<1>9. Wrote(Append(trail, next))'
  <2>1. Len(line') = n + 1 /\ Len(Append(trail, next)) = Len(line') + 1
    BY <1>3, <1>5, <1>6
  <2>2. Append(trail, next)[Len(Append(trail, next))] = host'
    BY <1>3, <1>6
  <2>3. \A i \in 1..Len(line') : /\ line'[i] = NextFrame(Append(trail, next)[i])
                                 /\ Append(trail, next)[i + 1] = AfterFrame(Append(trail, next)[i])
                                 /\ Append(trail, next)[i].phase # "await"
    BY <1>3, <1>7, <2>1
  <2> QED BY <1>6, <2>1, <2>2, <2>3 DEF Wrote
<1> QED BY <1>6, <1>8, <1>9

\* What is left to show of a handler: that it does the work of its frame.
LEMMA HandlerKeepsTrail ==
    ASSUME TypeOK, IntactInv, host # NoUpload, intact, NEW kind, Receive(kind)
    PROVE  \E d \in Uploads : /\ d.phase # "await"
                              /\ Head(line) = NextFrame(d)
                              /\ Sound(d) /\ Handled(d)
                              /\ Handled(AfterFrame(d))' => IntactInv'
<1>1. line # << >> /\ line' = Tail(line) /\ host' = host /\ intact' = intact
  BY DEF Receive
<1>2. PICK trail \in Seq(Uploads) : Wrote(trail) /\ Sound(trail[1]) /\ Handled(trail[1])
  BY DEF IntactInv
<1>3. /\ trail[1] \in Uploads /\ trail[1].phase # "await"
      /\ Head(line) = NextFrame(trail[1])
      /\ Tail(trail) \in Seq(Uploads) /\ Tail(trail)[1] = AfterFrame(trail[1])
  BY <1>1, <1>2, HeadOfTrail
<1>4. Wrote(Tail(trail))'
  BY <1>1, <1>2, ShorterTrail
<1>5. Sound(AfterFrame(trail[1]))
  BY <1>2, <1>3, SoundAfterFrame
<1>6. ASSUME Handled(AfterFrame(trail[1]))' PROVE IntactInv'
  <2>1. Handled(Tail(trail)[1])'
    BY <1>3, <1>6
  <2>2. Sound(Tail(trail)[1])
    BY <1>3, <1>5
  <2> QED BY <1>3, <1>4, <2>1, <2>2 DEF IntactInv
<1> QED BY <1>2, <1>3, <1>6

\* HELLO changes nothing.
LEMMA HelloKeeps == ASSUME IInv, IntactInv, host # NoUpload, intact, HandleHello
                    PROVE  IntactInv'
<1>1. TypeOK /\ Receive("HELLO") /\ session' = session /\ staged' = staged
      /\ active' = active /\ live' = live /\ ack' = ack
  BY DEF HandleHello, device, IInv
<1>2. PICK d \in Uploads : /\ d.phase # "await" /\ Head(line) = NextFrame(d)
                           /\ Sound(d) /\ Handled(d)
                           /\ Handled(AfterFrame(d))' => IntactInv'
  BY <1>1, HandlerKeepsTrail
<1>3. d.phase = "hello"
  BY <1>1, <1>2, KindOfFrame DEF Receive
<1>4. AfterFrame(d).phase = "begin"
  BY <1>2, <1>3, FieldsAfterFrame
<1>5. Handled(AfterFrame(d))'
  BY <1>1, <1>2, <1>3, <1>4 DEF Handled
<1> QED BY <1>2, <1>5

\* FILE_BEGIN makes the device ready for this package and no other.
LEMMA BeginKeeps == ASSUME IInv, IntactInv, host # NoUpload, intact, HandleFileBegin
                    PROVE  IntactInv'
<1>1. /\ TypeOK /\ Receive("FILE_BEGIN") /\ ack' = ack
      /\ session' = OpenSession(Head(line)) /\ staged' = NoStaged
  BY DEF HandleFileBegin, StagedAfterBegin, IInv
<1>2. PICK d \in Uploads : /\ d.phase # "await" /\ Head(line) = NextFrame(d)
                           /\ Sound(d) /\ Handled(d)
                           /\ Handled(AfterFrame(d))' => IntactInv'
  BY <1>1, HandlerKeepsTrail
<1>3. d.phase = "begin"
  BY <1>1, <1>2, KindOfFrame DEF Receive
<1>4. PICK e \in Uploads : e = AfterFrame(d)
  BY <1>2, AfterFrameType
<1>5. /\ e.phase \in {"chunk", "commit"}
      /\ e.file = d.file /\ e.fileId = d.fileId
      /\ e.index = 0 /\ e.offset = 0
  BY <1>2, <1>3, <1>4, FieldsAfterFrame DEF Sound
<1>6. /\ Head(line).fileId = d.fileId /\ Head(line).total = Len(d.file)
      /\ Head(line).crc = Crc(d.file)
  BY <1>2, <1>3, ContentsOfFrame
<1>7. ReceivedSoFar(e)'
  <2>1. CASE Fits(d)
    <3>1. session' = [open |-> TRUE, fileId |-> d.fileId, total |-> Len(d.file),
                      crc |-> Crc(d.file), received |-> << >>, nextIndex |-> 0]
      <4>1. ~(Len(d.file) > DeviceLimit)
        BY <2>1, UploadFields, SizesAssumption DEF Fits
      <4> QED BY <1>1, <1>6, <4>1 DEF OpenSession
    <3>2. SubSeq(e.file, 1, 0) = << >>
      BY <1>5, UploadFields, WholeBeginning
    <3> QED BY <1>5, <2>1, <3>1, <3>2 DEF ReceivedSoFar, Fits
  <2>2. CASE ~Fits(d)
    <3>1. Len(d.file) > DeviceLimit
      BY <2>2, UploadFields, SizesAssumption DEF Fits
    <3>2. session' = NoSession
      BY <1>1, <1>6, <3>1 DEF OpenSession
    <3> QED BY <1>5, <2>2, <3>2 DEF ReceivedSoFar, Fits, NoSession
  <2> QED BY <2>1, <2>2
<1>8. Handled(e)'
  BY <1>1, <1>2, <1>5, <1>7 DEF Handled, NoStaged
<1> QED BY <1>2, <1>4, <1>8

\* A chunk of an open session is the one the device expects.
LEMMA ExpectedChunk ==
    ASSUME NEW d \in Uploads, d.phase = "chunk", Sound(d), Fits(d), ReceivedSoFar(d)
    PROVE  /\ ChunkAccepted(NextFrame(d))
           /\ session.received \o NextFrame(d).bytes = SubSeq(d.file, 1, ChunkEnd(d))
<1>1. /\ d.file \in Seq(Byte) /\ d.offset \in Nat /\ Len(d.file) \in Nat
      /\ d.offset < Len(d.file)
  BY UploadFields DEF Sound
<1>2. PICK end \in Nat : end = ChunkEnd(d) /\ d.offset < end /\ end <= Len(d.file)
  BY <1>1, ChunkEndFollows
<1>3. PICK bytes : bytes = SubSeq(d.file, d.offset + 1, end)
  OBVIOUS
<1>4. /\ SubSeq(d.file, 1, d.offset) \o bytes = SubSeq(d.file, 1, end)
      /\ Len(SubSeq(d.file, 1, d.offset)) = d.offset
      /\ Len(bytes) = end - d.offset
  BY <1>1, <1>2, <1>3, LongerBeginning
<1>5. /\ NextFrame(d).fileId = d.fileId /\ NextFrame(d).index = d.index
      /\ NextFrame(d).offset = d.offset /\ NextFrame(d).bytes = bytes
      /\ NextFrame(d).crc = Crc(bytes)
  BY <1>2, <1>3, ContentsOfFrame
<1>6. /\ session.open /\ session.fileId = d.fileId /\ session.total = Len(d.file)
      /\ session.received = SubSeq(d.file, 1, d.offset) /\ session.nextIndex = d.index
  BY DEF ReceivedSoFar
<1>7. d.offset + Len(bytes) <= Len(d.file)
  BY <1>1, <1>2, <1>4
<1>8. ChunkAccepted(NextFrame(d))
  BY <1>4, <1>5, <1>6, <1>7 DEF ChunkAccepted
<1> QED BY <1>2, <1>4, <1>5, <1>6, <1>8

\* FILE_CHUNK carries on where the device is.
LEMMA ChunkKeeps == ASSUME IInv, IntactInv, host # NoUpload, intact, HandleFileChunk
                    PROVE  IntactInv'
<1>1. /\ TypeOK /\ Receive("FILE_CHUNK") /\ ack' = ack /\ staged' = staged
      /\ session' = IF ChunkAccepted(Head(line)) THEN AppendChunk(Head(line)) ELSE session
  BY DEF HandleFileChunk, IInv
<1>2. PICK d \in Uploads : /\ d.phase # "await" /\ Head(line) = NextFrame(d)
                           /\ Sound(d) /\ Handled(d)
                           /\ Handled(AfterFrame(d))' => IntactInv'
  BY <1>1, HandlerKeepsTrail
<1>3. d.phase = "chunk"
  BY <1>1, <1>2, KindOfFrame DEF Receive
<1>4. PICK e \in Uploads : e = AfterFrame(d)
  BY <1>2, AfterFrameType
<1>5. /\ e.phase \in {"chunk", "commit"}
      /\ e.file = d.file /\ e.fileId = d.fileId
      /\ e.index = d.index + 1 /\ e.offset = ChunkEnd(d)
  BY <1>2, <1>3, <1>4, FieldsAfterFrame
<1>6. ReceivedSoFar(d) /\ ~staged.has
  BY <1>2, <1>3 DEF Handled
<1>7. ReceivedSoFar(e)'
  <2>1. CASE Fits(d)
    <3>1. /\ ChunkAccepted(Head(line))
          /\ session.received \o Head(line).bytes = SubSeq(d.file, 1, ChunkEnd(d))
      BY <1>2, <1>3, <1>6, <2>1, ExpectedChunk
    <3>2. session' = [session EXCEPT !.received = @ \o Head(line).bytes, !.nextIndex = @ + 1]
      BY <1>1, <3>1 DEF AppendChunk
    <3>3. /\ session'.open = session.open /\ session'.fileId = session.fileId
          /\ session'.total = session.total /\ session'.crc = session.crc
          /\ session'.received = session.received \o Head(line).bytes
          /\ session'.nextIndex = session.nextIndex + 1
      BY <1>1, <3>2 DEF TypeOK, Sessions
    <3>4. /\ session.open /\ session.fileId = d.fileId /\ session.total = Len(d.file)
          /\ session.crc = Crc(d.file) /\ session.nextIndex = d.index
      BY <1>6, <2>1 DEF ReceivedSoFar
    <3>5. Fits(e)
      BY <1>5, <2>1 DEF Fits
    <3> QED BY <1>5, <3>1, <3>3, <3>4, <3>5 DEF ReceivedSoFar, Fits
  <2>2. CASE ~Fits(d)
    <3>1. ~session.open
      BY <1>6, <2>2 DEF ReceivedSoFar
    <3>2. session' = session
      BY <1>1, <3>1 DEF ChunkAccepted
    <3> QED BY <1>5, <2>2, <3>1, <3>2 DEF ReceivedSoFar, Fits
  <2> QED BY <2>1, <2>2
<1>8. Handled(e)'
  BY <1>1, <1>2, <1>5, <1>6, <1>7 DEF Handled
<1> QED BY <1>2, <1>4, <1>8

\* FILE_COMMIT finds the whole package.
LEMMA CommitKeeps == ASSUME IInv, IntactInv, host # NoUpload, intact, HandleFileCommit
                     PROVE  IntactInv'
<1>1. /\ TypeOK /\ Receive("FILE_COMMIT") /\ ack' = ack
      /\ IF session.open /\ Head(line).fileId = session.fileId
         THEN /\ session' = NoSession
              /\ staged' = IF FileComplete
                           THEN [has |-> TRUE, bytes |-> session.received]
                           ELSE staged
         ELSE session' = session /\ staged' = staged
  BY DEF HandleFileCommit, IInv
<1>2. PICK d \in Uploads : /\ d.phase # "await" /\ Head(line) = NextFrame(d)
                           /\ Sound(d) /\ Handled(d)
                           /\ Handled(AfterFrame(d))' => IntactInv'
  BY <1>1, HandlerKeepsTrail
<1>3. d.phase = "commit"
  BY <1>1, <1>2, KindOfFrame DEF Receive
<1>4. PICK e \in Uploads : e = AfterFrame(d)
  BY <1>2, AfterFrameType
<1>5. e.phase = "run" /\ e.file = d.file
  BY <1>2, <1>3, <1>4, FieldsAfterFrame
<1>6. ReceivedSoFar(d) /\ ~staged.has /\ d.offset = Len(d.file)
  BY <1>2, <1>3 DEF Handled, Sound
<1>7. IF Fits(e) THEN staged'.has /\ staged'.bytes = e.file ELSE ~staged'.has
  <2>1. CASE Fits(d)
    <3>1. session.received = d.file
      BY <1>6, <2>1, UploadFields, WholeBeginning DEF ReceivedSoFar
    <3>2. session.open /\ Head(line).fileId = session.fileId /\ FileComplete
      BY <1>2, <1>3, <1>6, <2>1, <3>1, ContentsOfFrame DEF ReceivedSoFar, FileComplete
    <3>3. staged' = [has |-> TRUE, bytes |-> session.received]
      BY <1>1, <3>2
    <3> QED BY <1>5, <2>1, <3>1, <3>3 DEF Fits
  <2>2. CASE ~Fits(d)
    <3>1. staged' = staged
      BY <1>1, <1>6, <2>2 DEF ReceivedSoFar
    <3> QED BY <1>5, <1>6, <2>2, <3>1 DEF Fits
  <2> QED BY <2>1, <2>2
<1>8. Handled(e)'
  BY <1>1, <1>2, <1>5, <1>7 DEF Handled, Fits
<1> QED BY <1>2, <1>4, <1>8

\* A package that is tried is answered for.
LEMMA TriedIsAnswered ==
    ASSUME NEW d \in Uploads, ack = "none", TryCommit(d.file)
    PROVE  Answered(d)'
<1>1. /\ active' = ActiveAfter(d.file) /\ live' = LiveAfter(d.file)
      /\ ack' = CASE Verdict(d.file) = "runs" -> "ok"
                  [] Verdict(d.file) = "rejected" -> "error"
                  [] OTHER -> ack
  BY DEF TryCommit
<1>2. CASE Verdict(d.file) = "runs"
  BY <1>1, <1>2 DEF Answered, ActiveAfter, LiveAfter, Commits
<1>3. CASE Verdict(d.file) # "runs"
  <2>1. ack' # "ok"
    BY <1>1, <1>3
  <2> QED BY <1>3, <2>1 DEF Answered
<1> QED BY <1>2, <1>3

\* RUN_PACKAGE runs what was staged, which is this package or nothing.
LEMMA RunKeeps == ASSUME IInv, IntactInv, host # NoUpload, intact, HandleRunPackage
                  PROVE  IntactInv'
<1>1. /\ TypeOK /\ Receive("RUN_PACKAGE")
      /\ staged.has => TryCommit(staged.bytes)
      /\ ~staged.has => active' = active /\ live' = live /\ ack' = ack
  BY DEF HandleRunPackage, IInv
<1>2. PICK d \in Uploads : /\ d.phase # "await" /\ Head(line) = NextFrame(d)
                           /\ Sound(d) /\ Handled(d)
                           /\ Handled(AfterFrame(d))' => IntactInv'
  BY <1>1, HandlerKeepsTrail
<1>3. d.phase = "run"
  BY <1>1, <1>2, KindOfFrame DEF Receive
<1>4. PICK e \in Uploads : e = AfterFrame(d)
  BY <1>2, AfterFrameType
<1>5. e.phase = "await" /\ e.file = d.file
  BY <1>2, <1>3, <1>4, FieldsAfterFrame
<1>6. /\ ack = "none"
      /\ IF Fits(d) THEN staged.has /\ staged.bytes = d.file ELSE ~staged.has
  BY <1>2, <1>3 DEF Handled
<1>7. Answered(d)'
  <2>1. CASE Fits(d)
    BY <1>1, <1>6, <2>1, TriedIsAnswered
  <2>2. CASE ~Fits(d)
    BY <1>1, <1>6, <2>2 DEF Answered, Fits
  <2> QED BY <2>1, <2>2
<1>8. Answered(e)'
  BY <1>5, <1>7 DEF Answered, Fits
<1>9. Handled(e)'
  BY <1>5, <1>8 DEF Handled
<1> QED BY <1>2, <1>4, <1>9

\* So does the KIBO_PKG line with the package it carries.
LEMMA LineKeeps == ASSUME IInv, IntactInv, host # NoUpload, intact, HandleKiboPkgLine
                   PROVE  IntactInv'
<1>1. /\ TypeOK /\ Receive("KIBO_PKG")
      /\ IF Len(Head(line).bytes) > DeviceLimit
         THEN ack' \in {"error", ack} /\ active' = active
         ELSE TryCommit(Head(line).bytes)
  BY DEF HandleKiboPkgLine, IInv
<1>2. PICK d \in Uploads : /\ d.phase # "await" /\ Head(line) = NextFrame(d)
                           /\ Sound(d) /\ Handled(d)
                           /\ Handled(AfterFrame(d))' => IntactInv'
  BY <1>1, HandlerKeepsTrail
<1>3. d.phase = "line"
  BY <1>1, <1>2, KindOfFrame DEF Receive
<1>4. PICK e \in Uploads : e = AfterFrame(d)
  BY <1>2, AfterFrameType
<1>5. e.phase = "await" /\ e.file = d.file
  BY <1>2, <1>3, <1>4, FieldsAfterFrame
<1>6. ack = "none" /\ Head(line).bytes = d.file
  BY <1>2, <1>3, ContentsOfFrame DEF Handled
<1>7. Answered(d)'
  <2>1. CASE Len(d.file) > DeviceLimit
    <3>1. ~Fits(d)
      BY <2>1, UploadFields, SizesAssumption DEF Fits
    <3>2. ack' # "ok"
      BY <1>1, <1>6, <2>1
    <3> QED BY <3>1, <3>2 DEF Answered, Fits
  <2>2. CASE ~(Len(d.file) > DeviceLimit)
    BY <1>1, <1>6, <2>2, TriedIsAnswered
  <2> QED BY <2>1, <2>2
<1>8. Answered(e)'
  BY <1>5, <1>7 DEF Answered, Fits
<1>9. Handled(e)'
  BY <1>5, <1>8 DEF Handled
<1> QED BY <1>2, <1>4, <1>9

\* No frame of an upload without losses is garbled.
LEMMA NothingGarbled == ASSUME IInv, IntactInv, host # NoUpload, intact
                        PROVE  ~HandleGarbledLine
<1> SUFFICES ASSUME HandleGarbledLine PROVE FALSE
  OBVIOUS
<1>1. TypeOK /\ Receive("GARBLED")
  BY DEF HandleGarbledLine, IInv
<1>2. PICK d \in Uploads : d.phase # "await" /\ Head(line) = NextFrame(d)
  BY <1>1, HandlerKeepsTrail
<1> QED BY <1>1, <1>2, KindOfFrame DEF Receive

\* The frames written and what the device made of the others: every step keeps them.
LEMMA IntactNext == IInv /\ IntactInv /\ [Next]_vars => IntactInv'
<1> SUFFICES ASSUME IInv, IntactInv, [Next]_vars PROVE IntactInv'
  OBVIOUS
<1>1. TypeOK
  BY DEF IInv
<1>2. CASE host' = NoUpload \/ ~intact'
  BY <1>2 DEF IntactInv
<1>3. ASSUME UNCHANGED <<host, line, session, staged, active, ack, intact>>,
             live' \in {live, active}
      PROVE  IntactInv'
  <2>1. CASE host = NoUpload \/ ~intact
    BY <1>3, <2>1 DEF IntactInv
  <2>2. CASE host # NoUpload /\ intact
    <3>1. PICK trail \in Seq(Uploads) : Wrote(trail) /\ Sound(trail[1]) /\ Handled(trail[1])
      BY <2>2 DEF IntactInv
    <3>2. Wrote(trail)'
      BY <1>3, <3>1 DEF Wrote
    <3>3. PICK d : d = trail[1]
      OBVIOUS
    <3>4. Handled(d)'
      BY <1>3, <3>1, <3>3 DEF Handled, ReceivedSoFar, Answered, Fits
    <3> QED BY <3>1, <3>2, <3>3, <3>4 DEF IntactInv
  <2> QED BY <2>1, <2>2
<1>4. ASSUME NEW f \in Files, NEW size \in ChunkSizes, NEW id \in FileIds,
             NEW first \in {"hello", "line"}, StartUpload(f, size, id, first)
      PROVE  IntactInv'
  <2>1. PICK h : h = [phase |-> first, file |-> f, size |-> size, fileId |-> id,
                      index |-> 0, offset |-> 0]
    OBVIOUS
  <2>2. h \in Uploads /\ h.phase \in {"hello", "line"} /\ h.offset = 0 /\ h.index = 0
    BY <2>1 DEF Uploads
  <2>3. host' = h /\ line' = << >> /\ ack' = "none"
    BY <1>4, <2>1 DEF StartUpload
  <2>4. Sound(h)
    <3>1. Len(h.file) \in Nat
      BY <2>2, UploadFields
    <3> QED BY <2>2, <3>1 DEF Sound
  <2>5. Handled(h)'
    BY <2>2, <2>3 DEF Handled
  <2>6. << h >> \in Seq(Uploads) /\ << h >>[1] = h /\ Len(<< h >>) = 1
    BY <2>2
  <2>7. Wrote(<< h >>)'
    BY <2>3, <2>6 DEF Wrote
  <2> QED BY <2>4, <2>5, <2>6, <2>7 DEF IntactInv
<1>5. CASE SendFrame
  <2>1. /\ host \in Uploads /\ host.phase # "await" /\ host # NoUpload
        /\ UNCHANGED <<session, staged, active, live, ack, intact>>
    BY <1>1, <1>5 DEF SendFrame, TypeOK, NoUpload, device
  <2>2. CASE ~intact
    BY <2>1, <2>2 DEF IntactInv
  <2>3. CASE intact
    <3>1. PICK trail \in Seq(Uploads) : Wrote(trail) /\ Sound(trail[1]) /\ Handled(trail[1])
      BY <2>1, <2>3 DEF IntactInv
    <3>2. PICK next \in Uploads : next = AfterFrame(host)
      BY <2>1, AfterFrameType
    <3>3. PICK longer \in Seq(Uploads) : /\ longer = Append(trail, next)
                                         /\ longer[1] = trail[1] /\ Wrote(longer)'
      BY <1>1, <1>5, <3>1, <3>2, LongerTrail
    <3>4. PICK d : d = trail[1]
      OBVIOUS
    <3>5. Handled(d)'
      BY <2>1, <3>1, <3>4 DEF Handled, ReceivedSoFar, Answered, Fits
    <3> QED BY <3>1, <3>3, <3>4, <3>5 DEF IntactInv
  <2> QED BY <2>2, <2>3
<1>6. CASE \/ HandleHello \/ HandleFileBegin \/ HandleFileChunk \/ HandleFileCommit
           \/ HandleRunPackage \/ HandleKiboPkgLine \/ HandleGarbledLine
  <2>1. host' = host /\ intact' = intact
    BY <1>6 DEF HandleHello, HandleFileBegin, HandleFileChunk, HandleFileCommit,
                HandleRunPackage, HandleKiboPkgLine, HandleGarbledLine, Receive
  <2>2. CASE host = NoUpload \/ ~intact
    BY <2>1, <2>2 DEF IntactInv
  <2>3. CASE host # NoUpload /\ intact
    BY <1>6, <2>3, HelloKeeps, BeginKeeps, ChunkKeeps, CommitKeeps, RunKeeps, LineKeeps,
       NothingGarbled
  <2> QED BY <2>2, <2>3
<1>7. CASE PeriodicReset
  BY <1>3, <1>7 DEF PeriodicReset
<1>8. CASE UNCHANGED vars
  BY <1>3, <1>8 DEF vars
<1>9. CASE ReportOk \/ GiveUp \/ LoseFrame \/ GarbleLine \/ Restart
  BY <1>2, <1>9 DEF ReportOk, GiveUp, LoseFrame, GarbleLine, Restart
<1> QED BY <1>4, <1>5, <1>6, <1>7, <1>8, <1>9 DEF Next, Device

\* Nobody uploads when the board starts.
LEMMA IntactInit == Init => IntactInv
BY DEF Init, IntactInv

\* The line empty and the upload written, the device has made of it all it will.
LEMMA NothingInFlight ==
    ASSUME IInv, IntactInv, intact, host.phase = "await",
           line = << >> \/ ack = "ok"
    PROVE  Answered(host)
<1>1. host # NoUpload /\ TypeOK
  BY DEF NoUpload, IInv
<1>2. PICK trail \in Seq(Uploads) : Wrote(trail) /\ Sound(trail[1]) /\ Handled(trail[1])
  BY <1>1 DEF IntactInv
<1>3. line = << >>
  <2> SUFFICES ASSUME line # << >>, ack = "ok" PROVE FALSE
    OBVIOUS
  <2>1. trail[1].phase # "await"
    BY <1>1, <1>2, HeadOfTrail
  <2> QED BY <1>2, <2>1 DEF Handled
<1>4. trail[1] = host
  BY <1>2, <1>3 DEF Wrote
<1> QED BY <1>2, <1>4 DEF Handled

\* The history of an intact upload, for every behaviour.
THEOREM IntactInvariant == Spec => [](IInv /\ IntactInv)
<1>1. IInv /\ IntactInv /\ [Next]_vars => (IInv /\ IntactInv)'
  BY InvNext, IntactNext
<1> QED BY InvInit, IntactInit, <1>1, PTL DEF Spec

\* An upload of which no frame was lost makes its package the active one,
\* whatever earlier uploads left half done on the device (main.cpp:541-786).
THEOREM CleanUploadsLand == Spec => []CleanUploadLands
<1>1. IInv /\ IntactInv => CleanUploadLands
  BY NothingInFlight DEF CleanUploadLands, Answered, Fits
<1> QED BY <1>1, IntactInvariant, PTL

\* The uploader's "ok" is true when all its frames arrived: a package refused
\* by FILE_BEGIN is never answered for by an older one (main.cpp:551).
THEOREM OkOfAnIntactUpload == Spec => IntactOkIsTrue
<1>1. IInv /\ IntactInv /\ [Next]_vars => [ReportOk /\ intact => active = host.file]_vars
  <2> SUFFICES ASSUME IInv, IntactInv, ReportOk, intact PROVE active = host.file
    OBVIOUS
  <2>1. host.phase = "await" /\ ack = "ok"
    BY DEF ReportOk
  <2> QED BY <2>1, NothingInFlight DEF Answered
<1> QED BY <1>1, IntactInvariant, PTL DEF Spec, IntactOkIsTrue
=============================================================================
