-------------------------- MODULE ProxyImageProofs --------------------------
(***************************************************************************)
(* What ProxyImage promises, for any supervisors, paths, files and         *)
(* contents.                                                               *)
(***************************************************************************)
EXTENDS ProxyImage, TLAPS

\* A live supervisor has mapped a file for each path; one that is not holds
\* nothing.
MappedInv(p) == Live(p) => mapped[p] \in [Paths -> Files]

\* Material that has been opened is a file, and for the binary the one that runs.
OpenInv(p) ==
    /\ pc[p] = "open" =>
         /\ \A x \in Paths \ todo[p] : handle[p][x] # Missing
         /\ Exe \notin todo[p] => handle[p][Exe] = mapped[p][Exe]
    /\ pc[p] \in {"hash", "copy"} =>
         /\ \A x \in Paths : handle[p][x] # Missing
         /\ handle[p][Exe] = mapped[p][Exe]

\* A digest made from a handle is what the handle still yields, unless the
\* file has been overwritten since.
Faithful(p, x, read) ==
    /\ read \in Contents
    /\ x \notin written => read = content[x][handle[p][x]]

HashInv(p) ==
    /\ pc[p] = "hash" => \A x \in Paths \ todo[p] : Faithful(p, x, hashed[p][x])
    /\ pc[p] = "copy" => \A x \in Paths : Faithful(p, x, hashed[p][x])

CopyInv(p) ==
    pc[p] = "copy" => \A x \in Paths \ todo[p] : Faithful(p, x, copied[p][x])

\* A tag that has been returned digests the running binary and names an image.
TaggedInv(p) ==
    pc[p] \in {"tagged", "running"} =>
        /\ hashed[p] \in Tags
        /\ hashed[p][Exe] = content[Exe][mapped[p][Exe]]
        /\ store[hashed[p]] # NoImage

RunningInv(p) ==
    pc[p] = "running" =>
        /\ ran[p] \in Images
        /\ ran[p][Exe] = content[Exe][mapped[p][Exe]]

\* The build that a killed supervisor leaves behind has what its tag digests.
OrphanInv(p) ==
    pc[p] = "orphaned" =>
        /\ hashed[p] \in Tags /\ copied[p] \in Images
        /\ \A x \in Paths \ written : copied[p][x] = hashed[p][x]

SupervisorInv(p) ==
    /\ MappedInv(p) /\ OpenInv(p) /\ HashInv(p) /\ CopyInv(p)
    /\ TaggedInv(p) /\ RunningInv(p) /\ OrphanInv(p)

IInv ==
    /\ TypeOK
    /\ TagMatchesContent
    /\ \A p \in Supervisors : SupervisorInv(p)

-----------------------------------------------------------------------------
USE DEF Paths, Images, Tags, Stages, Live

\* Before it starts a supervisor holds nothing, and no tag names an image.
LEMMA InitIInv == Init => IInv
<1> SUFFICES ASSUME Init PROVE IInv
  OBVIOUS
<1>1. TypeOK
  BY DEF Init, TypeOK
<1>2. TagMatchesContent
  BY DEF Init, TagMatchesContent
<1>3. ASSUME NEW p \in Supervisors PROVE SupervisorInv(p)
  <2>1. pc[p] = "off"
    BY DEF Init
  <2> QED
    BY <2>1 DEF SupervisorInv, MappedInv, OpenInv, HashInv, CopyInv, TaggedInv, RunningInv, OrphanInv
<1> QED
  BY <1>1, <1>2, <1>3 DEF IInv

\* Nothing a supervisor depends on is changed, but that tags may get images.
Same(q) ==
    /\ pc'[q] = pc[q] /\ mapped'[q] = mapped[q] /\ todo'[q] = todo[q]
    /\ handle'[q] = handle[q] /\ hashed'[q] = hashed[q] /\ copied'[q] = copied[q]
    /\ ran'[q] = ran[q]
TagsStay == \A t \in Tags : store[t] # NoImage => store'[t] # NoImage

LEMMA Others ==
    ASSUME NEW q \in Supervisors, SupervisorInv(q), Same(q), TagsStay,
           content' = content, written' = written
    PROVE  SupervisorInv(q)'
<1>1. MappedInv(q)' /\ OpenInv(q)'
  BY DEF SupervisorInv, Same, MappedInv, OpenInv
<1>2. HashInv(q)'
  BY DEF SupervisorInv, Same, HashInv, Faithful
<1>3. CopyInv(q)'
  BY DEF SupervisorInv, Same, CopyInv, Faithful
<1>4. TaggedInv(q)' /\ RunningInv(q)'
  BY DEF SupervisorInv, Same, TagsStay, TaggedInv, RunningInv
<1>5. OrphanInv(q)'
  BY DEF SupervisorInv, Same, OrphanInv
<1> QED
  BY <1>1, <1>2, <1>3, <1>4, <1>5 DEF SupervisorInv

\* A step of p that leaves the files and the store alone.
LEMMA LocalStep ==
    ASSUME IInv, TypeOK', NEW p \in Supervisors,
           UNCHANGED <<fileVars, store>>,
           \A q \in Supervisors \ {p} : Same(q),
           SupervisorInv(p)'
    PROVE  IInv'
<1>1. TagMatchesContent'
  BY DEF IInv, TagMatchesContent, fileVars
<1>2. ASSUME NEW q \in Supervisors \ {p} PROVE SupervisorInv(q)'
  BY Others DEF IInv, TagsStay, fileVars
<1> QED
  BY <1>1, <1>2 DEF IInv

-----------------------------------------------------------------------------
\* The digest of the running binary, when every path has been digested: it is
\* never overwritten, so what was read is what it contains.
LEMMA DigestOfExe ==
    ASSUME TypeOK, NEW p \in Supervisors, OpenInv(p),
           pc[p] \in {"hash", "copy"},
           \A x \in Paths : Faithful(p, x, hashed[p][x])
    PROVE  hashed[p] \in Tags /\ hashed[p][Exe] = content[Exe][mapped[p][Exe]]
<1>1. Exe \notin written
  BY ImageAssumption DEF TypeOK
<1>2. hashed[p] \in Tags
  BY DEF TypeOK, Faithful
<1>3. Exe \in Paths /\ handle[p][Exe] = mapped[p][Exe]
  BY DEF OpenInv
<1> QED
  BY <1>1, <1>2, <1>3 DEF Faithful

-----------------------------------------------------------------------------
LEMMA StartStep == ASSUME IInv, NEW p \in Supervisors, Start(p) PROVE IInv'
<1> USE DEF Start, Begin
<1>1. TypeOK'
  BY DEF IInv, TypeOK, fileVars
<1>2. SupervisorInv(p)'
  <2>1. /\ pc'[p] = "open" /\ todo'[p] = Paths
        /\ mapped'[p] = disk /\ disk \in [Paths -> Files]
    BY DEF IInv, TypeOK
  <2> QED
    BY <2>1 DEF SupervisorInv, MappedInv, OpenInv, HashInv, CopyInv, TaggedInv, RunningInv, OrphanInv
<1>3. \A q \in Supervisors \ {p} : Same(q)
  BY DEF IInv, TypeOK, Same
<1> QED
  BY <1>1, <1>2, <1>3, LocalStep

\* Opened(p, x, f), of the running binary or of any library.
LEMMA OpenStep ==
    ASSUME IInv, NEW p \in Supervisors, NEW x \in Paths, NEW f \in Files \cup {Missing},
           Opened(p, x, f), x = Exe => f = mapped[p][Exe]
    PROVE  IInv'
<1> USE DEF Opened
<1>1. TypeOK'
  BY DEF IInv, TypeOK, fileVars
<1>2. SupervisorInv(p)'
  <2>1. /\ pc'[p] = "open" /\ pc[p] = "open" /\ mapped'[p] = mapped[p]
        /\ todo'[p] = todo[p] \ {x}
        /\ handle'[p] = [handle[p] EXCEPT ![x] = f]
        /\ handle[p] \in [Paths -> Files \cup {Missing}]
    BY DEF IInv, TypeOK
  <2>2. MappedInv(p)'
    BY <2>1 DEF IInv, SupervisorInv, MappedInv
  <2>3. OpenInv(p)'
    BY <2>1 DEF IInv, SupervisorInv, OpenInv
  <2> QED
    BY <2>1, <2>2, <2>3 DEF SupervisorInv, HashInv, CopyInv, TaggedInv, RunningInv, OrphanInv
<1>3. \A q \in Supervisors \ {p} : Same(q)
  BY DEF IInv, TypeOK, Same
<1> QED
  BY <1>1, <1>2, <1>3, LocalStep

LEMMA HashStep == ASSUME IInv, NEW p \in Supervisors, Hash(p) PROVE IInv'
<1> USE DEF Hash, Begin
<1>1. TypeOK'
  BY DEF IInv, TypeOK, fileVars
<1>2. SupervisorInv(p)'
  <2>1. /\ pc[p] = "open" /\ todo[p] = {} /\ pc'[p] = "hash" /\ todo'[p] = Paths
        /\ mapped'[p] = mapped[p] /\ handle'[p] = handle[p]
    BY DEF IInv, TypeOK
  <2>2. MappedInv(p)' /\ OpenInv(p)'
    BY <2>1 DEF IInv, SupervisorInv, MappedInv, OpenInv
  <2> QED
    BY <2>1, <2>2 DEF SupervisorInv, HashInv, CopyInv, TaggedInv, RunningInv, OrphanInv
<1>3. \A q \in Supervisors \ {p} : Same(q)
  BY DEF IInv, TypeOK, Same
<1> QED
  BY <1>1, <1>2, <1>3, LocalStep

\* What is read behind a handle is faithful.
LEMMA ReadIsFaithful ==
    ASSUME IInv, NEW p \in Supervisors, NEW x \in Paths, pc[p] \in {"hash", "copy"}
    PROVE  Faithful(p, x, content[x][handle[p][x]])
BY DEF IInv, TypeOK, SupervisorInv, OpenInv, Faithful

LEMMA HashMaterialStep ==
    ASSUME IInv, NEW p \in Supervisors, NEW x \in Paths, HashMaterial(p, x)
    PROVE  IInv'
<1> USE DEF HashMaterial
<1>0. Faithful(p, x, content[x][handle[p][x]])
  BY ReadIsFaithful
<1>1. TypeOK'
  BY <1>0 DEF IInv, TypeOK, fileVars, Faithful
<1>2. SupervisorInv(p)'
  <2>1. /\ pc'[p] = "hash" /\ pc[p] = "hash" /\ mapped'[p] = mapped[p]
        /\ handle'[p] = handle[p] /\ todo'[p] = todo[p] \ {x}
        /\ hashed'[p] = [hashed[p] EXCEPT ![x] = content[x][handle[p][x]]]
        /\ hashed[p] \in [Paths -> Contents \cup {Unread}]
        /\ content' = content /\ written' = written
    BY DEF IInv, TypeOK, fileVars
  <2>2. MappedInv(p)' /\ OpenInv(p)'
    BY <2>1 DEF IInv, SupervisorInv, MappedInv, OpenInv
  <2>3. HashInv(p)'
    BY <1>0, <2>1 DEF IInv, SupervisorInv, HashInv, Faithful
  <2> QED
    BY <2>1, <2>2, <2>3 DEF SupervisorInv, CopyInv, TaggedInv, RunningInv, OrphanInv
<1>3. \A q \in Supervisors \ {p} : Same(q)
  BY DEF IInv, TypeOK, Same
<1> QED
  BY <1>1, <1>2, <1>3, LocalStep

LEMMA CopyMaterialStep ==
    ASSUME IInv, NEW p \in Supervisors, NEW x \in Paths, CopyMaterial(p, x)
    PROVE  IInv'
<1> USE DEF CopyMaterial
<1>0. Faithful(p, x, content[x][handle[p][x]])
  BY ReadIsFaithful
<1>1. TypeOK'
  BY <1>0 DEF IInv, TypeOK, fileVars, Faithful
<1>2. SupervisorInv(p)'
  <2>1. /\ pc'[p] = "copy" /\ pc[p] = "copy" /\ mapped'[p] = mapped[p]
        /\ handle'[p] = handle[p] /\ hashed'[p] = hashed[p]
        /\ todo'[p] = todo[p] \ {x}
        /\ copied'[p] = [copied[p] EXCEPT ![x] = content[x][handle[p][x]]]
        /\ copied[p] \in [Paths -> Contents \cup {Unread}]
        /\ content' = content /\ written' = written
    BY DEF IInv, TypeOK, fileVars
  <2>2. MappedInv(p)' /\ OpenInv(p)'
    BY <2>1 DEF IInv, SupervisorInv, MappedInv, OpenInv
  <2>3. HashInv(p)'
    BY <2>1 DEF IInv, SupervisorInv, HashInv, Faithful
  <2>4. CopyInv(p)'
    BY <1>0, <2>1 DEF IInv, SupervisorInv, CopyInv, Faithful
  <2> QED
    BY <2>1, <2>2, <2>3, <2>4 DEF SupervisorInv, TaggedInv, RunningInv, OrphanInv
<1>3. \A q \in Supervisors \ {p} : Same(q)
  BY DEF IInv, TypeOK, Same
<1> QED
  BY <1>1, <1>2, <1>3, LocalStep

\* A tag that is found names an image, and digests the running binary.
LEMMA ImageFoundStep == ASSUME IInv, NEW p \in Supervisors, ImageFound(p) PROVE IInv'
<1> USE DEF ImageFound, Return, DropContext
<1>1. TypeOK'
  BY DEF IInv, TypeOK, fileVars
<1>2. SupervisorInv(p)'
  <2>1. /\ pc[p] = "hash" /\ todo[p] = {} /\ pc'[p] = "tagged"
        /\ mapped'[p] = mapped[p] /\ hashed'[p] = hashed[p]
        /\ content' = content /\ store' = store /\ store[hashed[p]] # NoImage
    BY DEF IInv, TypeOK, fileVars
  <2>2. MappedInv(p)'
    BY <2>1 DEF IInv, SupervisorInv, MappedInv
  <2>3. TaggedInv(p)'
    <3>1. \A x \in Paths : Faithful(p, x, hashed[p][x])
      BY <2>1 DEF IInv, SupervisorInv, HashInv
    <3>2. hashed[p] \in Tags /\ hashed[p][Exe] = content[Exe][mapped[p][Exe]]
      BY <2>1, <3>1, DigestOfExe DEF IInv, SupervisorInv
    <3> QED
      BY <2>1, <3>2 DEF TaggedInv
  <2> QED
    BY <2>1, <2>2, <2>3 DEF SupervisorInv, OpenInv, HashInv, CopyInv, RunningInv, OrphanInv
<1>3. \A q \in Supervisors \ {p} : Same(q)
  BY DEF IInv, TypeOK, Same
<1> QED
  BY <1>1, <1>2, <1>3, LocalStep

LEMMA ImageAbsentStep == ASSUME IInv, NEW p \in Supervisors, ImageAbsent(p) PROVE IInv'
<1> USE DEF ImageAbsent, Begin
<1>1. TypeOK'
  BY DEF IInv, TypeOK, fileVars
<1>2. SupervisorInv(p)'
  <2>1. /\ pc[p] = "hash" /\ todo[p] = {} /\ pc'[p] = "copy" /\ todo'[p] = Paths
        /\ mapped'[p] = mapped[p] /\ handle'[p] = handle[p] /\ hashed'[p] = hashed[p]
        /\ content' = content /\ written' = written
    BY DEF IInv, TypeOK, fileVars
  <2>2. MappedInv(p)' /\ OpenInv(p)'
    BY <2>1 DEF IInv, SupervisorInv, MappedInv, OpenInv
  <2>3. HashInv(p)'
    BY <2>1 DEF IInv, SupervisorInv, HashInv, Faithful
  <2> QED
    BY <2>1, <2>2, <2>3 DEF SupervisorInv, CopyInv, TaggedInv, RunningInv, OrphanInv
<1>3. \A q \in Supervisors \ {p} : Same(q)
  BY DEF IInv, TypeOK, Same
<1> QED
  BY <1>1, <1>2, <1>3, LocalStep

\* Of a whole context, the copies agree with the digests.
LEMMA WholeContext ==
    ASSUME IInv, NEW p \in Supervisors, pc[p] = "copy", todo[p] = {}
    PROVE  /\ hashed[p] \in Tags /\ copied[p] \in Images
           /\ hashed[p][Exe] = content[Exe][mapped[p][Exe]]
           /\ \A x \in Paths \ written : copied[p][x] = hashed[p][x]
<1>1. \A x \in Paths : Faithful(p, x, hashed[p][x]) /\ Faithful(p, x, copied[p][x])
  BY DEF IInv, SupervisorInv, HashInv, CopyInv
<1>2. copied[p] \in Images
  BY <1>1 DEF IInv, TypeOK, Faithful
<1>3. hashed[p] \in Tags /\ hashed[p][Exe] = content[Exe][mapped[p][Exe]]
  BY <1>1, DigestOfExe DEF IInv, SupervisorInv
<1> QED
  BY <1>1, <1>2, <1>3 DEF Faithful

\* The image that is built is the one the tag digests, and no other tag loses
\* its image.
LEMMA StoreStep ==
    ASSUME IInv, NEW p \in Supervisors,
           store' = [store EXCEPT ![hashed[p]] = copied[p]],
           hashed[p] \in Tags, copied[p] \in Images,
           \A x \in Paths \ written : copied[p][x] = hashed[p][x],
           UNCHANGED fileVars
    PROVE  /\ store' \in [Tags -> Images \cup {NoImage}]
           /\ TagMatchesContent' /\ TagsStay /\ store'[hashed[p]] # NoImage
<1>1. store \in [Tags -> Images \cup {NoImage}] /\ copied[p] # NoImage
  BY ImageAssumption DEF IInv, TypeOK
<1>2. TagMatchesContent'
  <2> SUFFICES ASSUME NEW t \in Tags, store'[t] # NoImage, NEW x \in Paths \ written
               PROVE  store'[t][x] = t[x]
    BY DEF TagMatchesContent, fileVars
  <2>1. CASE t = hashed[p]
    BY <2>1, <1>1
  <2>2. CASE t # hashed[p]
    BY <2>2, <1>1 DEF IInv, TagMatchesContent
  <2> QED
    BY <2>1, <2>2
<1> QED
  BY <1>1, <1>2 DEF TagsStay

LEMMA BuildStep == ASSUME IInv, NEW p \in Supervisors, Build(p) PROVE IInv'
<1> USE DEF Build, Return, DropContext
<1>1. /\ pc[p] = "copy" /\ todo[p] = {} /\ pc'[p] = "tagged"
      /\ mapped'[p] = mapped[p] /\ hashed'[p] = hashed[p]
      /\ content' = content /\ written' = written
  BY DEF IInv, TypeOK, fileVars
<1>2. /\ hashed[p] \in Tags /\ copied[p] \in Images
      /\ hashed[p][Exe] = content[Exe][mapped[p][Exe]]
      /\ \A x \in Paths \ written : copied[p][x] = hashed[p][x]
  BY <1>1, WholeContext
<1>3. /\ store' \in [Tags -> Images \cup {NoImage}]
      /\ TagMatchesContent' /\ TagsStay /\ store'[hashed[p]] # NoImage
  BY <1>2, StoreStep
<1>4. TypeOK'
  BY <1>3 DEF IInv, TypeOK, fileVars
<1>5. SupervisorInv(p)'
  <2>1. MappedInv(p)'
    BY <1>1 DEF IInv, SupervisorInv, MappedInv
  <2>2. TaggedInv(p)'
    BY <1>1, <1>2, <1>3 DEF TaggedInv
  <2> QED
    BY <1>1, <2>1, <2>2 DEF SupervisorInv, OpenInv, HashInv, CopyInv, RunningInv, OrphanInv
<1>6. ASSUME NEW q \in Supervisors \ {p} PROVE SupervisorInv(q)'
  <2>1. Same(q)
    BY DEF IInv, TypeOK, Same
  <2> QED
    BY <1>1, <1>3, <2>1, Others DEF IInv
<1> QED
  BY <1>3, <1>4, <1>5, <1>6 DEF IInv

\* A supervisor killed during its build leaves the whole context to the client.
LEMMA KilledInBuildStep ==
    ASSUME IInv, NEW p \in Supervisors, KilledInBuild(p) PROVE IInv'
<1> USE DEF KilledInBuild
<1>1. TypeOK'
  BY DEF IInv, TypeOK, fileVars
<1>2. SupervisorInv(p)'
  <2>1. /\ pc[p] = "copy" /\ todo[p] = {} /\ pc'[p] = "orphaned"
        /\ hashed'[p] = hashed[p] /\ copied'[p] = copied[p] /\ written' = written
    BY DEF IInv, TypeOK, fileVars
  <2>2. OrphanInv(p)'
    BY <2>1, WholeContext DEF OrphanInv
  <2> QED
    BY <2>1, <2>2 DEF SupervisorInv, MappedInv, OpenInv, HashInv, CopyInv, TaggedInv, RunningInv
<1>3. \A q \in Supervisors \ {p} : Same(q)
  BY DEF IInv, TypeOK, Same
<1> QED
  BY <1>1, <1>2, <1>3, LocalStep

LEMMA OrphanedBuildStep ==
    ASSUME IInv, NEW p \in Supervisors, OrphanedBuild(p) PROVE IInv'
<1> USE DEF OrphanedBuild, Ends
<1>1. /\ hashed[p] \in Tags /\ copied[p] \in Images
      /\ \A x \in Paths \ written : copied[p][x] = hashed[p][x]
  BY DEF IInv, SupervisorInv, OrphanInv
<1>2. /\ store' \in [Tags -> Images \cup {NoImage}] /\ TagMatchesContent' /\ TagsStay
  BY <1>1, StoreStep
<1>3. TypeOK'
  BY <1>2 DEF IInv, TypeOK, fileVars
<1>4. SupervisorInv(p)'
  <2>1. pc'[p] \notin Stages \cup {"running", "orphaned"}
    BY DEF IInv, TypeOK
  <2> QED
    BY <2>1 DEF SupervisorInv, MappedInv, OpenInv, HashInv, CopyInv, TaggedInv, RunningInv, OrphanInv
<1>5. ASSUME NEW q \in Supervisors \ {p} PROVE SupervisorInv(q)'
  <2>1. Same(q)
    BY DEF IInv, TypeOK, Same
  <2> QED
    BY <1>2, <2>1, Others DEF IInv, fileVars
<1> QED
  BY <1>2, <1>3, <1>4, <1>5 DEF IInv

LEMMA RunSidecarStep == ASSUME IInv, NEW p \in Supervisors, RunSidecar(p) PROVE IInv'
<1> USE DEF RunSidecar
<1>1. /\ pc[p] = "tagged" /\ pc'[p] = "running" /\ mapped'[p] = mapped[p]
      /\ hashed'[p] = hashed[p] /\ ran'[p] = store[hashed[p]]
      /\ content' = content /\ store' = store
  BY DEF IInv, TypeOK, fileVars, localVars
<1>2. /\ hashed[p] \in Tags /\ hashed[p][Exe] = content[Exe][mapped[p][Exe]]
      /\ store[hashed[p]] # NoImage
  BY <1>1 DEF IInv, SupervisorInv, TaggedInv
<1>3. store[hashed[p]] \in Images /\ store[hashed[p]][Exe] = hashed[p][Exe]
  <2>1. Exe \in Paths \ written
    BY ImageAssumption DEF IInv, TypeOK
  <2> QED
    BY <1>2, <2>1 DEF IInv, TypeOK, TagMatchesContent
<1>4. TypeOK'
  BY <1>1, <1>3 DEF IInv, TypeOK, fileVars, localVars
<1>5. SupervisorInv(p)'
  <2>1. MappedInv(p)'
    BY <1>1 DEF IInv, SupervisorInv, MappedInv
  <2>2. TaggedInv(p)' /\ RunningInv(p)'
    BY <1>1, <1>2, <1>3 DEF TaggedInv, RunningInv
  <2> QED
    BY <1>1, <2>1, <2>2 DEF SupervisorInv, OpenInv, HashInv, CopyInv, OrphanInv
<1>6. \A q \in Supervisors \ {p} : Same(q)
  BY DEF IInv, TypeOK, Same, localVars
<1> QED
  BY <1>4, <1>5, <1>6, LocalStep

\* A failure and a kill leave a supervisor with nothing to keep.
LEMMA EndStep ==
    ASSUME IInv, NEW p \in Supervisors, Fails(p) \/ Killed(p)
    PROVE  IInv'
<1>1. PICK how \in {"failed", "killed"} :
        Ends(p, how) /\ UNCHANGED <<fileVars, store>> /\ context' \in [Supervisors -> {"none", "made", "stuck"}]
  BY DEF Fails, Killed, DropContext, IInv, TypeOK
<1> USE DEF Ends
<1>2. TypeOK'
  BY <1>1 DEF IInv, TypeOK, fileVars
<1>3. SupervisorInv(p)'
  <2>1. pc'[p] \notin Stages \cup {"running", "orphaned"}
    BY <1>1 DEF IInv, TypeOK
  <2> QED
    BY <2>1 DEF SupervisorInv, MappedInv, OpenInv, HashInv, CopyInv, TaggedInv, RunningInv, OrphanInv
<1>4. \A q \in Supervisors \ {p} : Same(q)
  BY <1>1 DEF IInv, TypeOK, Same
<1> QED
  BY <1>1, <1>2, <1>3, <1>4, LocalStep

\* Handles and mappings name files, so a path that gets another one changes
\* nothing a supervisor depends on.
LEMMA ReplaceStep == ASSUME IInv, NEW x \in Paths, Replace(x) PROVE IInv'
<1> USE DEF Replace
<1>1. TypeOK'
  <2>1. disk' \in [Paths -> Files]
    BY DEF IInv, TypeOK
  <2> QED
    BY <2>1 DEF IInv, TypeOK, localVars
<1>2. TagMatchesContent'
  BY DEF IInv, TagMatchesContent
<1>3. ASSUME NEW p \in Supervisors PROVE SupervisorInv(p)'
  BY Others DEF IInv, Same, TagsStay, localVars
<1> QED
  BY <1>1, <1>2, <1>3 DEF IInv

\* A file that is overwritten is a library's, which is excepted from then on, or
\* a binary that no supervisor runs.
LEMMA OverwriteStep == ASSUME IInv, NEW x \in Paths, Overwrite(x) PROVE IInv'
<1> USE DEF Overwrite
<1>1. PICK c \in Contents : content' = [content EXCEPT ![x][disk[x]] = c]
  OBVIOUS
<1>2. /\ written' = written \cup ({x} \ {Exe}) /\ written \subseteq Libraries
      /\ content \in [Paths -> [Files -> Contents]] /\ disk \in [Paths -> Files]
      /\ Exe \notin Libraries
  BY ImageAssumption DEF IInv, TypeOK
<1>3. TypeOK'
  BY <1>1, <1>2 DEF IInv, TypeOK, localVars
<1>4. TagMatchesContent'
  BY <1>2 DEF IInv, TagMatchesContent
<1>5. ASSUME NEW p \in Supervisors, Live(p) PROVE content'[Exe][mapped[p][Exe]] = content[Exe][mapped[p][Exe]]
  <2>1. CASE x = Exe
    BY <1>1, <1>2, <1>5, <2>1
  <2>2. CASE x # Exe
    BY <1>1, <1>2, <2>2
  <2> QED
    BY <2>1, <2>2
<1>6. ASSUME NEW p \in Supervisors, pc[p] \in {"hash", "copy"}, NEW y \in Paths, NEW r,
             Faithful(p, y, r)
      PROVE  Faithful(p, y, r)'
  <2>1. handle' = handle /\ handle[p][Exe] = mapped[p][Exe]
    BY <1>6 DEF IInv, SupervisorInv, OpenInv, localVars
  <2>2. CASE y = Exe
    BY <1>2, <1>5, <1>6, <2>1, <2>2 DEF Faithful
  <2>3. CASE y # Exe /\ y = x
    BY <1>2, <1>6, <2>3 DEF Faithful
  <2>4. CASE y # Exe /\ y # x
    BY <1>1, <1>2, <1>6, <2>1, <2>4 DEF Faithful
  <2> QED
    BY <2>2, <2>3, <2>4
<1>7. ASSUME NEW p \in Supervisors PROVE SupervisorInv(p)'
  <2>1. MappedInv(p)' /\ OpenInv(p)'
    BY DEF IInv, SupervisorInv, MappedInv, OpenInv, localVars
  <2>2. HashInv(p)'
    BY <1>6 DEF IInv, SupervisorInv, HashInv, localVars
  <2>3. CopyInv(p)'
    BY <1>6 DEF IInv, SupervisorInv, CopyInv, localVars
  <2>4. TaggedInv(p)' /\ RunningInv(p)'
    BY <1>5 DEF IInv, SupervisorInv, TaggedInv, RunningInv, localVars
  <2>5. OrphanInv(p)'
    BY <1>2 DEF IInv, SupervisorInv, OrphanInv, localVars
  <2> QED
    BY <2>1, <2>2, <2>3, <2>4, <2>5 DEF SupervisorInv
<1> QED
  BY <1>3, <1>4, <1>7 DEF IInv

-----------------------------------------------------------------------------
LEMMA NextIInv == IInv /\ [Next]_vars => IInv'
<1> SUFFICES ASSUME IInv, [Next]_vars PROVE IInv'
  OBVIOUS
<1>1. ASSUME NEW p \in Supervisors, Supervises(p) PROVE IInv'
  <2>1. CASE Start(p)
    BY <2>1, StartStep
  <2>2. CASE OpenExe(p)
    <3>1. Opened(p, Exe, mapped[p][Exe]) /\ mapped[p][Exe] \in Files \cup {Missing}
      BY <2>2 DEF OpenExe, IInv, TypeOK
    <3> QED
      BY <3>1, OpenStep
  <2>3. ASSUME NEW x \in Libraries, OpenLibrary(p, x) PROVE IInv'
    <3>1. Opened(p, x, disk[x]) /\ disk[x] \in Files /\ x # Exe
      BY <2>3, ImageAssumption DEF OpenLibrary, IInv, TypeOK
    <3> QED
      BY <3>1, OpenStep
  <2>4. CASE Hash(p)
    BY <2>4, HashStep
  <2>5. ASSUME NEW x \in Paths, HashMaterial(p, x) PROVE IInv'
    BY <2>5, HashMaterialStep
  <2>6. CASE ImageFound(p)
    BY <2>6, ImageFoundStep
  <2>7. CASE ImageAbsent(p)
    BY <2>7, ImageAbsentStep
  <2>8. ASSUME NEW x \in Paths, CopyMaterial(p, x) PROVE IInv'
    BY <2>8, CopyMaterialStep
  <2>9. CASE Build(p)
    BY <2>9, BuildStep
  <2>10. CASE RunSidecar(p)
    BY <2>10, RunSidecarStep
  <2>11. CASE Fails(p) \/ Killed(p)
    BY <2>11, EndStep
  <2>12. CASE KilledInBuild(p) \/ OrphanedBuild(p)
    BY <2>12, KilledInBuildStep, OrphanedBuildStep
  <2> QED
    BY <1>1, <2>1, <2>2, <2>3, <2>4, <2>5, <2>6, <2>7, <2>8, <2>9, <2>10, <2>11, <2>12
       DEF Supervises
<1>2. ASSUME NEW x \in Paths, Replace(x) \/ Overwrite(x) PROVE IInv'
  BY <1>2, ReplaceStep, OverwriteStep
<1>3. CASE UNCHANGED vars
  <2>1. TypeOK' /\ TagMatchesContent'
    BY <1>3 DEF IInv, TypeOK, TagMatchesContent, vars, fileVars, localVars
  <2>2. ASSUME NEW p \in Supervisors PROVE SupervisorInv(p)'
    BY <1>3, Others DEF IInv, Same, TagsStay, vars, fileVars, localVars
  <2> QED
    BY <2>1, <2>2 DEF IInv
<1> QED
  BY <1>1, <1>2, <1>3 DEF Next

LEMMA Invariance == Spec => []IInv
BY InitIInv, NextIInv, PTL DEF Spec

\* Every variable keeps its type.
THEOREM TypeCorrect == Spec => []TypeOK
<1>1. IInv => TypeOK
  BY DEF IInv
<1> QED
  BY <1>1, Invariance, PTL

\* The sidecar runs the binary its supervisor runs, whatever is replaced,
\* overwritten, built or killed meanwhile (proxy_image.rs:62-66, 190-193).
THEOREM SidecarIsOwnExe == Spec => []SidecarRunsOwnExe
<1>1. IInv => SidecarRunsOwnExe
  <2> SUFFICES ASSUME IInv, NEW p \in Supervisors, pc[p] = "running"
               PROVE  ran[p] # NoImage /\ ran[p][Exe] = content[Exe][mapped[p][Exe]]
    BY DEF SidecarRunsOwnExe
  <2>1. ran[p] \in Images /\ ran[p][Exe] = content[Exe][mapped[p][Exe]]
    BY DEF IInv, SupervisorInv, RunningInv
  <2> QED
    BY <2>1, ImageAssumption
<1> QED
  BY <1>1, Invariance, PTL

\* An image contains what its tag digests, but for files overwritten in place
\* (proxy_image.rs:28-31, 253-255).
THEOREM TagDescribesImage == Spec => []TagMatchesContent
<1>1. IInv => TagMatchesContent
  BY DEF IInv
<1> QED
  BY <1>1, Invariance, PTL

-----------------------------------------------------------------------------
\* Every return from ensure_proxy_image drops the context, and nothing creates
\* one afterwards (proxy_image.rs:301-302).
THEOREM NoContextIsLeft == Spec => []ContextIsRemoved
<1>1. Init => ContextIsRemoved
  BY DEF Init, ContextIsRemoved
<1>2. TypeOK /\ ContextIsRemoved /\ [Next]_vars => ContextIsRemoved'
  <2> SUFFICES ASSUME TypeOK, ContextIsRemoved, [Next]_vars, NEW p \in Supervisors,
                      pc'[p] \in {"tagged", "running", "failed"}
               PROVE  context'[p] # "made"
    BY DEF ContextIsRemoved
  <2> USE DEF TypeOK, ContextIsRemoved, fileVars, localVars
  <2>1. ASSUME NEW q \in Supervisors, Supervises(q) PROVE context'[p] # "made"
    <3>1. CASE Start(q)
      BY <3>1 DEF Start, Begin
    <3>2. CASE OpenExe(q) \/ \E x \in Libraries : OpenLibrary(q, x)
      BY <3>2 DEF OpenExe, OpenLibrary, Opened
    <3>3. CASE Hash(q)
      BY <3>3 DEF Hash, Begin
    <3>4. CASE \E x \in Paths : HashMaterial(q, x)
      BY <3>4 DEF HashMaterial
    <3>5. CASE ImageFound(q) \/ Build(q)
      BY <3>5 DEF ImageFound, Build, Return, DropContext
    <3>6. CASE ImageAbsent(q)
      BY <3>6 DEF ImageAbsent, Begin
    <3>7. CASE \E x \in Paths : CopyMaterial(q, x)
      BY <3>7 DEF CopyMaterial
    <3>8. CASE RunSidecar(q)
      BY <3>8 DEF RunSidecar
    <3>9. CASE Fails(q) \/ Killed(q)
      BY <3>9 DEF Fails, Killed, Ends, DropContext
    <3>10. CASE KilledInBuild(q) \/ OrphanedBuild(q)
      BY <3>10 DEF KilledInBuild, OrphanedBuild, Ends
    <3> QED
      BY <2>1, <3>1, <3>2, <3>3, <3>4, <3>5, <3>6, <3>7, <3>8, <3>9, <3>10
         DEF Supervises
  <2>2. ASSUME NEW x \in Paths, Replace(x) \/ Overwrite(x) PROVE context'[p] # "made"
    BY <2>2 DEF Replace, Overwrite
  <2>3. CASE UNCHANGED vars
    BY <2>3 DEF vars
  <2> QED
    BY <2>1, <2>2, <2>3 DEF Next
<1> QED
  BY <1>1, <1>2, TypeCorrect, PTL DEF Spec
=============================================================================
