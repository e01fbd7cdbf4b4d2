----------------------------- MODULE ProxyImage -----------------------------
(***************************************************************************)
(* `ensure_proxy_image` of src/src/proxy_image.rs, run by several iwaya    *)
(* processes on one host: each makes the sidecar image out of the binary   *)
(* it executes and the libraries it has mapped, unless the store has an    *)
(* image with the same tag.                                                *)
(*                                                                         *)
(* Meanwhile the files change, as an upgrade or a rebuild changes them: a  *)
(* path is given another file, or the file under it is overwritten.  A     *)
(* file that is being executed cannot be overwritten (ETXTBSY); a mapped   *)
(* library can.  A tag stands for the contents it digests: 48 bits of      *)
(* SHA-256 are taken to be injective.                                      *)
(***************************************************************************)
CONSTANTS
    Supervisors,   \* the iwaya processes
    Exe,           \* the path of the binary
    Libraries,     \* the paths of its interpreter and shared objects
    Files,         \* the files a path can have: bounds the replacements
    Contents       \* what a file can contain

Paths  == {Exe} \cup Libraries
Images == [Paths -> Contents]     \* what an image ships, path by path
Tags   == Images                  \* what a tag digests

CONSTANTS
    Missing,   \* no file under a path
    Unread,    \* no content read yet
    NoImage    \* no image under a tag

ASSUME ImageAssumption ==
    /\ Exe \notin Libraries
    /\ Missing \notin Files /\ Unread \notin Contents /\ NoImage \notin Images

VARIABLES
    disk,      \* the file under each path
    content,   \* the content of each file
    written,   \* the libraries under whose path a file has been overwritten
    store,     \* the images of the daemon, by tag
    pc,        \* where each supervisor is in ensure_proxy_image
    mapped,    \* the files it executes and has mapped
    todo,      \* the paths still to open, hash or copy
    handle,    \* the material: an open file for each path
    hashed,    \* what has been digested
    context,   \* its temporary build context: "none", "made", or "stuck" when
               \* the directory could not be removed
    copied,    \* what has been copied into it
    ran        \* the image its sidecar was started from

fileVars  == <<disk, content, written>>
localVars == <<todo, handle, hashed, context, copied>>
vars == <<fileVars, store, pc, mapped, localVars, ran>>

Stages == {"open", "hash", "copy", "tagged"}
Live(p) == pc[p] \in Stages \cup {"running"}

TypeOK ==
    /\ disk \in [Paths -> Files]
    /\ content \in [Paths -> [Files -> Contents]]
    /\ written \subseteq Libraries
    /\ store \in [Tags -> Images \cup {NoImage}]
    /\ pc \in [Supervisors -> Stages \cup {"off", "running", "failed", "killed", "orphaned"}]
    /\ mapped \in [Supervisors -> [Paths -> Files \cup {Missing}]]
    /\ todo \in [Supervisors -> SUBSET Paths]
    /\ handle \in [Supervisors -> [Paths -> Files \cup {Missing}]]
    /\ hashed \in [Supervisors -> [Paths -> Contents \cup {Unread}]]
    /\ context \in [Supervisors -> {"none", "made", "stuck"}]
    /\ copied \in [Supervisors -> [Paths -> Contents \cup {Unread}]]
    /\ ran \in [Supervisors -> Images \cup {NoImage}]

Init ==
    /\ disk \in [Paths -> Files]
    /\ content \in [Paths -> [Files -> Contents]]
    /\ written = {}
    /\ store = [t \in Tags |-> NoImage]
    /\ pc = [p \in Supervisors |-> "off"]
    /\ mapped = [p \in Supervisors |-> [x \in Paths |-> Missing]]
    /\ todo = [p \in Supervisors |-> {}]
    /\ handle = [p \in Supervisors |-> [x \in Paths |-> Missing]]
    /\ hashed = [p \in Supervisors |-> [x \in Paths |-> Unread]]
    /\ context = [p \in Supervisors |-> "none"]
    /\ copied = [p \in Supervisors |-> [x \in Paths |-> Unread]]
    /\ ran = [p \in Supervisors |-> NoImage]

-----------------------------------------------------------------------------
(* The file system.                                                        *)

\* A path gets another file, as by a rename over it.  (That a path is removed
\* shows only in an open that fails, and every open may: Fails.)
Replace(x) ==
    /\ \E f \in Files \ {disk[x]} : disk' = [disk EXCEPT ![x] = f]
    /\ UNCHANGED <<content, written, store, pc, mapped, localVars, ran>>

\* The file under a path is overwritten; not one that is being executed.
Overwrite(x) ==
    /\ x = Exe => \A p \in Supervisors : Live(p) => mapped[p][Exe] # disk[Exe]
    /\ \E c \in Contents : content' = [content EXCEPT ![x][disk[x]] = c]
    /\ written' = written \cup ({x} \ {Exe})
    /\ UNCHANGED <<disk, store, pc, mapped, localVars, ran>>

-----------------------------------------------------------------------------
(* A supervisor.                                                           *)

\* The material is gone through in the order of its destinations; any order
\* of the remaining paths is allowed here.
Begin(p, from, to) ==
    /\ pc[p] = from /\ todo[p] = {}
    /\ pc' = [pc EXCEPT ![p] = to]
    /\ todo' = [todo EXCEPT ![p] = Paths]

\* The process is started: the kernel and the dynamic linker map its files.
Start(p) ==
    /\ Begin(p, "off", "open")
    /\ mapped' = [mapped EXCEPT ![p] = disk]
    /\ UNCHANGED <<fileVars, store, handle, hashed, context, copied, ran>>

Opened(p, x, f) ==
    /\ pc[p] = "open" /\ x \in todo[p] /\ f # Missing
    /\ handle' = [handle EXCEPT ![p][x] = f]
    /\ todo' = [todo EXCEPT ![p] = @ \ {x}]
    /\ UNCHANGED <<fileVars, store, pc, mapped, hashed, context, copied, ran>>

\* Faulty: the binary is opened by its path.
FaultyOpenExe(p) == Opened(p, Exe, disk[Exe])

\* /proc/self/exe names the file this process executes.
OpenExe(p) == Opened(p, Exe, mapped[p][Exe])

\* A library is opened by the path it was mapped from.
OpenLibrary(p, x) == x \in Libraries /\ Opened(p, x, disk[x])

\* image_tag: the content behind each handle is digested.
Hash(p) ==
    /\ Begin(p, "open", "hash")
    /\ UNCHANGED <<fileVars, store, mapped, handle, hashed, context, copied, ran>>
HashMaterial(p, x) ==
    /\ pc[p] = "hash" /\ x \in todo[p]
    /\ hashed' = [hashed EXCEPT ![p][x] = content[x][handle[p][x]]]
    /\ todo' = [todo EXCEPT ![p] = @ \ {x}]
    /\ UNCHANGED <<fileVars, store, pc, mapped, handle, context, copied, ran>>

\* TempContext::drop, if there is a context; a failing removal is ignored.
DropContext(p) ==
    \E left \in {"none", "stuck"} :
        /\ context[p] = "none" => left = "none"
        /\ context' = [context EXCEPT ![p] = left]

\* `Ok(tag)`: the handles are closed and the context is dropped.
Return(p, from) ==
    /\ pc[p] = from /\ todo[p] = {}
    /\ pc' = [pc EXCEPT ![p] = "tagged"]
    /\ handle' = [handle EXCEPT ![p] = [x \in Paths |-> Missing]]
    /\ copied' = [copied EXCEPT ![p] = [x \in Paths |-> Unread]]
    /\ DropContext(p)

\* image_exists
ImageFound(p) ==
    /\ Return(p, "hash")
    /\ store[hashed[p]] # NoImage
    /\ UNCHANGED <<fileVars, store, mapped, todo, hashed, ran>>

\* `docker image inspect` says no, as it does for any reason to fail:
\* TempContext::create.
ImageAbsent(p) ==
    /\ Begin(p, "hash", "copy")
    /\ context' = [context EXCEPT ![p] = "made"]
    /\ UNCHANGED <<fileVars, store, mapped, handle, hashed, copied, ran>>

\* Faulty: copied from the path, not from the handle.
FaultyCopyMaterial(p, x) ==
    /\ pc[p] = "copy" /\ x \in todo[p]
    /\ copied' = [copied EXCEPT ![p][x] = content[x][disk[x]]]
    /\ todo' = [todo EXCEPT ![p] = @ \ {x}]
    /\ UNCHANGED <<fileVars, store, pc, mapped, handle, hashed, context, ran>>

\* write_build_context copies from the same handles.
CopyMaterial(p, x) ==
    /\ pc[p] = "copy" /\ x \in todo[p]
    /\ copied' = [copied EXCEPT ![p][x] = content[x][handle[p][x]]]
    /\ todo' = [todo EXCEPT ![p] = @ \ {x}]
    /\ UNCHANGED <<fileVars, store, pc, mapped, handle, hashed, context, ran>>

\* Faulty: built from what has been copied so far.
FaultyBuild(p) ==
    /\ pc[p] = "copy"
    /\ pc' = [pc EXCEPT ![p] = "tagged"]
    /\ store' = [store EXCEPT ![hashed[p]] = copied[p]]
    /\ DropContext(p)
    /\ UNCHANGED <<fileVars, mapped, todo, handle, hashed, copied, ran>>

\* `docker build --tag` of the whole context: the tag names the new image,
\* whatever it named before.
Build(p) ==
    /\ Return(p, "copy")
    /\ store' = [store EXCEPT ![hashed[p]] = copied[p]]
    /\ UNCHANGED <<fileVars, mapped, todo, hashed, ran>>

\* The process is gone: its memory and its handles with it.
Ends(p, how) ==
    /\ pc' = [pc EXCEPT ![p] = how]
    /\ mapped' = [mapped EXCEPT ![p] = [x \in Paths |-> Missing]]
    /\ todo' = [todo EXCEPT ![p] = {}]
    /\ handle' = [handle EXCEPT ![p] = [x \in Paths |-> Missing]]
    /\ hashed' = [hashed EXCEPT ![p] = [x \in Paths |-> Unread]]
    /\ copied' = [copied EXCEPT ![p] = [x \in Paths |-> Unread]]
    /\ ran' = [ran EXCEPT ![p] = NoImage]

\* Faulty: a failure returns with the directory left behind.
FaultyFails(p) ==
    /\ pc[p] \in Stages \ {"tagged"}
    /\ Ends(p, "failed")
    /\ UNCHANGED <<fileVars, store, context>>

\* Any call fails: a missing material, an unreadable one, no entropy, a full
\* disk, no runtime, a refused build.  Drop removes the context.
Fails(p) ==
    /\ pc[p] \in Stages \ {"tagged"}
    /\ Ends(p, "failed")
    /\ DropContext(p)
    /\ UNCHANGED <<fileVars, store>>

\* The sidecar is started from whatever the tag names by now.
RunSidecar(p) ==
    /\ pc[p] = "tagged"
    /\ pc' = [pc EXCEPT ![p] = "running"]
    /\ ran' = [ran EXCEPT ![p] = store[hashed[p]]]
    /\ UNCHANGED <<fileVars, store, mapped, localVars>>

Killed(p) ==
    /\ Live(p)
    /\ Ends(p, "killed")
    /\ UNCHANGED <<fileVars, store, context>>

\* Killed while `docker build` runs: the client goes on with the whole context,
\* which nobody removes any more.
KilledInBuild(p) ==
    /\ pc[p] = "copy" /\ todo[p] = {}
    /\ pc' = [pc EXCEPT ![p] = "orphaned"]
    /\ mapped' = [mapped EXCEPT ![p] = [x \in Paths |-> Missing]]
    /\ handle' = [handle EXCEPT ![p] = [x \in Paths |-> Missing]]
    /\ UNCHANGED <<fileVars, store, todo, hashed, context, copied, ran>>

OrphanedBuild(p) ==
    /\ pc[p] = "orphaned"
    /\ store' = [store EXCEPT ![hashed[p]] = copied[p]]
    /\ Ends(p, "killed")
    /\ UNCHANGED <<fileVars, context>>

-----------------------------------------------------------------------------
Supervises(p) ==
    \/ Start(p) \/ OpenExe(p) \/ (\E x \in Libraries : OpenLibrary(p, x))
    \/ Hash(p) \/ (\E x \in Paths : HashMaterial(p, x))
    \/ ImageFound(p) \/ ImageAbsent(p)
    \/ (\E x \in Paths : CopyMaterial(p, x)) \/ Build(p) \/ RunSidecar(p)
    \/ Fails(p) \/ Killed(p) \/ KilledInBuild(p) \/ OrphanedBuild(p)

Next ==
    \/ \E p \in Supervisors : Supervises(p)
    \/ \E x \in Paths : Replace(x) \/ Overwrite(x)

Spec == Init /\ [][Next]_vars

-----------------------------------------------------------------------------
(* Properties.                                                             *)

\* The sidecar runs the binary its supervisor runs, whatever happens to the
\* path, whoever built the image and when (proxy_image.rs:62-66, 190-193).
SidecarRunsOwnExe ==
    \A p \in Supervisors :
        pc[p] = "running" =>
            /\ ran[p] # NoImage
            /\ ran[p][Exe] = content[Exe][mapped[p][Exe]]

\* An image contains what its tag digests, path by path, unless a file under
\* that path was overwritten in place: replacing paths while the digest and the
\* copy are made does not matter, and neither do concurrent builds or builds
\* that are cut short (proxy_image.rs:28-31, 253-255).
TagMatchesContent ==
    \A t \in Tags : store[t] # NoImage =>
        \A x \in Paths \ written : store[t][x] = t[x]

\* A supervisor that has its tag or its failure has no context left but one
\* that could not be removed (proxy_image.rs:301-302).
ContextIsRemoved ==
    \A p \in Supervisors : pc[p] \in {"tagged", "running", "failed"} => context[p] # "made"

-----------------------------------------------------------------------------
(* What comments say, and the code does not do.                            *)

\* "The kernel's (deleted) marker is stripped; the material open then fails
\* loudly on such a path" (proxy_image.rs:118-119): a library that is opened is
\* the one that is mapped.
DeletedFailsLoudly ==
    \A p \in Supervisors : \A x \in Libraries :
        Live(p) /\ handle[p][x] # Missing => handle[p][x] = mapped[p][x]
=============================================================================
