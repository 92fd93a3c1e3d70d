----------------------------- MODULE DependencyStore -----------------------------
(***************************************************************************)
(* The store of dependency objects                                         *)
(* (cli/utils/dependencies/store/objectStore.mjs), its receipts            *)
(* (receipts.mjs), its collector (collector.mjs), and the start of a       *)
(* service that uses an object (agentServiceManager.js, bwrapServiceManager *)
(* .js).                                                                   *)
(*                                                                         *)
(* A command runs under the workspace mutation lease (MaintenanceLocks), so *)
(* at most one is active; it may end at any step, and whatever it started  *)
(* (an installer, a client of the container engine, a sandbox) may go on.  *)
(* An action is the work between two such steps: files are replaced by     *)
(* rename, so a reader finds a file whole or not at all.                   *)
(*                                                                         *)
(* One service is started again and again, in one Box, with inputs that    *)
(* change; kind says how it runs: as a container, which the engine lists   *)
(* with its mounts until it is removed, or as a sandboxed process, which   *)
(* nothing lists.                                                          *)
(***************************************************************************)
EXTENDS Naturals, FiniteSets

CONSTANTS
    Key,         \* input keys
    Object,      \* build ids; an id that nothing mentions stands for a new one
    Attachment,  \* interactive sessions
    Launch,      \* launches of the service, 1..n
    Kind,        \* ways to run the service that are explored
    None

ASSUME StoreAssumption ==
    /\ Launch \subseteq Nat \ {0} /\ Kind \subseteq {"container", "sandbox"}
    /\ None \notin Object \union Key

VARIABLES
    kind,
    obj,       \* the directories under objects/
    index,     \* index/: the object of an input key
    unusable,  \* state/unusable/
    build,     \* receipts/build/: "no", "reserved", or "started" (its installer)
    reader,    \* receipts/readers/ of the service: the launch it names
    session,   \* attachments: their receipt and whether their process runs
    child,     \* launches of the service
    writing,   \* the installer of an object: "client" (no container yet),
               \* "running", "late" (it came up when its command had ended)
    admitted,  \* the object of the service's registry record
    cmd        \* the command that holds the lease

vars == <<kind, obj, index, unusable, build, reader, session, child, writing, admitted, cmd>>

Absent == [at |-> "none", key |-> None, manifest |-> FALSE, complete |-> FALSE, whole |-> FALSE]
NoReceipt == [on |-> FALSE, launch |-> 0]
NoSession == [st |-> "idle", o |-> None]
NoLaunch == [st |-> "none", o |-> None, known |-> FALSE, eclipsed |-> FALSE]
Idle == [pc |-> "idle", key |-> None, o |-> None, own |-> {}, mounts |-> {}, garbage |-> {}]

TypeOK ==
    /\ kind \in {"container", "sandbox"}
    /\ obj \in [Object -> [at : {"none", "live", "tomb"}, key : Key \union {None},
                           manifest : BOOLEAN, complete : BOOLEAN, whole : BOOLEAN]]
    /\ index \in [Key -> Object \union {None}] /\ unusable \subseteq Object
    /\ build \in [Object -> {"no", "reserved", "started"}]
    /\ reader \in [Object -> [on : BOOLEAN, launch : Launch \union {0}]]
    /\ session \in [Attachment -> [st : {"idle", "attached", "ended"}, o : Object \union {None}]]
    /\ child \in [Launch -> [st : {"none", "creating", "running", "ended"}, o : Object \union {None},
                             known : BOOLEAN, eclipsed : BOOLEAN]]
    /\ writing \in [Object -> {"no", "client", "running", "late"}] /\ admitted \in Object \union {None}
    /\ cmd \in [pc : {"idle", "reserve", "allocate", "install", "installing", "manifest",
                      "complete", "publish", "reader", "drop", "spawn", "spawned",
                      "update", "admit", "collect", "roots", "remove", "unindex", "unmark",
                      "unreceipt", "delete"},
                key : Key \union {None}, o : Object \union {None}, own : SUBSET Object,
                mounts : SUBSET Object, garbage : SUBSET Object]

Init ==
    /\ kind \in Kind
    /\ obj = [o \in Object |-> Absent] /\ index = [k \in Key |-> None] /\ unusable = {}
    /\ build = [o \in Object |-> "no"] /\ reader = [o \in Object |-> NoReceipt]
    /\ session = [a \in Attachment |-> NoSession] /\ child = [n \in Launch |-> NoLaunch]
    /\ writing = [o \in Object |-> "no"] /\ admitted = None /\ cmd = Idle

\* validateObject: the object is where its path says and has its recorded tree.
Valid(o, k) ==
    /\ obj[o].at = "live" /\ obj[o].complete /\ obj[o].manifest /\ obj[o].whole
    /\ obj[o].key = k /\ o \notin unusable

Step(p, l) == cmd.pc = p /\ cmd' = [cmd EXCEPT !.pc = l]

-----------------------------------------------------------------------------
(* ensureGeneration *)

\* runtimeDependencyReuseProblem: the running service has what it needs.
Reusable(k) ==
    /\ admitted # None /\ Valid(admitted, k)
    /\ \E n \in Launch : child[n].st = "running" /\ child[n].known /\ child[n].o = admitted

\* lookup of the key's object; an object that fails its validation is marked.
Begin(k) ==
    /\ cmd.pc = "idle"
    /\ LET e == index[k]
           hit == e # None /\ Valid(e, k)
           then == IF Reusable(k) THEN "collect" ELSE IF hit THEN "reader" ELSE "reserve"
       IN /\ cmd' = [Idle EXCEPT !.pc = then, !.key = k, !.o = IF then = "reader" THEN e ELSE None]
          /\ unusable' = IF then = "reserve" /\ e # None THEN unusable \union {e} ELSE unusable
    /\ UNCHANGED <<kind, obj, index, build, reader, session, child, writing, admitted>>

\* Nothing mentions o.
Unused(o) ==
    /\ obj[o].at = "none" /\ build[o] = "no" /\ ~reader[o].on /\ o \notin unusable /\ writing[o] = "no"
    /\ \A k \in Key : index[k] # o
    /\ \A a \in Attachment : session[a].o # o
    /\ \A n \in Launch : child[n].o # o
    /\ admitted # o

\* buildObject: the receipt is written before the directory exists.
Reserve(o) ==
    /\ Unused(o) /\ build' = [build EXCEPT ![o] = "reserved"]
    /\ cmd.pc = "reserve" /\ cmd' = [cmd EXCEPT !.pc = "allocate", !.o = o, !.own = @ \union {o}]
    /\ UNCHANGED <<kind, obj, index, unusable, reader, session, child, writing, admitted>>

Allocate ==
    /\ Step("allocate", "install")
    /\ obj' = [obj EXCEPT ![cmd.o] = [Absent EXCEPT !.at = "live", !.key = cmd.key]]
    /\ UNCHANGED <<kind, index, unusable, build, reader, session, child, writing, admitted>>

Install ==
    /\ Step("install", "installing")
    /\ build' = [build EXCEPT ![cmd.o] = "started"]
    /\ writing' = [writing EXCEPT ![cmd.o] = IF kind = "container" THEN "client" ELSE "running"]
    /\ UNCHANGED <<kind, obj, index, unusable, reader, session, child, admitted>>

\* The engine creates the installer's container, if its directory is there.
InstallerStarts(o) ==
    /\ writing[o] = "client" /\ obj[o].at = "live"
    /\ writing' = [writing EXCEPT ![o] = IF o \in cmd.own THEN "running" ELSE "late"]
    /\ UNCHANGED <<kind, obj, index, unusable, build, reader, session, child, admitted, cmd>>

Installed ==
    /\ Step("installing", "manifest") /\ writing[cmd.o] = "running"
    /\ obj' = [obj EXCEPT ![cmd.o].whole = TRUE] /\ writing' = [writing EXCEPT ![cmd.o] = "no"]
    /\ UNCHANGED <<kind, index, unusable, build, reader, session, child, admitted>>

\* The installer fails or exceeds its deadline; it may survive that.  Another
\* object is tried once (DEFAULT_MAX_BUILD_ATTEMPTS).
InstallFails(stopped) ==
    /\ cmd.pc = "installing"
    /\ cmd' = IF Cardinality(cmd.own) = 1 THEN [cmd EXCEPT !.pc = "reserve", !.o = None] ELSE Idle
    /\ writing' = IF stopped THEN [writing EXCEPT ![cmd.o] = "no"] ELSE writing
    /\ UNCHANGED <<kind, obj, index, unusable, build, reader, session, child, admitted>>

WriteManifest ==
    /\ Step("manifest", "complete") /\ obj' = [obj EXCEPT ![cmd.o].manifest = TRUE]
    /\ UNCHANGED <<kind, index, unusable, build, reader, session, child, writing, admitted>>

WriteComplete ==
    /\ Step("complete", "publish") /\ obj' = [obj EXCEPT ![cmd.o].complete = TRUE]
    /\ UNCHANGED <<kind, index, unusable, build, reader, session, child, writing, admitted>>

\* publishIndex: under the lease nobody else has published since the lookup.
Publish ==
    /\ Step("publish", "reader") /\ index' = [index EXCEPT ![cmd.key] = cmd.o]
    /\ UNCHANGED <<kind, obj, unusable, build, reader, session, child, writing, admitted>>

\* writeReaderReceipt: a service has one receipt for an object, and a new one
\* carries over what the old one says of its consumer.
WriteReader ==
    /\ Step("reader", "drop") /\ reader' = [reader EXCEPT ![cmd.o].on = TRUE]
    /\ UNCHANGED <<kind, obj, index, unusable, build, session, child, writing, admitted>>

\* removeOwnBuildReceipt, after the reader owns the reference.
DropBuild ==
    /\ Step("drop", "spawn") /\ build' = [build EXCEPT ![cmd.o] = "no"]
    /\ UNCHANGED <<kind, obj, index, unusable, reader, session, child, writing, admitted>>

-----------------------------------------------------------------------------
(* The launch *)

\* Those that run or start with o, and n is not one of them, are eclipsed: what
\* the service's receipt for o says is no longer about them.
Eclipse(o, n) ==
    [m \in Launch |-> IF m # n /\ child[m].o = o /\ child[m].st \in {"creating", "running"}
                      THEN [child[m] EXCEPT !.eclipsed = TRUE] ELSE child[m]]

\* The predecessor that the command knows of is gone; a container is known by
\* its name.
Spawn(n) ==
    /\ Step("spawn", "spawned") /\ child[n].st = "none"
    /\ \A m \in Launch : m < n => child[m].st # "none"
    /\ \A m \in Launch : child[m].known \/ kind = "container" => child[m].st # "running"
    /\ child' = [child EXCEPT ![n] = [st |-> IF kind = "container" THEN "creating" ELSE "running",
                                      o |-> cmd.o, known |-> FALSE,
                                      eclipsed |-> reader[cmd.o].launch # 0]]
    /\ UNCHANGED <<kind, obj, index, unusable, build, reader, session, writing, admitted>>

\* The sandbox could not be spawned: the reservation is released.
NotSpawned ==
    /\ cmd.pc = "spawn" /\ kind = "sandbox" /\ cmd' = Idle
    /\ reader' = [reader EXCEPT ![cmd.o] = NoReceipt] /\ child' = Eclipse(cmd.o, 0)
    /\ UNCHANGED <<kind, obj, index, unusable, build, session, writing, admitted>>

Newest == {n \in Launch : child[n].st # "none" /\ \A m \in Launch : child[m].st # "none" => m <= n}

\* saveBwrapPid, or the answer of the engine with the container's id.
Record(n) ==
    /\ Step("spawned", "update") /\ n \in Newest /\ child[n].st = "running"
    /\ child' = [child EXCEPT ![n].known = TRUE]
    /\ UNCHANGED <<kind, obj, index, unusable, build, reader, session, writing, admitted>>

\* updateConsumer.  A failure is logged and the launch goes on.
UpdateConsumer(n, ok) ==
    /\ Step("update", "admit") /\ n \in Newest
    /\ reader' = IF ok THEN [reader EXCEPT ![cmd.o].launch = n] ELSE reader
    /\ child' = IF ok THEN [Eclipse(cmd.o, n) EXCEPT ![n].eclipsed = FALSE] ELSE child
    /\ UNCHANGED <<kind, obj, index, unusable, build, session, writing, admitted>>

\* The registry record names the object.
Admit ==
    /\ Step("admit", "collect") /\ admitted' = cmd.o
    /\ UNCHANGED <<kind, obj, index, unusable, build, reader, session, child, writing>>

\* The engine, or the client that survived the command, creates the container.
\* Its name is taken while another one exists, and its mount must be there.
EngineCreates(n) ==
    /\ child[n].st = "creating" /\ obj[child[n].o].at = "live" /\ \A m \in Launch : child[m].st # "running"
    /\ child' = [child EXCEPT ![n].st = "running"]
    /\ UNCHANGED <<kind, obj, index, unusable, build, reader, session, writing, admitted, cmd>>

ChildEnds(n) ==
    /\ child[n].st \in {"creating", "running"} /\ child' = [child EXCEPT ![n].st = "ended"]
    /\ UNCHANGED <<kind, obj, index, unusable, build, reader, session, writing, admitted, cmd>>

\* The launch failed: the command ends and leaves its receipt.
LaunchFails ==
    /\ cmd.pc = "spawned" /\ \E n \in Newest : child[n].st = "ended"
    /\ cmd' = Idle
    /\ UNCHANGED <<kind, obj, index, unusable, build, reader, session, child, writing, admitted>>

-----------------------------------------------------------------------------
(* Attachments *)

\* acquireAttachmentReceipt: under the lease, for the admitted object.
Attach(a) ==
    /\ cmd.pc = "idle" /\ kind = "sandbox" /\ session[a].st = "idle"
    /\ admitted # None /\ Valid(admitted, obj[admitted].key)
    /\ session' = [session EXCEPT ![a] = [st |-> "attached", o |-> admitted]]
    /\ UNCHANGED <<kind, obj, index, unusable, build, reader, child, writing, admitted, cmd>>

\* releaseReaderReceipt, without the lease.
Detach(a) ==
    /\ session[a].st = "attached" /\ session' = [session EXCEPT ![a] = NoSession]
    /\ UNCHANGED <<kind, obj, index, unusable, build, reader, child, writing, admitted, cmd>>

\* The session's process ends and its receipt stays.
SessionDies(a) ==
    /\ session[a].st = "attached" /\ session' = [session EXCEPT ![a].st = "ended"]
    /\ UNCHANGED <<kind, obj, index, unusable, build, reader, child, writing, admitted, cmd>>

-----------------------------------------------------------------------------
(* collectDependencyObjects *)

\* Edge routing is unsettled, or a record or the engine cannot be read.
SkipCollection ==
    /\ cmd.pc = "collect" /\ cmd' = Idle
    /\ UNCHANGED <<kind, obj, index, unusable, build, reader, session, child, writing, admitted>>

InspectMounts ==
    /\ cmd.pc = "collect"
    /\ cmd' = [cmd EXCEPT !.pc = "roots", !.o = None, !.key = None,
                          !.mounts = {child[n].o : n \in {m \in Launch : kind = "container"
                                                                         /\ child[m].st = "running"}}]
    /\ UNCHANGED <<kind, obj, index, unusable, build, reader, session, child, writing, admitted>>

\* recoverTombstones: what is left of an object of this store is put back.
Restored ==
    [o \in Object |-> IF obj[o].at = "tomb" /\ (obj[o].manifest \/ build[o] # "no")
                      THEN [obj[o] EXCEPT !.at = "live"] ELSE obj[o]]

\* Mutant: a consumer that was not recorded has ended.
ReaderEndedIfUnknown(o) == reader[o].launch = 0 \/ child[reader[o].launch].st = "ended"

\* defaultProveReaderQuiescent: the consumer that the receipt names has ended.
\* A reservation that names nobody yet proves nothing.
ReaderEnded(o) == reader[o].launch # 0 /\ child[reader[o].launch].st = "ended"

\* Mutant: the writer is gone, so the build is over.
WriterEnded(o) == o \notin cmd.own

\* defaultProveBuildQuiescent: the writer has ended, and an installer that was
\* started has no container; the descendants of npm on the host are unknown.
BuildQuiescent(o) ==
    /\ o \notin cmd.own
    /\ build[o] = "reserved" \/ (kind = "container" /\ writing[o] \notin {"running", "late"})

\* describeObjects and removeObject: a complete object, or one that a build of
\* this store left behind.
Reclaimable(o) ==
    \/ obj[o].complete /\ obj[o].manifest
    \/ ~obj[o].complete /\ build[o] # "no" /\ \A k \in Key : index[k] # o

\* Mutant: what nobody reads or writes is not needed.
UsedNow(o, live) ==
    \/ o \in cmd.mounts
    \/ live[o].on
    \/ \E a \in Attachment : session[a].st = "attached" /\ session[a].o = o
    \/ build[o] # "no" /\ ~BuildQuiescent(o)

\* The reasons to keep o, once the receipts of consumers that ended are gone.
Rooted(o, live) ==
    \/ admitted = o
    \/ o \in cmd.mounts
    \/ live[o].on
    \/ \E a \in Attachment : session[a].st = "attached" /\ session[a].o = o
    \/ build[o] # "no" /\ ~BuildQuiescent(o)

\* Tombstones are put back, receipts with proof removed, and the objects that
\* nothing roots chosen.  A receipt without an object goes here, too.
FindRoots ==
    /\ cmd.pc = "roots"
    /\ LET live == [o \in Object |-> IF reader[o].on /\ ReaderEnded(o) THEN NoReceipt ELSE reader[o]]
       IN /\ reader' = live
          /\ cmd' = [cmd EXCEPT !.pc = "remove", !.mounts = {},
                                !.garbage = {o \in Object : /\ Restored[o].at = "live" /\ Reclaimable(o)
                                                            /\ ~Rooted(o, live)}]
    /\ obj' = Restored
    /\ session' = [a \in Attachment |-> IF session[a].st = "ended" THEN NoSession ELSE session[a]]
    /\ build' = [o \in Object |-> IF obj[o].at = "none" /\ BuildQuiescent(o) THEN "no" ELSE build[o]]
    /\ UNCHANGED <<kind, index, unusable, child, writing, admitted>>

\* removeObject
Tombstone(o) ==
    /\ cmd.pc = "remove" /\ o \in cmd.garbage
    /\ obj' = [obj EXCEPT ![o].at = "tomb"]
    /\ cmd' = [cmd EXCEPT !.pc = "unindex", !.o = o, !.garbage = @ \ {o}]
    /\ UNCHANGED <<kind, index, unusable, build, reader, session, child, writing, admitted>>

\* Mutant: the index entries stay.
KeepIndex(o) == index
Unindexed(o) == [k \in Key |-> IF index[k] = o THEN None ELSE index[k]]

Unindex ==
    /\ Step("unindex", "unmark") /\ index' = Unindexed(cmd.o)
    /\ UNCHANGED <<kind, obj, unusable, build, reader, session, child, writing, admitted>>

Unmark ==
    /\ Step("unmark", "unreceipt") /\ unusable' = unusable \ {cmd.o}
    /\ UNCHANGED <<kind, obj, index, build, reader, session, child, writing, admitted>>

Unreceipt ==
    /\ Step("unreceipt", "delete") /\ build' = [build EXCEPT ![cmd.o] = "no"]
    /\ UNCHANGED <<kind, obj, index, unusable, reader, session, child, writing, admitted>>

\* rmSync removes the files of the tombstone one by one, in any order.
DeleteSome(m, c) ==
    /\ cmd.pc = "delete" /\ (m => obj[cmd.o].manifest) /\ (c => obj[cmd.o].complete)
    /\ obj' = [obj EXCEPT ![cmd.o].manifest = m, ![cmd.o].complete = c, ![cmd.o].whole = FALSE]
    /\ UNCHANGED <<kind, index, unusable, build, reader, session, child, writing, admitted, cmd>>

Delete ==
    /\ cmd.pc = "delete" /\ cmd' = [cmd EXCEPT !.pc = "remove", !.o = None]
    /\ obj' = [obj EXCEPT ![cmd.o] = Absent]
    /\ UNCHANGED <<kind, index, unusable, build, reader, session, child, writing, admitted>>

Collected ==
    /\ cmd.pc = "remove" /\ cmd.garbage = {} /\ cmd' = Idle
    /\ UNCHANGED <<kind, obj, index, unusable, build, reader, session, child, writing, admitted>>

-----------------------------------------------------------------------------
\* The command's process ends; its lease is taken over by the next command.
Crash ==
    /\ cmd.pc # "idle" /\ cmd' = Idle
    /\ UNCHANGED <<kind, obj, index, unusable, build, reader, session, child, writing, admitted>>

\* An installer that survived its command stops.
InstallerEnds(o) ==
    /\ writing[o] # "no" /\ ~(cmd.pc = "installing" /\ cmd.o = o)
    /\ writing' = [writing EXCEPT ![o] = "no"]
    /\ UNCHANGED <<kind, obj, index, unusable, build, reader, session, child, admitted, cmd>>

Next ==
    \/ \E k \in Key : Begin(k)
    \/ \E o \in Object : Reserve(o) \/ InstallerStarts(o) \/ Tombstone(o) \/ InstallerEnds(o)
    \/ Allocate \/ Install \/ Installed \/ WriteManifest \/ WriteComplete \/ Publish
    \/ WriteReader \/ DropBuild \/ NotSpawned \/ Admit \/ LaunchFails
    \/ \E b \in BOOLEAN : InstallFails(b)
    \/ \E n \in Launch : \/ Spawn(n) \/ Record(n) \/ EngineCreates(n) \/ ChildEnds(n)
                         \/ \E ok \in BOOLEAN : UpdateConsumer(n, ok)
    \/ \E a \in Attachment : Attach(a) \/ Detach(a) \/ SessionDies(a)
    \/ SkipCollection \/ InspectMounts \/ FindRoots \/ Unindex \/ Unmark \/ Unreceipt
    \/ \E m, c \in BOOLEAN : DeleteSome(m, c)
    \/ Delete \/ Collected \/ Crash

Spec == Init /\ [][Next]_vars

-----------------------------------------------------------------------------
(* Properties *)

InPlace(o) == obj[o].at = "live" /\ obj[o].whole

\* Whatever reads an object finds it in place: every attached session and every
\* launch of the service, whatever ended before it and whoever collects.  The
\* exception is a launch that its command left behind before the receipt named
\* it, when the receipt spoke, or came to speak, of another launch or was
\* released: a service has one receipt for an object (writeReaderReceipt).
ReadersKeepObject ==
    /\ \A a \in Attachment : session[a].st = "attached" => InPlace(session[a].o)
    /\ \A n \in Launch : child[n].st = "running" => InPlace(child[n].o) \/ child[n].eclipsed

\* An installer never has its object moved or removed under it, although it may
\* survive the command that started it (defaultProveBuildQuiescent).  The
\* exception is a container that came up only after its command had ended: until
\* then the engine reports it absent.
WritersKeepObject == \A o \in Object : writing[o] = "running" => obj[o].at = "live"

\* The registry record of the service names a complete object, although the
\* service may have ended long ago (the root set of collectDependencyObjects).
AdmittedKept == admitted # None => InPlace(admitted) /\ obj[admitted].complete

\* A half-deleted object that recoverTombstones put back is not offered to the
\* next build: no index entry names it (removeObject).
IndexedWhole == \A k \in Key : LET o == index[k] IN o # None /\ obj[o].at = "live" => obj[o].whole
=============================================================================
