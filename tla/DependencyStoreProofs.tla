-------------------------- MODULE DependencyStoreProofs --------------------------
(***************************************************************************)
(* Theorems about DependencyStore, for every set of keys, build ids,       *)
(* sessions and launches: what a reader, an installer or the registry      *)
(* needs is never chosen by the collector, and stays out of its reach from *)
(* the choice to the removal.                                              *)
(***************************************************************************)
EXTENDS DependencyStore, TLAPS

Building == {"allocate", "install", "installing", "manifest", "complete", "publish"}
Reading == {"reader", "drop", "spawn", "spawned", "update", "admit"}
Removing == {"unindex", "unmark", "unreceipt", "delete"}

\* A finished object in its place.
Sound(o) == obj[o].at = "live" /\ obj[o].whole /\ obj[o].complete /\ obj[o].manifest

\* Launch n depends on the service's receipt for its object.
Covered(n) == child[n].st \in {"creating", "running"} /\ ~child[n].eclipsed

\* Someone counts on o.
Kept(o) ==
    \/ admitted = o
    \/ \E a \in Attachment : session[a].st = "attached" /\ session[a].o = o
    \/ \E n \in Launch : Covered(n) /\ child[n].o = o

\* An installer writes into o, or its command still waits for it to come up.
Writable(o) == writing[o] = "running" \/ (o \in cmd.own /\ writing[o] = "client")

\* The collector has chosen o and not yet removed it.
Doomed(o) == o \in cmd.garbage \/ (cmd.pc \in Removing /\ cmd.o = o)

\* Nothing but the command that builds o knows of it.
Fresh(o) == ~Kept(o) /\ (\A k \in Key : index[k] # o)

\* What a command relies on at each of its steps.
CmdInv ==
    /\ cmd.pc \in Building \union Reading \union Removing => cmd.o \in Object
    /\ cmd.pc \in Building \union Reading \union {"reserve"} => cmd.key \in Key
    /\ cmd.garbage # {} => cmd.pc \in Removing \union {"remove"}
    /\ cmd.pc \in Building => Fresh(cmd.o)
    /\ cmd.pc \in Building \ {"allocate"} => obj[cmd.o].at = "live"
    /\ cmd.pc \in {"manifest", "complete", "publish"} => obj[cmd.o].whole
    /\ cmd.pc \in {"complete", "publish"} => obj[cmd.o].manifest
    /\ cmd.pc = "publish" => obj[cmd.o].complete
    /\ cmd.pc \in (Building \ {"installing"}) \union Reading => writing[cmd.o] = "no"
    /\ cmd.pc \in Reading => Sound(cmd.o)
    /\ cmd.pc \in Reading \ {"reader"} => reader[cmd.o].on
    /\ cmd.pc \in {"unmark", "unreceipt", "delete"} => \A k \in Key : index[k] # cmd.o

\* Launches are started in order, and the command knows which one is its own.
LaunchInv ==
    /\ \A n \in Launch : child[n].st # "none" => child[n].o \in Object
    /\ \A m, n \in Launch : m < n /\ child[n].st # "none" => child[m].st # "none"
    /\ cmd.pc \in {"spawned", "update"} => \A n \in Newest : child[n].o = cmd.o

\* The receipt of a covered launch is there, and is not about another one.
ReceiptInv ==
    /\ \A n \in Launch : Covered(n) => reader[child[n].o].on /\ reader[child[n].o].launch \in {0, n}
    /\ \A a \in Attachment : session[a].st # "idle" => session[a].o \in Object

\* What someone counts on is in place, and the collector has not chosen it.
KeptInv == \A o \in Object : Kept(o) => Sound(o) /\ ~Doomed(o)

\* An installer's object is in place, its receipt says that it was started, and
\* the collector has not chosen it.
WriteInv ==
    \A o \in Object : /\ writing[o] = "running" => obj[o].at = "live"
                      /\ Writable(o) => build[o] = "started" /\ ~Doomed(o)

\* An indexed object is whole, wherever it is, and no installer writes into it.
IndexInv == \A k \in Key : index[k] # None => obj[index[k]].whole /\ writing[index[k]] = "no"

StoreInv == TypeOK /\ CmdInv /\ LaunchInv /\ ReceiptInv /\ KeptInv /\ WriteInv /\ IndexInv

-----------------------------------------------------------------------------
(* Types *)

Dir == [at : {"none", "live", "tomb"}, key : Key \union {None},
        manifest : BOOLEAN, complete : BOOLEAN, whole : BOOLEAN]
Receipt == [on : BOOLEAN, launch : Launch \union {0}]
Session == [st : {"idle", "attached", "ended"}, o : Object \union {None}]
Child == [st : {"none", "creating", "running", "ended"}, o : Object \union {None},
          known : BOOLEAN, eclipsed : BOOLEAN]

\* An object directory whose place or files change is one still.
LEMMA DirTypes ==
    ASSUME NEW d \in Dir, NEW l \in {"none", "live", "tomb"}, NEW b \in BOOLEAN
    PROVE  /\ [d EXCEPT !.at = l] \in Dir /\ [d EXCEPT !.whole = b] \in Dir
           /\ [d EXCEPT !.manifest = b] \in Dir /\ [d EXCEPT !.complete = b] \in Dir
  BY DEF Dir

\* A launch that ends, runs, or is recorded or eclipsed, is one still.
LEMMA ChildTypes ==
    ASSUME NEW c \in Child, NEW s \in {"none", "creating", "running", "ended"}, NEW b \in BOOLEAN
    PROVE  /\ [c EXCEPT !.st = s] \in Child /\ [c EXCEPT !.known = b] \in Child
           /\ [c EXCEPT !.eclipsed = b] \in Child
  BY DEF Child

\* Eclipsing changes no more than that.
LEMMA EclipseType ==
    ASSUME child \in [Launch -> Child], NEW o, NEW n
    PROVE  Eclipse(o, n) \in [Launch -> Child]
  BY ChildTypes, Zenon DEF Eclipse

\* updateConsumer speaks of the command's own launch, and eclipses every other one
\* that counted on the receipt.
LEMMA UpdateEffect ==
    ASSUME StoreInv, NEW n \in Launch, NEW ok \in BOOLEAN, UpdateConsumer(n, ok)
    PROVE  /\ child[n].o = cmd.o
           /\ \A m \in Launch : child'[m].st = child[m].st /\ child'[m].o = child[m].o
           /\ \A m \in Launch : m # n /\ Covered(m)' => Covered(m) /\ (ok => child[m].o # cmd.o)
           /\ ~ok => child' = child
<1>1. child[n].o = cmd.o
  BY DEF StoreInv, TypeOK, LaunchInv, UpdateConsumer, Step
<1>2. child \in [Launch -> Child] /\ Eclipse(cmd.o, n) \in [Launch -> Child]
  BY EclipseType DEF StoreInv, TypeOK, Child
<1>3. CASE ok
  <2>1. child' = [Eclipse(cmd.o, n) EXCEPT ![n].eclipsed = FALSE]
    BY <1>3 DEF UpdateConsumer
  <2>2. \A m \in Launch : m # n => child'[m] = Eclipse(cmd.o, n)[m]
    BY <1>2, <2>1
  <2>3. child'[n].st = child[n].st /\ child'[n].o = child[n].o
    <3>1. Eclipse(cmd.o, n)[n] = child[n] /\ child[n] \in Child
      BY <1>2 DEF Eclipse
    <3> QED
      BY <1>2, <2>1, <3>1 DEF Child
  <2>4. \A m \in Launch : m # n => child'[m].st = child[m].st /\ child'[m].o = child[m].o
    BY <1>2, <2>2, Zenon DEF Eclipse, Child
  <2>5. \A m \in Launch : m # n /\ Covered(m)' => Covered(m) /\ child[m].o # cmd.o
    BY <1>2, <2>2, Zenon DEF Eclipse, Child, Covered
  <2> QED
    BY <1>1, <1>3, <2>3, <2>4, <2>5
<1>4. CASE ~ok
  BY <1>1, <1>4 DEF UpdateConsumer, Covered
<1> QED
  BY <1>3, <1>4

\* A command that ends, or is ended, leaves everything but its own state as it is.
LEMMA EndingKeeps ==
    ASSUME StoreInv
    PROVE  \/ SkipCollection
           \/ Collected
           \/ Crash
           \/ LaunchFails
           => StoreInv'
<1>1. CASE SkipCollection
  <2>1. TypeOK'
    BY <1>1 DEF StoreInv, TypeOK, SkipCollection, Idle
  <2>2. CmdInv'
    BY <1>1 DEF StoreInv, TypeOK, CmdInv, Building, Reading, SkipCollection, Idle, Removing
  <2>3. LaunchInv' /\ ReceiptInv'
    BY <1>1 DEF StoreInv, TypeOK, LaunchInv, ReceiptInv, Covered, SkipCollection, Idle
  <2>4. KeptInv'
    BY <1>1 DEF StoreInv, TypeOK, KeptInv, Kept, Covered, Sound, Doomed, SkipCollection,
       Idle, Removing
  <2>5. WriteInv' /\ IndexInv'
    BY <1>1 DEF StoreInv, TypeOK, WriteInv, Writable, Doomed, IndexInv, SkipCollection,
       Idle, Removing
  <2> QED
    BY <2>1, <2>2, <2>3, <2>4, <2>5 DEF StoreInv
<1>2. CASE Collected
  <2>1. TypeOK'
    BY <1>2 DEF StoreInv, TypeOK, Collected, Idle
  <2>2. CmdInv'
    BY <1>2 DEF StoreInv, TypeOK, CmdInv, Building, Reading, Collected, Idle, Removing
  <2>3. LaunchInv' /\ ReceiptInv'
    BY <1>2 DEF StoreInv, TypeOK, LaunchInv, ReceiptInv, Covered, Collected, Idle
  <2>4. KeptInv'
    BY <1>2 DEF StoreInv, TypeOK, KeptInv, Kept, Covered, Sound, Doomed, Collected, Idle,
       Removing
  <2>5. WriteInv' /\ IndexInv'
    BY <1>2 DEF StoreInv, TypeOK, WriteInv, Writable, Doomed, IndexInv, Collected, Idle,
       Removing
  <2> QED
    BY <2>1, <2>2, <2>3, <2>4, <2>5 DEF StoreInv
<1>3. CASE Crash
  <2>1. TypeOK'
    BY <1>3 DEF StoreInv, TypeOK, Crash, Idle
  <2>2. CmdInv'
    BY <1>3 DEF StoreInv, TypeOK, CmdInv, Building, Reading, Crash, Idle, Removing
  <2>3. LaunchInv' /\ ReceiptInv'
    BY <1>3 DEF StoreInv, TypeOK, LaunchInv, ReceiptInv, Covered, Crash, Idle
  <2>4. KeptInv'
    BY <1>3 DEF StoreInv, TypeOK, KeptInv, Kept, Covered, Sound, Doomed, Crash, Idle,
       Removing
  <2>5. WriteInv' /\ IndexInv'
    BY <1>3 DEF StoreInv, TypeOK, WriteInv, Writable, Doomed, IndexInv, Crash, Idle,
       Removing
  <2> QED
    BY <2>1, <2>2, <2>3, <2>4, <2>5 DEF StoreInv
<1>4. CASE LaunchFails
  <2>1. TypeOK'
    BY <1>4 DEF StoreInv, TypeOK, LaunchFails, Idle
  <2>2. CmdInv'
    BY <1>4 DEF StoreInv, TypeOK, CmdInv, Building, Reading, LaunchFails, Idle, Removing
  <2>3. LaunchInv' /\ ReceiptInv'
    BY <1>4 DEF StoreInv, TypeOK, LaunchInv, ReceiptInv, Covered, LaunchFails, Idle
  <2>4. KeptInv'
    BY <1>4 DEF StoreInv, TypeOK, KeptInv, Kept, Covered, Sound, Doomed, LaunchFails, Idle,
       Removing
  <2>5. WriteInv' /\ IndexInv'
    BY <1>4 DEF StoreInv, TypeOK, WriteInv, Writable, Doomed, IndexInv, LaunchFails, Idle,
       Removing
  <2> QED
    BY <2>1, <2>2, <2>3, <2>4, <2>5 DEF StoreInv
<1> QED
  BY <1>1, <1>2, <1>3, <1>4

\* ensureGeneration: the lookup only takes an object that is valid, and a new build
\* takes an id that nothing mentions.
LEMMA LookupKeeps ==
    ASSUME StoreInv
    PROVE  \/ \E k \in Key : Begin(k)
           \/ \E o \in Object : Reserve(o)
           => StoreInv'
<1>1. ASSUME NEW k \in Key, Begin(k) PROVE StoreInv'
  <2>1. TypeOK'
    <3>1. \E then \in {"collect", "reader", "reserve"} :
            cmd' = [Idle EXCEPT !.pc = then, !.key = k,
                                !.o = IF then = "reader" THEN index[k] ELSE None]
      BY <1>1, Zenon DEF Begin
    <3>2. unusable' \subseteq Object
      BY <1>1 DEF StoreInv, TypeOK, Begin
    <3>3. index[k] \in Object \union {None}
      BY DEF StoreInv, TypeOK
    <3>4. /\ cmd'.pc \in {"collect", "reader", "reserve"} /\ cmd'.key = k
          /\ cmd'.o \in Object \union {None}
          /\ cmd' = [pc |-> cmd'.pc, key |-> cmd'.key, o |-> cmd'.o, own |-> {}, mounts |-> {},
                     garbage |-> {}]
      BY <3>1, <3>3, Zenon DEF Idle
    <3> QED
      BY <1>1, <3>2, <3>4, ZenonT(30) DEF StoreInv, TypeOK, Begin
  <2>2. CmdInv'
    <3>1. /\ cmd'.garbage = {} /\ cmd'.key = k /\ cmd'.pc \in {"collect", "reader", "reserve"}
          /\ cmd'.pc = "reader" => cmd'.o = index[k] /\ index[k] # None /\ Valid(index[k], k)
          /\ UNCHANGED <<obj, index, writing>>
      BY <1>1 DEF Begin, Idle
    <3>2. cmd'.pc = "reader" => cmd'.o \in Object /\ Sound(cmd'.o) /\ writing[cmd'.o] = "no"
      BY <3>1 DEF StoreInv, TypeOK, IndexInv, Valid, Sound
    <3>3. cmd'.pc = "reader" => Sound(cmd.o)'
      BY <3>1, <3>2 DEF Sound
    <3> QED
      BY <3>1, <3>2, <3>3 DEF CmdInv, Building, Reading, Removing
  <2>3. LaunchInv' /\ ReceiptInv'
    BY <1>1 DEF StoreInv, TypeOK, LaunchInv, ReceiptInv, Covered, Begin
  <2>4. KeptInv'
    BY <1>1 DEF StoreInv, TypeOK, KeptInv, Kept, Covered, Sound, Doomed, Begin, Idle,
       Removing
  <2>5. WriteInv' /\ IndexInv'
    BY <1>1 DEF StoreInv, TypeOK, WriteInv, Writable, Doomed, IndexInv, Begin, Idle,
       Removing
  <2> QED
    BY <2>1, <2>2, <2>3, <2>4, <2>5 DEF StoreInv
<1>2. ASSUME NEW o \in Object, Reserve(o) PROVE StoreInv'
  <2>1. TypeOK'
    BY <1>2, Zenon DEF StoreInv, TypeOK, Reserve, Unused
  <2>2. CmdInv'
    BY <1>2 DEF StoreInv, TypeOK, CmdInv, Fresh, Kept, Reading, Reserve, Unused, Removing
  <2>3. LaunchInv' /\ ReceiptInv'
    BY <1>2 DEF StoreInv, TypeOK, LaunchInv, ReceiptInv, Covered, Reserve
  <2>4. KeptInv'
    BY <1>2 DEF StoreInv, TypeOK, KeptInv, Kept, Covered, Sound, Doomed, Reserve, Unused
  <2>5. WriteInv' /\ IndexInv'
    BY <1>2 DEF StoreInv, TypeOK, WriteInv, Writable, Doomed, IndexInv, Reserve, Unused
  <2> QED
    BY <2>1, <2>2, <2>3, <2>4, <2>5 DEF StoreInv
<1> QED
  BY <1>1, <1>2

\* buildObject and publishIndex: nobody else knows of the object before it is
\* published, and it is published when it is finished.
LEMMA BuildingKeeps ==
    ASSUME StoreInv
    PROVE  \/ Allocate
           \/ Install
           \/ Installed
           \/ \E b \in BOOLEAN : InstallFails(b)
           \/ WriteManifest
           \/ WriteComplete
           \/ Publish
           => StoreInv'
<1>1. CASE Allocate
  <2>1. TypeOK'
    BY <1>1, Zenon DEF StoreInv, TypeOK, Allocate, Step, Absent
  <2>2. CmdInv'
    BY <1>1 DEF StoreInv, TypeOK, CmdInv, Fresh, Kept, Covered, Building, Reading, Allocate,
       Step, Removing
  <2>3. LaunchInv' /\ ReceiptInv'
    BY <1>1 DEF StoreInv, TypeOK, LaunchInv, ReceiptInv, Covered, Allocate, Step
  <2>4. KeptInv'
    BY <1>1 DEF StoreInv, TypeOK, KeptInv, Kept, Covered, Sound, Doomed, CmdInv, Fresh,
       Building, Allocate, Step
  <2>5. WriteInv' /\ IndexInv'
    BY <1>1 DEF StoreInv, TypeOK, WriteInv, Writable, Doomed, IndexInv, CmdInv, Fresh,
       Building, Allocate, Step
  <2> QED
    BY <2>1, <2>2, <2>3, <2>4, <2>5 DEF StoreInv
<1>2. CASE Install
  <2>1. TypeOK'
    BY <1>2, Zenon DEF StoreInv, TypeOK, Install, Step
  <2>2. CmdInv'
    BY <1>2 DEF StoreInv, TypeOK, CmdInv, Fresh, Kept, Covered, Building, Reading, Install,
       Step, Removing
  <2>3. LaunchInv' /\ ReceiptInv'
    BY <1>2 DEF StoreInv, TypeOK, LaunchInv, ReceiptInv, Covered, Install, Step
  <2>4. KeptInv'
    BY <1>2 DEF StoreInv, TypeOK, KeptInv, Kept, Covered, Sound, Doomed, Install, Step,
       Removing
  <2>5. WriteInv' /\ IndexInv'
    BY <1>2 DEF StoreInv, TypeOK, WriteInv, Writable, Doomed, IndexInv, CmdInv, Fresh,
       Building, Install, Step, Removing
  <2> QED
    BY <2>1, <2>2, <2>3, <2>4, <2>5 DEF StoreInv
<1>3. CASE Installed
  <2>1. TypeOK'
    <3>1. obj \in [Object -> Dir] /\ cmd.o \in Object
      BY <1>3 DEF StoreInv, TypeOK, Dir, CmdInv, Building, Reading, Removing, Installed,
         Step
    <3>2. [obj[cmd.o] EXCEPT !.whole = TRUE] \in Dir
      BY <3>1, DirTypes, Zenon
    <3>3. obj' \in [Object -> Dir]
      BY <1>3, <3>1, <3>2 DEF Installed, Step
    <3> QED
      BY <1>3, <3>1, <3>3, Zenon DEF StoreInv, TypeOK, Dir, Installed, Step
  <2>2. CmdInv'
    BY <1>3 DEF StoreInv, TypeOK, CmdInv, Fresh, Kept, Covered, Building, Reading,
       Installed, Step, Removing
  <2>3. LaunchInv' /\ ReceiptInv'
    BY <1>3 DEF StoreInv, TypeOK, LaunchInv, ReceiptInv, Covered, Installed, Step
  <2>4. KeptInv'
    BY <1>3 DEF StoreInv, TypeOK, KeptInv, Kept, Covered, Sound, Doomed, Installed, Step,
       Removing
  <2>5. WriteInv' /\ IndexInv'
    BY <1>3 DEF StoreInv, TypeOK, WriteInv, Writable, Doomed, IndexInv, Installed, Step
  <2> QED
    BY <2>1, <2>2, <2>3, <2>4, <2>5 DEF StoreInv
<1>4. ASSUME NEW b \in BOOLEAN, InstallFails(b) PROVE StoreInv'
  <2>1. TypeOK'
    BY <1>4, Zenon DEF StoreInv, TypeOK, InstallFails, Idle
  <2>2. CmdInv'
    BY <1>4 DEF StoreInv, TypeOK, CmdInv, Building, Reading, InstallFails, Idle, Removing
  <2>3. LaunchInv' /\ ReceiptInv'
    BY <1>4 DEF StoreInv, TypeOK, LaunchInv, ReceiptInv, Covered, InstallFails, Idle
  <2>4. KeptInv'
    BY <1>4 DEF StoreInv, TypeOK, KeptInv, Kept, Covered, Sound, Doomed, InstallFails, Idle,
       Removing
  <2>5. WriteInv' /\ IndexInv'
    BY <1>4 DEF StoreInv, TypeOK, WriteInv, Writable, Doomed, IndexInv, InstallFails, Idle,
       Removing
  <2> QED
    BY <2>1, <2>2, <2>3, <2>4, <2>5 DEF StoreInv
<1>5. CASE WriteManifest
  <2>1. TypeOK'
    <3>1. obj \in [Object -> Dir] /\ cmd.o \in Object
      BY <1>5 DEF StoreInv, TypeOK, Dir, CmdInv, Building, Reading, Removing, WriteManifest,
         Step
    <3>2. [obj[cmd.o] EXCEPT !.manifest = TRUE] \in Dir
      BY <3>1, DirTypes, Zenon
    <3>3. obj' \in [Object -> Dir]
      BY <1>5, <3>1, <3>2 DEF WriteManifest, Step
    <3> QED
      BY <1>5, <3>1, <3>3, Zenon DEF StoreInv, TypeOK, Dir, WriteManifest, Step
  <2>2. CmdInv'
    BY <1>5 DEF StoreInv, TypeOK, CmdInv, Fresh, Kept, Covered, Building, Reading,
       WriteManifest, Step, Removing
  <2>3. LaunchInv' /\ ReceiptInv'
    BY <1>5 DEF StoreInv, TypeOK, LaunchInv, ReceiptInv, Covered, WriteManifest, Step
  <2>4. KeptInv'
    BY <1>5 DEF StoreInv, TypeOK, KeptInv, Kept, Covered, Sound, Doomed, WriteManifest,
       Step, Removing
  <2>5. WriteInv' /\ IndexInv'
    BY <1>5 DEF StoreInv, TypeOK, WriteInv, Writable, Doomed, IndexInv, WriteManifest, Step,
       Removing
  <2> QED
    BY <2>1, <2>2, <2>3, <2>4, <2>5 DEF StoreInv
<1>6. CASE WriteComplete
  <2>1. TypeOK'
    <3>1. obj \in [Object -> Dir] /\ cmd.o \in Object
      BY <1>6 DEF StoreInv, TypeOK, Dir, CmdInv, Building, Reading, Removing, WriteComplete,
         Step
    <3>2. [obj[cmd.o] EXCEPT !.complete = TRUE] \in Dir
      BY <3>1, DirTypes, Zenon
    <3>3. obj' \in [Object -> Dir]
      BY <1>6, <3>1, <3>2 DEF WriteComplete, Step
    <3> QED
      BY <1>6, <3>1, <3>3, Zenon DEF StoreInv, TypeOK, Dir, WriteComplete, Step
  <2>2. CmdInv'
    BY <1>6 DEF StoreInv, TypeOK, CmdInv, Fresh, Kept, Covered, Building, Reading,
       WriteComplete, Step, Removing
  <2>3. LaunchInv' /\ ReceiptInv'
    BY <1>6 DEF StoreInv, TypeOK, LaunchInv, ReceiptInv, Covered, WriteComplete, Step
  <2>4. KeptInv'
    BY <1>6 DEF StoreInv, TypeOK, KeptInv, Kept, Covered, Sound, Doomed, WriteComplete,
       Step, Removing
  <2>5. WriteInv' /\ IndexInv'
    BY <1>6 DEF StoreInv, TypeOK, WriteInv, Writable, Doomed, IndexInv, WriteComplete, Step,
       Removing
  <2> QED
    BY <2>1, <2>2, <2>3, <2>4, <2>5 DEF StoreInv
<1>7. CASE Publish
  <2>1. TypeOK'
    BY <1>7, Zenon DEF StoreInv, TypeOK, Publish, Step
  <2>2. CmdInv'
    BY <1>7 DEF StoreInv, TypeOK, CmdInv, Sound, Building, Publish, Step, Removing
  <2>3. LaunchInv' /\ ReceiptInv'
    BY <1>7 DEF StoreInv, TypeOK, LaunchInv, ReceiptInv, Covered, Publish, Step
  <2>4. KeptInv'
    BY <1>7 DEF StoreInv, TypeOK, KeptInv, Kept, Covered, Sound, Doomed, Publish, Step,
       Removing
  <2>5. WriteInv' /\ IndexInv'
    BY <1>7 DEF StoreInv, TypeOK, WriteInv, Writable, Doomed, IndexInv, CmdInv, Building,
       Publish, Step
  <2> QED
    BY <2>1, <2>2, <2>3, <2>4, <2>5 DEF StoreInv
<1> QED
  BY <1>1, <1>2, <1>3, <1>4, <1>5, <1>6, <1>7

\* An installer that comes up while its command runs finds its object, which the
\* command's own collection passes over.
LEMMA InstallerKeeps ==
    ASSUME StoreInv
    PROVE  \/ \E o \in Object : InstallerStarts(o)
           \/ \E o \in Object : InstallerEnds(o)
           => StoreInv'
<1>1. ASSUME NEW o \in Object, InstallerStarts(o) PROVE StoreInv'
  <2>1. TypeOK'
    BY <1>1 DEF StoreInv, TypeOK, InstallerStarts
  <2>2. CmdInv'
    BY <1>1 DEF StoreInv, TypeOK, CmdInv, Fresh, Kept, Covered, Sound, InstallerStarts
  <2>3. LaunchInv' /\ ReceiptInv'
    BY <1>1 DEF StoreInv, TypeOK, LaunchInv, Newest, ReceiptInv, Covered, InstallerStarts
  <2>4. KeptInv'
    BY <1>1, StoreAssumption DEF StoreInv, TypeOK, KeptInv, Kept, Covered, Sound, Doomed,
       InstallerStarts
  <2>5. WriteInv' /\ IndexInv'
    BY <1>1 DEF StoreInv, TypeOK, WriteInv, Writable, Doomed, IndexInv, InstallerStarts
  <2> QED
    BY <2>1, <2>2, <2>3, <2>4, <2>5 DEF StoreInv
<1>2. ASSUME NEW o \in Object, InstallerEnds(o) PROVE StoreInv'
  <2>1. TypeOK'
    BY <1>2 DEF StoreInv, TypeOK, InstallerEnds
  <2>2. CmdInv'
    BY <1>2, StoreAssumption DEF StoreInv, TypeOK, CmdInv, Fresh, Kept, Covered, Sound,
       InstallerEnds
  <2>3. LaunchInv' /\ ReceiptInv'
    BY <1>2 DEF StoreInv, TypeOK, LaunchInv, Newest, ReceiptInv, Covered, InstallerEnds
  <2>4. KeptInv'
    BY <1>2 DEF StoreInv, TypeOK, KeptInv, Kept, Covered, Sound, Doomed, InstallerEnds
  <2>5. WriteInv' /\ IndexInv'
    BY <1>2 DEF StoreInv, TypeOK, WriteInv, Writable, Doomed, IndexInv, InstallerEnds
  <2> QED
    BY <2>1, <2>2, <2>3, <2>4, <2>5 DEF StoreInv
<1> QED
  BY <1>1, <1>2

\* writeReaderReceipt, removeOwnBuildReceipt, releaseReaderReceipt and updateConsumer:
\* a launch that loses its receipt is eclipsed in the same step.
LEMMA ReceiptsKeep ==
    ASSUME StoreInv
    PROVE  \/ WriteReader
           \/ DropBuild
           \/ NotSpawned
           \/ \E n \in Launch, ok \in BOOLEAN : UpdateConsumer(n, ok)
           => StoreInv'
<1>1. CASE WriteReader
  <2>1. TypeOK'
    <3>1. reader \in [Object -> Receipt] /\ cmd.o \in Object
      BY <1>1 DEF StoreInv, TypeOK, Receipt, CmdInv, Building, Reading, Removing,
         WriteReader, Step
    <3>2. [reader[cmd.o] EXCEPT !.on = TRUE] \in Receipt
      BY <3>1, StoreAssumption, Zenon DEF Receipt
    <3>3. reader' \in [Object -> Receipt]
      BY <1>1, <3>1, <3>2 DEF WriteReader, Step
    <3> QED
      BY <1>1, <3>1, <3>3, Zenon DEF StoreInv, TypeOK, Receipt, WriteReader, Step
  <2>2. CmdInv'
    BY <1>1 DEF StoreInv, TypeOK, CmdInv, Sound, Building, Reading, WriteReader, Step,
       Removing
  <2>3. LaunchInv' /\ ReceiptInv'
    BY <1>1 DEF StoreInv, TypeOK, LaunchInv, ReceiptInv, Covered, WriteReader, Step
  <2>4. KeptInv'
    BY <1>1 DEF StoreInv, TypeOK, KeptInv, Kept, Covered, Sound, Doomed, WriteReader, Step,
       Removing
  <2>5. WriteInv' /\ IndexInv'
    BY <1>1 DEF StoreInv, TypeOK, WriteInv, Writable, Doomed, IndexInv, WriteReader, Step,
       Removing
  <2> QED
    BY <2>1, <2>2, <2>3, <2>4, <2>5 DEF StoreInv
<1>2. CASE DropBuild
  <2>1. TypeOK'
    BY <1>2, Zenon DEF StoreInv, TypeOK, DropBuild, Step
  <2>2. CmdInv'
    BY <1>2 DEF StoreInv, TypeOK, CmdInv, Sound, Building, Reading, DropBuild, Step,
       Removing
  <2>3. LaunchInv' /\ ReceiptInv'
    BY <1>2 DEF StoreInv, TypeOK, LaunchInv, ReceiptInv, Covered, DropBuild, Step
  <2>4. KeptInv'
    BY <1>2 DEF StoreInv, TypeOK, KeptInv, Kept, Covered, Sound, Doomed, DropBuild, Step,
       Removing
  <2>5. WriteInv' /\ IndexInv'
    BY <1>2 DEF StoreInv, TypeOK, WriteInv, Writable, Doomed, IndexInv, CmdInv, Reading,
       DropBuild, Step
  <2> QED
    BY <2>1, <2>2, <2>3, <2>4, <2>5 DEF StoreInv
<1>3. CASE NotSpawned
  <2>1. TypeOK'
    <3>1. child \in [Launch -> Child] /\ cmd.o \in Object
      BY <1>3 DEF StoreInv, TypeOK, Child, CmdInv, Reading, NotSpawned
    <3>2. child' \in [Launch -> Child]
      BY <1>3, <3>1, EclipseType DEF NotSpawned
    <3>3. reader' \in [Object -> Receipt]
      BY <1>3, <3>1 DEF StoreInv, TypeOK, Receipt, NoReceipt, NotSpawned
    <3> QED
      BY <1>3, <3>1, <3>2, <3>3 DEF StoreInv, TypeOK, Child, Receipt, Idle, NotSpawned
  <2>2. CmdInv'
    BY <1>3 DEF StoreInv, TypeOK, CmdInv, Building, Reading, NotSpawned, Idle, Removing
  <2>3. LaunchInv'
    BY <1>3 DEF StoreInv, TypeOK, LaunchInv, NotSpawned, Eclipse, Idle
  <2>4. ReceiptInv'
    BY <1>3, StoreAssumption DEF StoreInv, TypeOK, LaunchInv, ReceiptInv, Covered,
       NotSpawned, Eclipse
  <2>5. KeptInv'
    BY <1>3 DEF StoreInv, TypeOK, KeptInv, Kept, Covered, Sound, Doomed, NotSpawned,
       Eclipse, Idle, Removing
  <2>6. WriteInv'
    BY <1>3 DEF StoreInv, TypeOK, WriteInv, Writable, Doomed, NotSpawned, Idle, Removing
  <2>7. IndexInv'
    BY <1>3 DEF StoreInv, TypeOK, IndexInv, NotSpawned
  <2> QED
    BY <2>1, <2>2, <2>3, <2>4, <2>5, <2>6, <2>7 DEF StoreInv
<1>4. ASSUME NEW n \in Launch, NEW ok \in BOOLEAN, UpdateConsumer(n, ok) PROVE StoreInv'
  <2>1. TypeOK'
    <3>1. child \in [Launch -> Child] /\ reader \in [Object -> Receipt] /\ cmd.o \in Object
      BY <1>4 DEF StoreInv, TypeOK, Child, Receipt, CmdInv, Reading, UpdateConsumer, Step
    <3>2. Eclipse(cmd.o, n) \in [Launch -> Child]
      BY <3>1, EclipseType
    <3>3. [Eclipse(cmd.o, n)[n] EXCEPT !.eclipsed = FALSE] \in Child
      BY <3>2, ChildTypes, Zenon
    <3>4. child' \in [Launch -> Child]
      BY <1>4, <3>1, <3>2, <3>3 DEF UpdateConsumer
    <3>5. [reader[cmd.o] EXCEPT !.launch = n] \in Receipt
      BY <3>1 DEF Receipt
    <3>6. reader' \in [Object -> Receipt]
      BY <1>4, <3>1, <3>5 DEF UpdateConsumer
    <3> QED
      BY <1>4, <3>4, <3>6, Zenon DEF StoreInv, TypeOK, Child, Receipt, UpdateConsumer, Step
  <2>2. CmdInv'
    BY <1>4 DEF StoreInv, TypeOK, CmdInv, Sound, Building, Reading, UpdateConsumer, Step,
       Removing
  <2>3. LaunchInv'
    <3>1. cmd'.pc = "admit" /\ \A m \in Launch : /\ child'[m].st = child[m].st
                                                 /\ child'[m].o = child[m].o
      BY <1>4, UpdateEffect, Zenon DEF StoreInv, TypeOK, UpdateConsumer, Step
    <3> QED
      BY <3>1 DEF StoreInv, TypeOK, LaunchInv
  <2>4. ReceiptInv'
    <3> SUFFICES ASSUME NEW m \in Launch, Covered(m)'
                 PROVE  reader'[child'[m].o].on /\ reader'[child'[m].o].launch \in {0, m}
      BY <1>4 DEF StoreInv, TypeOK, LaunchInv, ReceiptInv, UpdateConsumer
    <3>1. /\ child'[m].o = child[m].o /\ child[m].o \in Object
          /\ m # n => Covered(m) /\ (ok => child[m].o # cmd.o)
          /\ ~ok => Covered(m)
      BY <1>4, UpdateEffect DEF StoreInv, TypeOK, LaunchInv, Covered
    <3>2. cmd.o \in Object /\ reader[cmd.o].on /\ child[n].o = cmd.o
      BY <1>4, UpdateEffect, Zenon DEF StoreInv, TypeOK, CmdInv, Reading, UpdateConsumer, Step
    <3>3. CASE ok
      <4>1. reader' = [reader EXCEPT ![cmd.o].launch = n]
        BY <1>4, <3>3 DEF UpdateConsumer
      <4> QED
        BY <3>1, <3>2, <3>3, <4>1 DEF StoreInv, TypeOK, LaunchInv, ReceiptInv
    <3>4. CASE ~ok
      BY <1>4, <3>1, <3>4 DEF StoreInv, TypeOK, LaunchInv, ReceiptInv, UpdateConsumer
    <3> QED
      BY <3>3, <3>4
  <2>5. KeptInv'
    <3> SUFFICES ASSUME NEW o \in Object, Kept(o)'
                 PROVE  Sound(o)' /\ ~Doomed(o)'
      BY DEF KeptInv
    <3>1. cmd.pc = "update" /\ cmd'.pc = "admit" /\ cmd'.garbage = cmd.garbage
      BY <1>4 DEF StoreInv, TypeOK, UpdateConsumer, Step
    <3>2. ~Doomed(o)'
      BY <3>1 DEF StoreInv, TypeOK, CmdInv, Doomed, Removing
    <3>3. Kept(o) \/ o = cmd.o
      BY <1>4, UpdateEffect, Zenon DEF Kept, UpdateConsumer
    <3>4. Sound(o)
      BY <3>1, <3>3 DEF StoreInv, TypeOK, KeptInv, CmdInv, Reading
    <3> QED
      BY <1>4, <3>2, <3>4 DEF Sound, UpdateConsumer
  <2>6. WriteInv'
    BY <1>4 DEF StoreInv, TypeOK, WriteInv, Writable, Doomed, UpdateConsumer, Step, Removing
  <2>7. IndexInv'
    BY <1>4 DEF StoreInv, TypeOK, IndexInv, UpdateConsumer
  <2> QED
    BY <2>1, <2>2, <2>3, <2>4, <2>5, <2>6, <2>7 DEF StoreInv
<1> QED
  BY <1>1, <1>2, <1>3, <1>4

\* The launch: a child is started, and its object admitted, while the command holds
\* the receipt.
LEMMA LaunchingKeeps ==
    ASSUME StoreInv
    PROVE  \/ \E n \in Launch : Spawn(n)
           \/ \E n \in Launch : Record(n)
           \/ \E n \in Launch : EngineCreates(n)
           \/ \E n \in Launch : ChildEnds(n)
           \/ Admit
           => StoreInv'
<1>1. ASSUME NEW n \in Launch, Spawn(n) PROVE StoreInv'
  <2>1. TypeOK'
    BY <1>1, Zenon DEF StoreInv, TypeOK, Spawn, Step
  <2>2. CmdInv'
    BY <1>1 DEF StoreInv, TypeOK, CmdInv, Sound, Building, Reading, Spawn, Step, Removing
  <2>3. LaunchInv'
    <3>1. /\ cmd.pc = "spawn" /\ cmd'.pc = "spawned" /\ cmd'.o = cmd.o /\ cmd.o \in Object
          /\ child[n].st = "none" /\ child'[n].st # "none" /\ child'[n].o = cmd.o
          /\ \A m \in Launch : m < n => child[m].st # "none"
          /\ \A m \in Launch : m # n => child'[m] = child[m]
      BY <1>1 DEF StoreInv, TypeOK, CmdInv, Reading, Spawn, Step
    <3>2. \A m \in Launch : child'[m].st # "none" => m <= n
      <4> SUFFICES ASSUME NEW m \in Launch, child[m].st # "none", n < m PROVE FALSE
        BY <3>1, StoreAssumption
      <4> QED
        BY <3>1 DEF StoreInv, TypeOK, LaunchInv
    <3>3. \A m \in Newest' : m = n
      BY <3>1, <3>2, StoreAssumption DEF Newest
    <3>4. \A l, m \in Launch : l < m /\ child'[m].st # "none" => child'[l].st # "none"
      BY <3>1, <3>2, StoreAssumption
    <3> QED
      BY <3>1, <3>3, <3>4, SMTT(30) DEF StoreInv, TypeOK, LaunchInv
  <2>4. ReceiptInv'
    BY <1>1 DEF StoreInv, TypeOK, LaunchInv, ReceiptInv, Covered, CmdInv, Reading, Spawn,
       Step
  <2>5. KeptInv'
    BY <1>1 DEF StoreInv, TypeOK, KeptInv, Kept, Covered, Sound, Doomed, CmdInv, Reading,
       Spawn, Step, Removing
  <2>6. WriteInv'
    BY <1>1 DEF StoreInv, TypeOK, WriteInv, Writable, Doomed, Spawn, Step, Removing
  <2>7. IndexInv'
    BY <1>1 DEF StoreInv, TypeOK, IndexInv, Spawn
  <2> QED
    BY <2>1, <2>2, <2>3, <2>4, <2>5, <2>6, <2>7 DEF StoreInv
<1>2. ASSUME NEW n \in Launch, Record(n) PROVE StoreInv'
  <2>1. TypeOK'
    <3>1. child \in [Launch -> Child] /\ n \in Launch
      BY <1>2 DEF StoreInv, TypeOK, Child, CmdInv, Building, Reading, Removing, Record, Step
    <3>2. [child[n] EXCEPT !.known = TRUE] \in Child
      BY <3>1, ChildTypes, Zenon
    <3>3. child' \in [Launch -> Child]
      BY <1>2, <3>1, <3>2 DEF Record, Step
    <3> QED
      BY <1>2, <3>1, <3>3, Zenon DEF StoreInv, TypeOK, Child, Record, Step
  <2>2. CmdInv'
    BY <1>2 DEF StoreInv, TypeOK, CmdInv, Sound, Building, Reading, Record, Step, Removing
  <2>3. LaunchInv' /\ ReceiptInv'
    BY <1>2 DEF StoreInv, TypeOK, LaunchInv, Newest, ReceiptInv, Covered, Record, Step
  <2>4. KeptInv'
    BY <1>2 DEF StoreInv, TypeOK, KeptInv, Kept, Covered, Sound, Doomed, Record, Step,
       Removing
  <2>5. WriteInv' /\ IndexInv'
    BY <1>2 DEF StoreInv, TypeOK, WriteInv, Writable, Doomed, IndexInv, Record, Step,
       Removing
  <2> QED
    BY <2>1, <2>2, <2>3, <2>4, <2>5 DEF StoreInv
<1>3. ASSUME NEW n \in Launch, EngineCreates(n) PROVE StoreInv'
  <2>1. TypeOK'
    <3>1. child \in [Launch -> Child] /\ n \in Launch
      BY <1>3 DEF StoreInv, TypeOK, Child, CmdInv, Building, Reading, Removing,
         EngineCreates
    <3>2. [child[n] EXCEPT !.st = "running"] \in Child
      BY <3>1, ChildTypes, Zenon
    <3>3. child' \in [Launch -> Child]
      BY <1>3, <3>1, <3>2 DEF EngineCreates
    <3> QED
      BY <1>3, <3>1, <3>3 DEF StoreInv, TypeOK, Child, EngineCreates
  <2>2. CmdInv'
    BY <1>3 DEF StoreInv, TypeOK, CmdInv, Fresh, Kept, Covered, Sound, EngineCreates
  <2>3. LaunchInv' /\ ReceiptInv'
    BY <1>3 DEF StoreInv, TypeOK, LaunchInv, Newest, ReceiptInv, Covered, EngineCreates
  <2>4. KeptInv'
    BY <1>3 DEF StoreInv, TypeOK, KeptInv, Kept, Covered, Sound, Doomed, EngineCreates
  <2>5. WriteInv' /\ IndexInv'
    BY <1>3 DEF StoreInv, TypeOK, WriteInv, Writable, Doomed, IndexInv, EngineCreates
  <2> QED
    BY <2>1, <2>2, <2>3, <2>4, <2>5 DEF StoreInv
<1>4. ASSUME NEW n \in Launch, ChildEnds(n) PROVE StoreInv'
  <2>1. TypeOK'
    <3>1. child \in [Launch -> Child] /\ n \in Launch
      BY <1>4 DEF StoreInv, TypeOK, Child, CmdInv, Building, Reading, Removing, ChildEnds
    <3>2. [child[n] EXCEPT !.st = "ended"] \in Child
      BY <3>1, ChildTypes, Zenon
    <3>3. child' \in [Launch -> Child]
      BY <1>4, <3>1, <3>2 DEF ChildEnds
    <3> QED
      BY <1>4, <3>1, <3>3 DEF StoreInv, TypeOK, Child, ChildEnds
  <2>2. CmdInv'
    BY <1>4 DEF StoreInv, TypeOK, CmdInv, Fresh, Kept, Covered, Sound, ChildEnds
  <2>3. LaunchInv' /\ ReceiptInv'
    BY <1>4 DEF StoreInv, TypeOK, LaunchInv, Newest, ReceiptInv, Covered, ChildEnds
  <2>4. KeptInv'
    BY <1>4 DEF StoreInv, TypeOK, KeptInv, Kept, Covered, Sound, Doomed, ChildEnds
  <2>5. WriteInv' /\ IndexInv'
    BY <1>4 DEF StoreInv, TypeOK, WriteInv, Writable, Doomed, IndexInv, ChildEnds
  <2> QED
    BY <2>1, <2>2, <2>3, <2>4, <2>5 DEF StoreInv
<1>5. CASE Admit
  <2>1. TypeOK'
    BY <1>5, Zenon DEF StoreInv, TypeOK, Admit, Step
  <2>2. CmdInv'
    BY <1>5 DEF StoreInv, TypeOK, CmdInv, Building, Reading, Admit, Step, Removing
  <2>3. LaunchInv' /\ ReceiptInv'
    BY <1>5 DEF StoreInv, TypeOK, LaunchInv, ReceiptInv, Covered, Admit, Step
  <2>4. KeptInv'
    BY <1>5 DEF StoreInv, TypeOK, KeptInv, Kept, Covered, Sound, Doomed, CmdInv, Reading,
       Admit, Step, Removing
  <2>5. WriteInv' /\ IndexInv'
    BY <1>5 DEF StoreInv, TypeOK, WriteInv, Writable, Doomed, IndexInv, Admit, Step,
       Removing
  <2> QED
    BY <2>1, <2>2, <2>3, <2>4, <2>5 DEF StoreInv
<1> QED
  BY <1>1, <1>2, <1>3, <1>4, <1>5

\* An attachment is made for an object in place, and only between commands.
LEMMA SessionsKeep ==
    ASSUME StoreInv
    PROVE  \/ \E a \in Attachment : Attach(a)
           \/ \E a \in Attachment : Detach(a)
           \/ \E a \in Attachment : SessionDies(a)
           => StoreInv'
<1>1. ASSUME NEW a \in Attachment, Attach(a) PROVE StoreInv'
  <2>1. TypeOK'
    BY <1>1 DEF StoreInv, TypeOK, Attach
  <2>2. CmdInv'
    BY <1>1 DEF StoreInv, TypeOK, CmdInv, Sound, Building, Attach
  <2>3. LaunchInv' /\ ReceiptInv'
    BY <1>1, StoreAssumption DEF StoreInv, TypeOK, LaunchInv, ReceiptInv, Covered, Attach
  <2>4. KeptInv'
    BY <1>1, StoreAssumption DEF StoreInv, TypeOK, KeptInv, Kept, Covered, Sound, Doomed,
       Attach
  <2>5. WriteInv' /\ IndexInv'
    BY <1>1 DEF StoreInv, TypeOK, WriteInv, Writable, Doomed, IndexInv, Attach
  <2> QED
    BY <2>1, <2>2, <2>3, <2>4, <2>5 DEF StoreInv
<1>2. ASSUME NEW a \in Attachment, Detach(a) PROVE StoreInv'
  <2>1. TypeOK'
    BY <1>2, SMTT(30) DEF StoreInv, TypeOK, Detach, NoSession
  <2>2. CmdInv'
    BY <1>2, StoreAssumption DEF StoreInv, TypeOK, CmdInv, Fresh, Kept, Covered, Sound,
       Detach, NoSession
  <2>3. LaunchInv' /\ ReceiptInv'
    BY <1>2, StoreAssumption DEF StoreInv, TypeOK, LaunchInv, Newest, ReceiptInv, Covered,
       Detach, NoSession
  <2>4. KeptInv'
    BY <1>2, StoreAssumption DEF StoreInv, TypeOK, KeptInv, Kept, Covered, Sound, Doomed,
       Detach, NoSession
  <2>5. WriteInv' /\ IndexInv'
    BY <1>2 DEF StoreInv, TypeOK, WriteInv, Writable, Doomed, IndexInv, Detach
  <2> QED
    BY <2>1, <2>2, <2>3, <2>4, <2>5 DEF StoreInv
<1>3. ASSUME NEW a \in Attachment, SessionDies(a) PROVE StoreInv'
  <2>1. TypeOK'
    <3>1. session \in [Attachment -> Session] /\ a \in Attachment
      BY <1>3 DEF StoreInv, TypeOK, Session, CmdInv, Building, Reading, Removing,
         SessionDies
    <3>2. [session[a] EXCEPT !.st = "ended"] \in Session
      BY <3>1 DEF Session
    <3>3. session' \in [Attachment -> Session]
      BY <1>3, <3>1, <3>2 DEF SessionDies
    <3> QED
      BY <1>3, <3>1, <3>3 DEF StoreInv, TypeOK, Session, SessionDies
  <2>2. CmdInv'
    BY <1>3 DEF StoreInv, TypeOK, CmdInv, Fresh, Kept, Covered, Sound, SessionDies
  <2>3. LaunchInv' /\ ReceiptInv'
    BY <1>3 DEF StoreInv, TypeOK, LaunchInv, Newest, ReceiptInv, Covered, SessionDies
  <2>4. KeptInv'
    BY <1>3 DEF StoreInv, TypeOK, KeptInv, Kept, Covered, Sound, Doomed, SessionDies
  <2>5. WriteInv' /\ IndexInv'
    BY <1>3 DEF StoreInv, TypeOK, WriteInv, Writable, Doomed, IndexInv, SessionDies
  <2> QED
    BY <2>1, <2>2, <2>3, <2>4, <2>5 DEF StoreInv
<1> QED
  BY <1>1, <1>2, <1>3

\* collectDependencyObjects: what someone counts on, and what an installer may write
\* into, is rooted.
LEMMA CollectingKeeps ==
    ASSUME StoreInv
    PROVE  \/ InspectMounts
           \/ FindRoots
           => StoreInv'
<1>1. CASE InspectMounts
  <2>1. TypeOK'
    <3>1. {child[n].o : n \in {m \in Launch : kind = "container" /\ child[m].st = "running"}}
            \in SUBSET Object
      BY DEF StoreInv, TypeOK, LaunchInv
    <3> QED
      BY <1>1, <3>1, Zenon DEF StoreInv, TypeOK, InspectMounts
  <2>2. CmdInv'
    BY <1>1 DEF StoreInv, TypeOK, CmdInv, Building, Reading, InspectMounts, Removing
  <2>3. LaunchInv' /\ ReceiptInv'
    BY <1>1 DEF StoreInv, TypeOK, LaunchInv, ReceiptInv, Covered, InspectMounts
  <2>4. KeptInv'
    BY <1>1 DEF StoreInv, TypeOK, KeptInv, Kept, Covered, Sound, Doomed, InspectMounts,
       Removing
  <2>5. WriteInv' /\ IndexInv'
    BY <1>1 DEF StoreInv, TypeOK, WriteInv, Writable, Doomed, IndexInv, InspectMounts,
       Removing
  <2> QED
    BY <2>1, <2>2, <2>3, <2>4, <2>5, SMTT(30) DEF StoreInv
<1>2. CASE FindRoots
  <2>1. TypeOK'
    <3>1. obj' \in [Object -> Dir]
      <4>1. obj \in [Object -> Dir]
        BY DEF StoreInv, TypeOK, Dir
      <4> QED
        BY <1>2, <4>1, DirTypes, Zenon DEF FindRoots, Restored
    <3>2. reader' \in [Object -> Receipt]
      BY <1>2 DEF StoreInv, TypeOK, Receipt, FindRoots, NoReceipt
    <3>3. session' \in [Attachment -> Session]
      BY <1>2 DEF StoreInv, TypeOK, Session, FindRoots, NoSession
    <3>4. build' \in [Object -> {"no", "reserved", "started"}]
      BY <1>2 DEF StoreInv, TypeOK, FindRoots
    <3>5. /\ cmd' = [cmd EXCEPT !.pc = "remove", !.mounts = {}, !.garbage = cmd'.garbage]
          /\ cmd'.garbage \subseteq Object
      BY <1>2 DEF StoreInv, TypeOK, FindRoots
    <3> QED
      BY <1>2, <3>1, <3>2, <3>3, <3>4, <3>5, Zenon DEF StoreInv, TypeOK, Dir, Receipt, Session,
         FindRoots
  <2>2. CmdInv'
    BY <1>2, StoreAssumption DEF StoreInv, TypeOK, CmdInv, Building, Reading, FindRoots,
       Removing
  <2>3. LaunchInv'
    BY <1>2 DEF StoreInv, TypeOK, LaunchInv, FindRoots
  <2>4. ReceiptInv'
    BY <1>2, Zenon DEF StoreInv, TypeOK, ReceiptInv, Covered, CmdInv, LaunchInv, FindRoots,
       Restored, NoReceipt, NoSession, BuildQuiescent, ReaderEnded, Rooted, Reclaimable,
       Removing
  <2>5. KeptInv'
    <3> SUFFICES ASSUME NEW o \in Object, Kept(o)'
                 PROVE  Sound(o)' /\ ~Doomed(o)'
      BY DEF KeptInv
    <3>1. Kept(o)
      BY <1>2 DEF FindRoots, Kept, Covered, NoSession
    <3>2. Sound(o)'
      BY <1>2, <3>1 DEF StoreInv, TypeOK, KeptInv, Sound, FindRoots, Restored
    <3>3. Rooted(o, reader')
      <4>1. CASE \E n \in Launch : Covered(n) /\ child[n].o = o
        <5>1. reader[o].on /\ ~ReaderEnded(o)
          BY <4>1 DEF StoreInv, TypeOK, LaunchInv, ReceiptInv, Covered, ReaderEnded
        <5>2. reader'[o].on
          BY <1>2, <5>1 DEF FindRoots
        <5> QED
          BY <5>2 DEF Rooted
      <4> QED
        BY <3>1, <4>1 DEF Kept, Rooted
    <3>4. o \notin cmd'.garbage /\ cmd'.pc = "remove"
      BY <1>2, <3>3 DEF StoreInv, TypeOK, FindRoots
    <3> QED
      BY <3>2, <3>4 DEF Doomed, Removing
  <2>6. WriteInv'
    BY <1>2 DEF StoreInv, TypeOK, WriteInv, Writable, Doomed, FindRoots, Restored,
       BuildQuiescent, Rooted, Removing
  <2>7. IndexInv'
    <3>1. \A o \in Object : obj'[o].whole = obj[o].whole
      BY <1>2 DEF StoreInv, TypeOK, FindRoots, Restored
    <3> QED
      BY <1>2, <3>1 DEF StoreInv, TypeOK, IndexInv, FindRoots
  <2> QED
    BY <2>1, <2>2, <2>3, <2>4, <2>5, <2>6, <2>7, SMTT(30) DEF StoreInv
<1> QED
  BY <1>1, <1>2

\* removeObject: only an object that the collector has chosen is touched, and its
\* contents only when no index entry names it.
LEMMA RemovingKeeps ==
    ASSUME StoreInv
    PROVE  \/ \E o \in Object : Tombstone(o)
           \/ Unindex
           \/ Unmark
           \/ Unreceipt
           \/ \E m \in BOOLEAN, c \in BOOLEAN : DeleteSome(m, c)
           \/ Delete
           => StoreInv'
<1>1. ASSUME NEW o \in Object, Tombstone(o) PROVE StoreInv'
  <2>1. TypeOK'
    <3>1. obj \in [Object -> Dir] /\ o \in Object
      BY <1>1 DEF StoreInv, TypeOK, Dir, CmdInv, Building, Reading, Removing, Tombstone
    <3>2. [obj[o] EXCEPT !.at = "tomb"] \in Dir
      BY <3>1, DirTypes, Zenon
    <3>3. obj' \in [Object -> Dir]
      BY <1>1, <3>1, <3>2 DEF Tombstone
    <3> QED
      BY <1>1, <3>1, <3>3, Zenon DEF StoreInv, TypeOK, Dir, Tombstone
  <2>2. CmdInv'
    BY <1>1 DEF StoreInv, TypeOK, CmdInv, Building, Reading, Tombstone, Removing
  <2>3. LaunchInv' /\ ReceiptInv'
    BY <1>1 DEF StoreInv, TypeOK, LaunchInv, ReceiptInv, Covered, Tombstone
  <2>4. KeptInv'
    BY <1>1 DEF StoreInv, TypeOK, KeptInv, Kept, Covered, Sound, Doomed, Tombstone
  <2>5. WriteInv' /\ IndexInv'
    BY <1>1 DEF StoreInv, TypeOK, WriteInv, Writable, Doomed, IndexInv, Tombstone
  <2> QED
    BY <2>1, <2>2, <2>3, <2>4, <2>5 DEF StoreInv
<1>2. CASE Unindex
  <2>1. TypeOK'
    BY <1>2, Zenon DEF StoreInv, TypeOK, Unindex, Step, Unindexed
  <2>2. CmdInv'
    BY <1>2, StoreAssumption DEF StoreInv, TypeOK, CmdInv, Building, Reading, Unindex, Step,
       Unindexed, Removing
  <2>3. LaunchInv' /\ ReceiptInv'
    BY <1>2 DEF StoreInv, TypeOK, LaunchInv, ReceiptInv, Covered, Unindex, Step
  <2>4. KeptInv'
    BY <1>2 DEF StoreInv, TypeOK, KeptInv, Kept, Covered, Sound, Doomed, Unindex, Step,
       Removing
  <2>5. WriteInv' /\ IndexInv'
    BY <1>2 DEF StoreInv, TypeOK, WriteInv, Writable, Doomed, IndexInv, Unindex, Step,
       Unindexed, Removing
  <2> QED
    BY <2>1, <2>2, <2>3, <2>4, <2>5 DEF StoreInv
<1>3. CASE Unmark
  <2>1. TypeOK'
    BY <1>3, Zenon DEF StoreInv, TypeOK, Unmark, Step
  <2>2. CmdInv'
    BY <1>3 DEF StoreInv, TypeOK, CmdInv, Building, Reading, Unmark, Step, Removing
  <2>3. LaunchInv' /\ ReceiptInv'
    BY <1>3 DEF StoreInv, TypeOK, LaunchInv, ReceiptInv, Covered, Unmark, Step
  <2>4. KeptInv'
    BY <1>3 DEF StoreInv, TypeOK, KeptInv, Kept, Covered, Sound, Doomed, Unmark, Step,
       Removing
  <2>5. WriteInv' /\ IndexInv'
    BY <1>3 DEF StoreInv, TypeOK, WriteInv, Writable, Doomed, IndexInv, Unmark, Step,
       Removing
  <2> QED
    BY <2>1, <2>2, <2>3, <2>4, <2>5 DEF StoreInv
<1>4. CASE Unreceipt
  <2>1. TypeOK'
    BY <1>4, Zenon DEF StoreInv, TypeOK, Unreceipt, Step
  <2>2. CmdInv'
    BY <1>4 DEF StoreInv, TypeOK, CmdInv, Building, Reading, Unreceipt, Step, Removing
  <2>3. LaunchInv' /\ ReceiptInv'
    BY <1>4 DEF StoreInv, TypeOK, LaunchInv, ReceiptInv, Covered, Unreceipt, Step
  <2>4. KeptInv'
    BY <1>4 DEF StoreInv, TypeOK, KeptInv, Kept, Covered, Sound, Doomed, Unreceipt, Step,
       Removing
  <2>5. WriteInv' /\ IndexInv'
    BY <1>4 DEF StoreInv, TypeOK, WriteInv, Writable, Doomed, IndexInv, Unreceipt, Step,
       Removing
  <2> QED
    BY <2>1, <2>2, <2>3, <2>4, <2>5 DEF StoreInv
<1>5. ASSUME NEW m \in BOOLEAN, NEW c \in BOOLEAN, DeleteSome(m, c) PROVE StoreInv'
  <2>1. TypeOK'
    <3>1. obj \in [Object -> Dir] /\ cmd.o \in Object
      BY <1>5 DEF StoreInv, TypeOK, Dir, CmdInv, Building, Reading, Removing, DeleteSome
    <3>2. [obj[cmd.o] EXCEPT !.manifest = m, !.complete = c, !.whole = FALSE] \in Dir
      BY <3>1, DirTypes, Zenon
    <3>3. obj' \in [Object -> Dir]
      BY <1>5, <3>1, <3>2, Zenon DEF DeleteSome
    <3> QED
      BY <1>5, <3>1, <3>3 DEF StoreInv, TypeOK, Dir, DeleteSome
  <2>2. CmdInv'
    BY <1>5 DEF StoreInv, TypeOK, CmdInv, Building, Reading, DeleteSome
  <2>3. LaunchInv' /\ ReceiptInv'
    BY <1>5 DEF StoreInv, TypeOK, LaunchInv, ReceiptInv, Covered, DeleteSome
  <2>4. KeptInv'
    BY <1>5 DEF StoreInv, TypeOK, KeptInv, Kept, Covered, Sound, Doomed, DeleteSome,
       Removing
  <2>5. WriteInv' /\ IndexInv'
    BY <1>5 DEF StoreInv, TypeOK, WriteInv, Writable, Doomed, IndexInv, DeleteSome
  <2> QED
    BY <2>1, <2>2, <2>3, <2>4, <2>5 DEF StoreInv
<1>6. CASE Delete
  <2>1. TypeOK'
    BY <1>6, ZenonT(30) DEF StoreInv, TypeOK, Delete, Absent
  <2>2. CmdInv'
    BY <1>6 DEF StoreInv, TypeOK, CmdInv, Building, Reading, Delete, Removing
  <2>3. LaunchInv' /\ ReceiptInv'
    BY <1>6 DEF StoreInv, TypeOK, LaunchInv, ReceiptInv, Covered, Delete
  <2>4. KeptInv'
    BY <1>6 DEF StoreInv, TypeOK, KeptInv, Kept, Covered, Sound, Doomed, Delete, Removing
  <2>5. WriteInv' /\ IndexInv'
    BY <1>6 DEF StoreInv, TypeOK, WriteInv, Writable, Doomed, IndexInv, CmdInv, Delete,
       Removing
  <2> QED
    BY <2>1, <2>2, <2>3, <2>4, <2>5 DEF StoreInv
<1> QED
  BY <1>1, <1>2, <1>3, <1>4, <1>5, <1>6

-----------------------------------------------------------------------------
(* The whole next-state relation *)

\* The empty store satisfies the invariant.
LEMMA InitStoreInv == ASSUME Init PROVE StoreInv
<1>1. TypeOK
  BY StoreAssumption DEF Init, TypeOK, Absent, NoReceipt, NoSession, NoLaunch, Idle
<1>2. CmdInv /\ LaunchInv /\ ReceiptInv
  BY DEF Init, CmdInv, LaunchInv, ReceiptInv, Newest, Covered, NoLaunch, NoSession, Idle,
     Building, Reading, Removing
<1>3. KeptInv /\ WriteInv /\ IndexInv
  BY StoreAssumption DEF Init, KeptInv, WriteInv, IndexInv, Kept, Covered, Writable,
     NoLaunch, NoSession
<1> QED
  BY <1>1, <1>2, <1>3 DEF StoreInv

\* A step that changes nothing keeps the invariant.
LEMMA StutterKeeps == ASSUME StoreInv, UNCHANGED vars PROVE StoreInv'
  BY DEF StoreInv, TypeOK, CmdInv, LaunchInv, ReceiptInv, KeptInv, WriteInv, IndexInv,
     Newest, Covered, Kept, Fresh, Sound, Writable, Doomed, vars

\* Every step of a command, the collector, a session, an installer or the engine
\* keeps the invariant.
LEMMA StepKeeps == ASSUME StoreInv, [Next]_vars PROVE StoreInv'
  BY EndingKeeps, LookupKeeps, BuildingKeeps, InstallerKeeps, ReceiptsKeep, LaunchingKeeps,
     SessionsKeep, CollectingKeeps, RemovingKeeps, StutterKeeps DEF Next

\* The invariant holds in every state the store can reach.
THEOREM StoreInvariant == Spec => []StoreInv
<1>1. Init => StoreInv
  BY InitStoreInv
<1>2. StoreInv /\ [Next]_vars => StoreInv'
  BY StepKeeps
<1> QED
  BY <1>1, <1>2, PTL DEF Spec

\* Whatever reads an object finds it in place, although receipts are written and
\* released by several commands and the collector may run between any two of them
\* (receipts.mjs, collector.mjs).
THEOREM StoreKeepsReaders == Spec => []ReadersKeepObject
<1>1. StoreInv => ReadersKeepObject
  <2> SUFFICES ASSUME StoreInv PROVE ReadersKeepObject
    OBVIOUS
  <2>1. ASSUME NEW a \in Attachment, session[a].st = "attached" PROVE InPlace(session[a].o)
    BY <2>1 DEF StoreInv, TypeOK, LaunchInv, ReceiptInv, KeptInv, Kept, Sound, InPlace
  <2>2. ASSUME NEW n \in Launch, child[n].st = "running", ~child[n].eclipsed
        PROVE  InPlace(child[n].o)
    BY <2>2 DEF StoreInv, TypeOK, LaunchInv, KeptInv, Kept, Covered, Sound, InPlace
  <2> QED
    BY <2>1, <2>2 DEF ReadersKeepObject
<1> QED
  BY <1>1, StoreInvariant, PTL

\* An installer that came up while its command ran keeps its object, although it
\* may survive the command (defaultProveBuildQuiescent).
THEOREM StoreKeepsWriters == Spec => []WritersKeepObject
<1>1. StoreInv => WritersKeepObject
  BY DEF StoreInv, TypeOK, WriteInv, WritersKeepObject
<1> QED
  BY <1>1, StoreInvariant, PTL

\* The registry record of the service names a complete object, in place
\* (collectDependencyObjects).
THEOREM StoreKeepsAdmitted == Spec => []AdmittedKept
<1>1. StoreInv => AdmittedKept
  BY DEF StoreInv, TypeOK, KeptInv, Kept, Sound, AdmittedKept, InPlace
<1> QED
  BY <1>1, StoreInvariant, PTL

\* An object that recoverTombstones puts back half deleted is not in the index
\* (removeObject).
THEOREM StoreIndexWhole == Spec => []IndexedWhole
<1>1. StoreInv => IndexedWhole
  BY DEF StoreInv, TypeOK, IndexInv, IndexedWhole
<1> QED
  BY <1>1, StoreInvariant, PTL
=============================================================================
