------------------------- MODULE BundleThreadProofs -------------------------
(* Proofs about module BundleThread for any VMs and any builds.              *)
(*                                                                           *)
(* Who may free a build is decided by its stage, and who may wait for it by  *)
(* its ticket.  The invariant follows both: a build that is not started is   *)
(* in its VM's hands and in the queue, or with the bundle thread that is     *)
(* about to ask; a started one keeps its ticket as long as the bundle thread *)
(* has it, and after that has a note in its VM's queue until it is freed.    *)
EXTENDS BundleThread, TLAPS

Stages == {"Queued", "Started", "Releasing", "ReleasedUnstarted"}

TaskRecord ==
    [mem : {"none", "live", "freed"}, stage : Stages, ticket : {None, "task", "thread"},
     js : BOOLEAN, registered : BOOLEAN, cancelled : BOOLEAN, loop : BOOLEAN,
     request : {"none", "hop", "held", "answered", "consumed"}]

Lives == {"running", "stopping", "draining", "closed"}

VmLabels == {"idle", "get", "wait", "push", "link", "wake", "rouse", "release", "publish",
             "cancel", "wakeloop"}

(* What is in a VM's queue. *)
Notes == [build : Builds, is : {"hop", "done"}]

VmRecord == [life : Lives, pc : VmLabels, on : Builds \cup {None}, queue : Seq(Notes)]

(* The bundle thread without a build, and with one. *)
Free == {"unborn", "start", "set", "setting", "pop", "sleep"}
Busy == Working \cup {"claim", "unstarted", "post", "drop"}

BundlerRecord == [pc : Free \cup Busy, on : Builds \cup {None}, cancelled : BOOLEAN]

Types ==
    /\ vm \in [VMs -> VmRecord] /\ bundler \in BundlerRecord /\ task \in [Builds -> TaskRecord]
    /\ once \in {"empty", "running", "complete"} /\ R!TypeOK
    /\ waker \in [init : BOOLEAN, set : BOOLEAN]
    /\ items \in Seq(Builds)

(* Nobody gets past singleton::get before the waker is there. *)
StartMatches ==
    /\ once = "empty" => bundler.pc = "unborn"
    /\ bundler.pc \notin {"unborn", "start"} \/ ready = R!IS_SET \/ once = "complete" => waker.init
    /\ \A v \in VMs : /\ at[v] \in {"wait", "asleep", "recheck"} => ready # R!UNSET
                      /\ at[v] = "returned" => waker.init
                      /\ vm[v].pc \in {"push", "link", "wake"} => waker.init

(* The build in the bundle thread's hands. *)
BundlerMatches ==
    LET b == bundler.on IN
    /\ bundler.pc \in Free <=> b = None
    /\ bundler.pc \in Busy \ {"drop"} => task[b].mem = "live"
    /\ bundler.pc = "claim" => task[b].stage # "Started"
    /\ bundler.pc = "unstarted" => task[b].stage \in {"Releasing", "ReleasedUnstarted"}
    /\ bundler.pc \in Working => task[b].stage = "Started" /\ task[b].ticket = "task"
    /\ bundler.pc \in {"post", "drop"} => task[b].stage = "Started" /\ task[b].ticket = "thread"

(* The builds in the queue: each once, and none that has been started. *)
ItemsMatch ==
    /\ \A i, j \in 1..Len(items) : items[i] = items[j] => i = j
    /\ \A i \in 1..Len(items) : /\ task[items[i]].mem = "live" /\ task[items[i]].stage # "Started"
                                /\ bundler.on # items[i]

(* A build by its stage, *)
StageMatches(b) ==
    LET v == Owner[b] IN
    /\ task[b].mem = "none" =>
          /\ task[b].stage = "Queued" /\ task[b].ticket = None /\ task[b].request = "none"
          /\ ~task[b].js /\ ~task[b].registered
    /\ task[b].stage = "Queued" /\ task[b].mem # "none" =>
          /\ task[b].mem = "live" /\ task[b].registered
          /\ task[b].ticket = "task" /\ task[b].request = "none"
    /\ task[b].stage = "Releasing" =>
          /\ task[b].mem = "live" /\ ~task[b].registered /\ task[b].request = "none"
          /\ vm[v].on = b /\ vm[v].pc \in {"release", "publish"}
    /\ task[b].stage = "ReleasedUnstarted" =>
          /\ ~task[b].js /\ ~task[b].registered
          /\ task[b].ticket = None /\ task[b].request = "none"
    /\ task[b].stage = "Started" /\ task[b].ticket # None => bundler.on = b

Noted(b) ==
    \E i \in 1..Len(vm[Owner[b]].queue) : vm[Owner[b]].queue[i] = [build |-> b, is |-> "done"]

(* and what keeps its VM from going away before it. *)
HeldMatches(b) ==
    LET v == Owner[b] IN
    /\ task[b].registered => task[b].mem = "live" /\ vm[v].life \in {"running", "stopping"}
    /\ task[b].mem = "freed" => ~task[b].js
    /\ task[b].js => \/ task[b].ticket = "task"
                     \/ task[b].ticket = "thread" /\ bundler.pc = "post" /\ bundler.on = b
                     \/ Noted(b)
    /\ Pending(b) => bundler.on = b /\ bundler.pc \in {"build", "tick", "poll"}
    /\ vm[v].life = "closed" => ~task[b].js /\ task[b].ticket = None

(* What a VM's thread is doing, and to which build. *)
VmMatches(v) ==
    LET b == vm[v].on IN
    /\ vm[v].pc \notin {"idle", "wake"} => b \in Builds /\ Owner[b] = v
    /\ vm[v].pc \in {"get", "wait", "push"} =>
          /\ vm[v].life = "running" /\ task[b].mem = "live" /\ task[b].stage = "Queued"
          /\ bundler.on # b /\ \A i \in 1..Len(items) : items[i] # b
    /\ vm[v].pc = "link" =>
          vm[v].life = "running" /\ task[b].mem = "live" /\ task[b].stage \in {"Queued", "Started"}
    /\ vm[v].pc = "wake" => vm[v].life = "running"
    /\ vm[v].pc \in {"release", "publish"} =>
          vm[v].life = "stopping" /\ task[b].stage = "Releasing"
    /\ vm[v].pc = "publish" => ~task[b].js /\ task[b].ticket = None
    /\ vm[v].pc \in {"cancel", "wakeloop"} =>
          vm[v].life = "stopping" /\ task[b].mem = "live" /\ task[b].stage = "Started"
    /\ vm[v].pc = "rouse" =>
          /\ vm[v].life # "closed"
          /\ vm[v].life = "stopping" => task[b].mem = "live" /\ task[b].stage = "Started"

(* What the notes in a VM's queue mean; a build has one question there at most. *)
NotesMatch(v) ==
    LET q == vm[v].queue IN
    /\ \A i \in 1..Len(q) :
          LET b == q[i].build IN
          /\ Owner[b] = v
          /\ q[i].is = "hop" => task[b].request = "hop"
          /\ q[i].is = "done" =>
                task[b].stage = "Started" /\ (bundler.on = b => bundler.pc = "drop")
    /\ \A i, j \in 1..Len(q) :
          q[i].is = "hop" /\ q[j].is = "hop" /\ q[i].build = q[j].build => i = j

BuildInv ==
    /\ Types /\ StartMatches /\ BundlerMatches /\ ItemsMatch
    /\ \A b \in Builds : StageMatches(b) /\ HeldMatches(b)
    /\ \A v \in VMs : VmMatches(v) /\ NotesMatch(v)

-----------------------------------------------------------------------------
(* The records *)

(* A VM's thread moves on, with the build it has or a new one. *)
LEMMA VmMoves ==
    ASSUME Types, NEW v \in VMs, NEW label \in VmLabels, NEW b \in Builds \cup {None},
           \/ Goto(v, label) /\ b = IF label = "idle" THEN None ELSE vm[v].on
           \/ Begin(v, label, b)
    PROVE  /\ vm' \in [VMs -> VmRecord] /\ vm'[v].pc = label /\ vm'[v].on = b
           /\ vm'[v].life = vm[v].life /\ vm'[v].queue = vm[v].queue
           /\ \A u \in VMs : u # v => vm'[u] = vm[u]
<1>1. vm \in [VMs -> VmRecord] /\ vm[v] \in VmRecord
  BY DEF Types
<1>2. vm' = [vm EXCEPT ![v].pc = label, ![v].on = b]
  BY <1>1 DEF Goto, Begin, VmRecord
<1> DEFINE r == [vm[v] EXCEPT !.pc = label, !.on = b]
<1>3. r \in VmRecord /\ r.pc = label /\ r.on = b /\ r.life = vm[v].life /\ r.queue = vm[v].queue
  BY <1>1 DEF VmRecord
<1>4. vm' = [vm EXCEPT ![v] = r]
  BY <1>1, <1>2
<1> HIDE DEF r
<1> QED
  BY <1>1, <1>3, <1>4

(* The bundle thread moves on with what it has. *)
LEMMA BundlerMoves ==
    ASSUME Types, NEW label \in Free \cup Busy, Bundle(label)
    PROVE  /\ bundler' \in BundlerRecord /\ bundler'.pc = label /\ bundler'.on = bundler.on
  BY DEF Types, BundlerRecord, Bundle

(* A VM's queue holds notes. *)
LEMMA NoteIs ==
    ASSUME NEW v \in VMs, vm[v] \in VmRecord
    PROVE  /\ vm[v].queue \in Seq(Notes)
           /\ \A i \in 1..Len(vm[v].queue) : /\ vm[v].queue[i] \in Notes
                                              /\ vm[v].queue[i].build \in Builds
                                              /\ vm[v].queue[i].is \in {"hop", "done"}
<1>1. vm[v].queue \in Seq(Notes)
  BY DEF VmRecord
<1>2. \A i \in 1..Len(vm[v].queue) : vm[v].queue[i] \in Notes
  BY <1>1
<1>3. \A n \in Notes : n.build \in Builds /\ n.is \in {"hop", "done"}
  BY DEF Notes
<1> QED
  BY <1>1, <1>2, <1>3

(* What the invariant says of one build and of one VM. *)
LEMMA InvIs ==
    ASSUME BuildInv
    PROVE  /\ Types /\ StartMatches /\ BundlerMatches /\ ItemsMatch
           /\ \A b \in Builds : /\ StageMatches(b) /\ HeldMatches(b) /\ task[b] \in TaskRecord
                                /\ Owner[b] \in VMs
           /\ \A v \in VMs : VmMatches(v) /\ NotesMatch(v) /\ vm[v] \in VmRecord
           /\ bundler \in BundlerRecord /\ None \notin Builds
           /\ None # "task" /\ None # "thread"
  BY BundleThreadAssumption DEF BuildInv, Types

-----------------------------------------------------------------------------
(* What a step may change without disturbing a build or a VM *)

(* A build that the step does not change, *)
LEMMA StageKept ==
    ASSUME NEW b \in Builds, StageMatches(b), task'[b] = task[b],
           task[b].stage = "Releasing" =>
              vm'[Owner[b]].on = vm[Owner[b]].on /\ vm'[Owner[b]].pc \in {"release", "publish"},
           bundler.on = b => bundler'.on = b \/ task[b].ticket = None \/ task[b].stage # "Started"
    PROVE  StageMatches(b)'
  BY DEF StageMatches

LEMMA HeldKept ==
    ASSUME NEW b \in Builds, HeldMatches(b), task'[b] = task[b],
           vm'[Owner[b]].life = vm[Owner[b]].life, Noted(b) => Noted(b)',
           bundler.on = b /\ Pending(b) =>
              bundler'.on = b /\ bundler'.pc \in {"build", "tick", "poll"},
           bundler.on = b /\ bundler.pc = "post" => bundler'.on = b /\ bundler'.pc = "post"
    PROVE  HeldMatches(b)'
  BY DEF HeldMatches, Pending

(* a VM's thread that does not move, *)
LEMMA VmKept ==
    ASSUME NEW v \in VMs, VmMatches(v), vm'[v].pc = vm[v].pc, vm'[v].on = vm[v].on,
           vm'[v].life = vm[v].life, vm[v].pc \notin {"idle", "wake"} => task'[vm[v].on] = task[vm[v].on],
           vm[v].pc \in {"get", "wait", "push"} =>
              bundler'.on # vm[v].on /\ \A i \in 1..Len(items') : items'[i] # vm[v].on
    PROVE  VmMatches(v)'
  BY DEF VmMatches

(* and a VM's queue. *)
LEMMA NotesKept ==
    ASSUME NEW v \in VMs, NotesMatch(v), vm'[v].queue = vm[v].queue, vm[v] \in VmRecord,
           \A b \in Builds : /\ task[b].request = "hop" => task'[b].request = "hop"
                             /\ task[b].stage = "Started" => task'[b].stage = "Started"
                             /\ task[b].stage = "Started" /\ bundler'.on = b =>
                                  bundler.on = b /\ (bundler.pc = "drop" => bundler'.pc = "drop")
    PROVE  NotesMatch(v)'
<1>1. \A i \in 1..Len(vm[v].queue) : vm[v].queue[i].build \in Builds
  BY NoteIs
<1> QED
  BY <1>1 DEF NotesMatch

(* A queue whose builds and whose bundle thread stay as they are. *)
LEMMA NotesSame ==
    ASSUME NEW v \in VMs, NotesMatch(v), vm'[v].queue = vm[v].queue, bundler' = bundler,
           \A i \in 1..Len(vm[v].queue) : task'[vm[v].queue[i].build] = task[vm[v].queue[i].build]
    PROVE  NotesMatch(v)'
<1> DEFINE q == vm[v].queue
<1>1. /\ \A i \in 1..Len(q) :
            /\ Owner[q[i].build] = v
            /\ q[i].is = "hop" => task'[q[i].build].request = "hop"
            /\ q[i].is = "done" => /\ task'[q[i].build].stage = "Started"
                                   /\ (bundler'.on = q[i].build => bundler'.pc = "drop")
      /\ \A i, j \in 1..Len(q) :
            q[i].is = "hop" /\ q[j].is = "hop" /\ q[i].build = q[j].build => i = j
  BY DEF NotesMatch
<1> QED
  BY <1>1 DEF NotesMatch

(* A step that changes no build, no queue and no VM's life. *)
LEMMA Calm ==
    ASSUME BuildInv, Types', StartMatches', BundlerMatches', UNCHANGED <<task, items>>,
           bundler'.on = bundler.on,
           \/ bundler'.pc = bundler.pc
           \/ /\ bundler.pc \notin {"post", "drop"}
              /\ \A b \in Builds :
                    bundler.on = b /\ Pending(b) => bundler'.pc \in {"build", "tick", "poll"},
           \A u \in VMs :
              /\ vm'[u].queue = vm[u].queue /\ vm'[u].life = vm[u].life
              /\ vm[u].pc \in {"release", "publish"} =>
                    vm'[u].pc \in {"release", "publish"} /\ vm'[u].on = vm[u].on
              /\ VmMatches(u)' \/ (vm'[u].pc = vm[u].pc /\ vm'[u].on = vm[u].on)
    PROVE  BuildInv'
<1>1. /\ BundlerMatches /\ ItemsMatch /\ bundler \in BundlerRecord
      /\ \A b \in Builds : StageMatches(b) /\ HeldMatches(b) /\ Owner[b] \in VMs
      /\ \A v \in VMs : VmMatches(v) /\ NotesMatch(v) /\ vm[v] \in VmRecord
  BY InvIs
<1>2. ItemsMatch'
  BY <1>1 DEF ItemsMatch
<1>3. ASSUME NEW b \in Builds PROVE StageMatches(b)' /\ HeldMatches(b)'
  <2>1. StageMatches(b)'
    <3>1. task[b].stage = "Releasing" =>
             vm'[Owner[b]].on = vm[Owner[b]].on /\ vm'[Owner[b]].pc \in {"release", "publish"}
      BY <1>1 DEF StageMatches
    <3> QED
      BY <1>1, <3>1, StageKept
  <2>2. HeldMatches(b)'
    <3>1. Noted(b) => Noted(b)'
      BY <1>1 DEF Noted
    <3>2. bundler.on = b /\ Pending(b) => bundler'.on = b /\ bundler'.pc \in {"build", "tick", "poll"}
      BY <1>1 DEF HeldMatches
    <3> QED
      BY <1>1, <3>1, <3>2, HeldKept
  <2> QED
    BY <2>1, <2>2
<1>4. ASSUME NEW v \in VMs PROVE VmMatches(v)' /\ NotesMatch(v)'
  <2>1. VmMatches(v)'
    <3>1. CASE vm'[v].pc = vm[v].pc /\ vm'[v].on = vm[v].on
      <4>1. vm[v].pc \in {"get", "wait", "push"} =>
              bundler'.on # vm[v].on /\ \A i \in 1..Len(items') : items'[i] # vm[v].on
        BY <1>1 DEF VmMatches
      <4> QED
        BY <1>1, <3>1, <4>1, VmKept
    <3> QED
      BY <3>1
  <2>2. NotesMatch(v)'
    <3>1. bundler.pc = "drop" => bundler'.pc = "drop"
      OBVIOUS
    <3> QED
      BY <1>1, <3>1, NotesKept
  <2> QED
    BY <2>1, <2>2
<1> QED
  BY <1>2, <1>3, <1>4 DEF BuildInv

(* Nothing has been built and nobody has asked for the bundle thread. *)
LEMMA BuildInit == Init => BuildInv
<1> SUFFICES ASSUME Init PROVE BuildInv
  OBVIOUS
<1>1. /\ vm = [v \in VMs |-> [life |-> "running", pc |-> "idle", on |-> None, queue |-> <<>>]]
      /\ once = "empty" /\ ready = 0 /\ at = [t \in VMs \cup {Bundler} |-> "idle"] /\ items = <<>>
      /\ waker = [init |-> FALSE, set |-> FALSE]
      /\ bundler = [pc |-> "unborn", on |-> None, cancelled |-> FALSE]
      /\ task = [b \in Builds |-> NewTask]
  BY DEF Init, R!Init, Q!Init, R!Threads, R!UNSET
<1>2. NewTask \in TaskRecord
  BY DEF NewTask, TaskRecord, Stages
<1>3. <<>> \in Seq(Notes) /\ items \in Seq(Builds) /\ Len(items) = 0
  BY <1>1
<1>4. \A v \in VMs : vm[v] \in VmRecord
  BY <1>1, <1>3 DEF VmRecord, Lives, VmLabels
<1>5. bundler \in BundlerRecord
  BY <1>1 DEF BundlerRecord, Free
<1>6. Types
  BY <1>1, <1>2, <1>3, <1>4, <1>5 DEF Types, R!TypeOK, R!Threads, R!UNSET
<1>7. StartMatches /\ BundlerMatches
  BY <1>1, BundleThreadAssumption
  DEF StartMatches, BundlerMatches, R!IS_SET, R!UNSET, Free, Busy, Working
<1>8. ItemsMatch
  BY <1>3 DEF ItemsMatch
<1>9. \A b \in Builds : StageMatches(b) /\ HeldMatches(b)
  BY <1>1, BundleThreadAssumption DEF StageMatches, HeldMatches, NewTask, Pending
<1>10. \A v \in VMs : VmMatches(v) /\ NotesMatch(v)
  BY <1>1 DEF VmMatches, NotesMatch
<1> QED
  BY <1>6, <1>7, <1>8, <1>9, <1>10 DEF BuildInv

-----------------------------------------------------------------------------
(* The start of the bundle thread, and steps that change no build *)

(* ready_event, by whoever waits on it or sets it. *)
LEMMA ReadyMoves ==
    ASSUME BuildInv,
           \/ UNCHANGED <<ready, at>>
           \/ \E v \in VMs : R!WaitCall(v) \/ R!WaitStep(v) \/ R!SpuriousReturn(v)
           \/ R!SetCall(Bundler)
           \/ R!SetStep(Bundler) /\ waker.init
    PROVE  /\ R!TypeOK' /\ (ready' = R!IS_SET => waker.init)
           /\ \A v \in VMs : /\ at'[v] \in {"wait", "asleep", "recheck"} => ready' # R!UNSET
                             /\ at'[v] = "returned" => waker.init
<1>1. /\ R!TypeOK /\ (ready = R!IS_SET => waker.init) /\ Bundler \notin VMs
      /\ \A v \in VMs : /\ at[v] \in {"wait", "asleep", "recheck"} => ready # R!UNSET
                        /\ at[v] = "returned" => waker.init
  BY InvIs, BundleThreadAssumption DEF Types, StartMatches
<1> DEFINE Good == /\ R!TypeOK' /\ (ready' = R!IS_SET => waker.init)
                   /\ \A v \in VMs : /\ at'[v] \in {"wait", "asleep", "recheck"} => ready' # R!UNSET
                                     /\ at'[v] = "returned" => waker.init
<1>2. CASE UNCHANGED <<ready, at>>
  BY <1>1, <1>2 DEF R!TypeOK
<1>3. ASSUME NEW v \in VMs, R!WaitCall(v) \/ R!WaitStep(v) \/ R!SpuriousReturn(v) PROVE Good
  BY <1>1, <1>3
  DEF R!WaitCall, R!WaitStep, R!Announce, R!FutexWait, R!Recheck, R!SpuriousReturn, R!Goto,
      R!TypeOK, R!Threads, R!UNSET, R!WAITING, R!IS_SET
<1>4. CASE R!SetCall(Bundler)
  BY <1>1, <1>4 DEF R!SetCall, R!Goto, R!TypeOK, R!Threads, R!UNSET, R!WAITING, R!IS_SET
<1>5. CASE R!SetStep(Bundler) /\ waker.init
  BY <1>1, <1>5
  DEF R!SetStep, R!SetSwap, R!SetWake, R!Goto, R!TypeOK, R!Threads, R!UNSET, R!WAITING, R!IS_SET
<1> QED
  BY <1>2, <1>3, <1>4, <1>5

(* The waker stays once it is there. *)
LEMMA StartKept ==
    ASSUME BuildInv, Types',
           \/ UNCHANGED <<ready, at>>
           \/ \E v \in VMs : R!WaitCall(v) \/ R!WaitStep(v) \/ R!SpuriousReturn(v)
           \/ R!SetCall(Bundler)
           \/ R!SetStep(Bundler) /\ waker.init,
           waker.init => waker'.init, once' = "empty" => once = "empty" /\ bundler'.pc = bundler.pc,
           bundler'.pc \notin {"unborn", "start"} =>
              waker'.init \/ bundler.pc \notin {"unborn", "start"},
           once' = "complete" => waker.init \/ once = "complete",
           \A v \in VMs : vm'[v].pc \in {"push", "link", "wake"} =>
              waker.init \/ vm[v].pc \in {"push", "link", "wake"}
    PROVE  StartMatches'
<1>1. StartMatches
  BY InvIs
<1>2. /\ ready' = R!IS_SET => waker.init
      /\ \A v \in VMs : /\ at'[v] \in {"wait", "asleep", "recheck"} => ready' # R!UNSET
                        /\ at'[v] = "returned" => waker.init
  BY ReadyMoves
<1> QED
  BY <1>1, <1>2 DEF StartMatches

(* The rest of Types. *)
LEMMA TypesKept ==
    ASSUME BuildInv, vm' \in [VMs -> VmRecord], bundler' \in BundlerRecord,
           task' \in [Builds -> TaskRecord], once' \in {"empty", "running", "complete"},
           \/ UNCHANGED <<ready, at>>
           \/ \E v \in VMs : R!WaitCall(v) \/ R!WaitStep(v) \/ R!SpuriousReturn(v)
           \/ R!SetCall(Bundler)
           \/ R!SetStep(Bundler) /\ waker.init,
           waker' \in [init : BOOLEAN, set : BOOLEAN], items' \in Seq(Builds)
    PROVE  Types'
  BY ReadyMoves DEF Types

(* A move of a VM's thread that changes no build. *)
LEMMA VmGoes ==
    ASSUME BuildInv, NEW v \in VMs, NEW label \in VmLabels, Goto(v, label), UNCHANGED <<task, items>>,
           bundler'.on = bundler.on,
           \/ label = "idle" /\ vm[v].pc \notin {"release", "publish"}
           \/ vm[v].pc = "get" /\ label \in {"wait", "push"}
           \/ vm[v].pc = "wait" /\ label = "push"
           \/ vm[v].pc = "link" /\ label = "wake"
           \/ vm[v].pc = "rouse" /\ vm[v].life = "stopping" /\ label = "cancel"
    PROVE  /\ vm' \in [VMs -> VmRecord] /\ vm'[v].pc = label
           /\ \A u \in VMs : u # v => vm'[u] = vm[u]
           /\ \A u \in VMs :
                /\ vm'[u].queue = vm[u].queue /\ vm'[u].life = vm[u].life
                /\ vm[u].pc \in {"release", "publish"} =>
                      vm'[u].pc \in {"release", "publish"} /\ vm'[u].on = vm[u].on
                /\ VmMatches(u)' \/ (vm'[u].pc = vm[u].pc /\ vm'[u].on = vm[u].on)
<1>1. Types /\ VmMatches(v) /\ vm[v] \in VmRecord
  BY InvIs
<1>b. PICK b \in Builds \cup {None} : b = IF label = "idle" THEN None ELSE vm[v].on
  BY <1>1 DEF VmRecord
<1>2. /\ vm' \in [VMs -> VmRecord] /\ vm'[v].pc = label /\ vm'[v].on = b
      /\ vm'[v].life = vm[v].life /\ vm'[v].queue = vm[v].queue
      /\ \A u \in VMs : u # v => vm'[u] = vm[u]
  BY <1>1, <1>b, VmMoves
<1>3. VmMatches(v)'
  BY <1>1, <1>2, <1>b DEF VmMatches
<1> QED
  BY <1>2, <1>3

(* The loads and waits of singleton::get, the link and the wake of an enqueue,
   and the wake-ups of a pass. *)
LEMMA CalmVm ==
    ASSUME BuildInv, NEW v \in VMs,
           \/ GetReady(v) \/ Spawn(v) \/ WaitReady(v) \/ WaitSpurious(v) \/ SpawnDone(v)
           \/ Link(v) \/ Wake(v) \/ Rouse(v) \/ WakeLoop(v)
    PROVE  BuildInv'
<1>1. /\ Types /\ StartMatches /\ BundlerMatches /\ VmMatches(v) /\ vm[v] \in VmRecord
      /\ None \notin Builds /\ bundler \in BundlerRecord /\ vm \in [VMs -> VmRecord]
      /\ task \in [Builds -> TaskRecord] /\ once \in {"empty", "running", "complete"}
      /\ items \in Seq(Builds) /\ waker \in [init : BOOLEAN, set : BOOLEAN]
  BY InvIs DEF Types
<1>2. CASE WaitReady(v) \/ WaitSpurious(v)
  <2>1. /\ UNCHANGED <<vm, once, waker, items, bundler, task>>
        /\ R!WaitStep(v) \/ R!SpuriousReturn(v)
    BY <1>2 DEF WaitReady, WaitSpurious, queue
  <2>2. Types'
    BY <1>1, <2>1, TypesKept
  <2>3. StartMatches'
    BY <1>1, <2>1, <2>2, StartKept
  <2>4. BundlerMatches'
    BY <1>1, <2>1 DEF BundlerMatches
  <2> QED
    BY <2>1, <2>2, <2>3, <2>4, Calm
<1>3. CASE Spawn(v)
  <2>1. /\ UNCHANGED <<waker, items, task>> /\ R!WaitCall(v) /\ Goto(v, "wait") /\ Bundle("start")
        /\ vm[v].pc = "get" /\ once = "empty" /\ once' = "running" /\ bundler.pc = "unborn"
    BY <1>1, <1>3 DEF Spawn, queue, At, StartMatches
  <2>2. bundler' \in BundlerRecord /\ bundler'.pc = "start" /\ bundler'.on = bundler.on
    BY <1>1, <2>1, BundlerMoves DEF Free
  <2>3. "wait" \in VmLabels
    BY DEF VmLabels
  <2>4. /\ vm' \in [VMs -> VmRecord] /\ vm'[v].pc = "wait"
        /\ \A u \in VMs : u # v => vm'[u] = vm[u]
        /\ \A u \in VMs :
                /\ vm'[u].queue = vm[u].queue /\ vm'[u].life = vm[u].life
                /\ vm[u].pc \in {"release", "publish"} =>
                      vm'[u].pc \in {"release", "publish"} /\ vm'[u].on = vm[u].on
                /\ VmMatches(u)' \/ (vm'[u].pc = vm[u].pc /\ vm'[u].on = vm[u].on)
    BY <2>1, <2>2, <2>3, VmGoes
  <2>5. Types'
    BY <1>1, <2>1, <2>2, <2>4, TypesKept
  <2>6. StartMatches'
    BY <1>1, <2>1, <2>2, <2>4, <2>5, StartKept
  <2>7. BundlerMatches'
    BY <1>1, <2>1, <2>2 DEF BundlerMatches, Free, Busy, Working
  <2>8. \A b \in Builds : bundler.on # b
    BY <1>1, <2>1 DEF BundlerMatches, Free
  <2> QED
    BY <2>1, <2>2, <2>4, <2>5, <2>6, <2>7, <2>8, Calm
<1>4. CASE GetReady(v) \/ SpawnDone(v) \/ Link(v) \/ Wake(v) \/ Rouse(v) \/ WakeLoop(v)
  <2>2. PICK label \in VmLabels :
           /\ Goto(v, label) /\ UNCHANGED <<ready, at, items, bundler, task>>
           /\ waker' = waker \/ waker' = [waker EXCEPT !.set = TRUE]
           /\ \/ once' = once
              \/ once' = "complete" /\ waker.init
           /\ \/ label = "idle" /\ vm[v].pc \notin {"release", "publish"}
              \/ vm[v].pc = "get" /\ label = "push"
              \/ vm[v].pc = "wait" /\ label = "push"
              \/ vm[v].pc = "link" /\ label = "wake"
              \/ vm[v].pc = "rouse" /\ vm[v].life = "stopping" /\ label = "cancel"
           /\ label \in {"push", "wake"} => waker.init
    <3> USE DEF At, queue, VmLabels
    <3>1. CASE GetReady(v)
      BY <1>1, <3>1 DEF GetReady, StartMatches
    <3>2. CASE SpawnDone(v)
      BY <1>1, <3>2 DEF SpawnDone, StartMatches
    <3>3. CASE Link(v)
      BY <1>1, <3>3 DEF Link, StartMatches, Q!Link
    <3>4. CASE Wake(v)
      BY <1>1, <3>4 DEF Wake
    <3>5. CASE Rouse(v)
      BY <1>1, <3>5 DEF Rouse
    <3>6. CASE WakeLoop(v)
      BY <1>1, <3>6 DEF WakeLoop
    <3> QED
      BY <1>4, <3>1, <3>2, <3>3, <3>4, <3>5, <3>6
  <2>3. waker' \in [init : BOOLEAN, set : BOOLEAN] /\ waker'.init = waker.init
    BY <1>1, <2>2
  <2>4. /\ vm' \in [VMs -> VmRecord] /\ vm'[v].pc = label
        /\ \A u \in VMs : u # v => vm'[u] = vm[u]
        /\ \A u \in VMs :
                /\ vm'[u].queue = vm[u].queue /\ vm'[u].life = vm[u].life
                /\ vm[u].pc \in {"release", "publish"} =>
                      vm'[u].pc \in {"release", "publish"} /\ vm'[u].on = vm[u].on
                /\ VmMatches(u)' \/ (vm'[u].pc = vm[u].pc /\ vm'[u].on = vm[u].on)
    BY <2>2, VmGoes
  <2>5. once' \in {"empty", "running", "complete"}
    BY <1>1, <2>2
  <2>6. Types'
    BY <1>1, <2>2, <2>3, <2>4, <2>5, TypesKept
  <2>7. StartMatches'
    <3>1. \A u \in VMs : vm'[u].pc \in {"push", "link", "wake"} =>
             waker.init \/ vm[u].pc \in {"push", "link", "wake"}
      BY <2>2, <2>4
    <3> QED
      BY <1>1, <2>2, <2>3, <2>6, <3>1, StartKept
  <2>8. BundlerMatches'
    BY <1>1, <2>2 DEF BundlerMatches
  <2> QED
    BY <2>2, <2>4, <2>6, <2>7, <2>8, Calm
<1> QED
  BY <1>2, <1>3, <1>4

(* The bundle thread's own steps that change no build, and stuttering. *)
LEMMA CalmBundler ==
    ASSUME BuildInv,
           \/ UNCHANGED vars \/ WriteWaker \/ SetReady \/ SetReadyStep \/ PopEmpty \/ Sleep
           \/ IsDone \/ Poll
           \/ Setup /\ bundler'.pc = "complete"
           \/ Tick /\ task[bundler.on].request # "answered"
           \/ TryStart /\ task[bundler.on].stage # "Queued"
    PROVE  BuildInv'
<1>1. /\ Types /\ StartMatches /\ BundlerMatches /\ bundler \in BundlerRecord
      /\ vm \in [VMs -> VmRecord] /\ task \in [Builds -> TaskRecord]
      /\ once \in {"empty", "running", "complete"}
      /\ items \in Seq(Builds) /\ waker \in [init : BOOLEAN, set : BOOLEAN] /\ None \notin Builds
      /\ \A b \in Builds : /\ StageMatches(b) /\ HeldMatches(b) /\ task[b] \in TaskRecord
  BY InvIs DEF Types
<1> DEFINE Asking == {"build", "tick", "poll"}
<1>2. /\ UNCHANGED <<vm, once, items, task>>
      /\ bundler' \in BundlerRecord /\ bundler'.on = bundler.on
      /\ waker' \in [init : BOOLEAN, set : BOOLEAN] /\ (waker.init => waker'.init)
      /\ \/ UNCHANGED <<ready, at>>
         \/ R!SetCall(Bundler)
         \/ R!SetStep(Bundler) /\ waker.init
      /\ \/ bundler'.pc = bundler.pc
         \/ bundler.pc = "start" /\ bundler'.pc = "set" /\ waker'.init
         \/ bundler.pc \in {"set", "setting", "pop", "sleep"}
              /\ bundler'.pc \in {"setting", "pop", "sleep"}
         \/ bundler.pc = "claim" /\ bundler'.pc = "unstarted"
              /\ (bundler.on \in Builds => task[bundler.on].stage # "Queued")
         \/ bundler.pc = "setup" /\ bundler'.pc = "complete"
         \/ bundler.pc \in Asking /\ bundler'.pc \in Asking
         \/ bundler.pc = "build" /\ bundler'.pc = "complete" /\ ~Pending(bundler.on)
  <2> USE DEF queue, Free, Busy, Working
  <2>1. CASE UNCHANGED vars
    BY <1>1, <2>1 DEF vars
  <2>2. CASE WriteWaker
    <3>1. Bundle("set") /\ waker' = [init |-> TRUE, set |-> FALSE] /\ bundler.pc = "start"
      BY <2>2 DEF WriteWaker
    <3> QED
      BY <1>1, <2>2, <3>1, BundlerMoves DEF WriteWaker
  <2>3. CASE SetReady
    BY <1>1, <2>3, BundlerMoves DEF SetReady
  <2>4. CASE SetReadyStep
    <3>1. PICK label \in {"pop", "setting"} : Bundle(label)
      BY <2>4 DEF SetReadyStep
    <3>2. waker.init /\ R!SetStep(Bundler) /\ UNCHANGED <<vm, once, waker, items, task>>
      BY <1>1, <2>4 DEF SetReadyStep, StartMatches
    <3> QED
      BY <1>1, <2>4, <3>1, <3>2, BundlerMoves DEF SetReadyStep
  <2>5. CASE PopEmpty
    BY <1>1, <2>5, BundlerMoves DEF PopEmpty, Q!PopEmpty
  <2>6. CASE Sleep
    <3>1. Bundle("pop") /\ waker' = [waker EXCEPT !.set = FALSE] /\ bundler.pc = "sleep"
      BY <2>6 DEF Sleep
    <3> QED
      BY <1>1, <2>6, <3>1, BundlerMoves DEF Sleep
  <2>7. CASE IsDone
    <3>1. /\ bundler.pc = "build" /\ UNCHANGED <<vm, once, ready, at, waker, items, task>>
          /\ bundler' = [bundler EXCEPT !.cancelled = @ \/ task[bundler.on].cancelled,
                                        !.pc = IF Pending(bundler.on) THEN "tick" ELSE "complete"]
      BY <2>7 DEF IsDone
    <3>2. bundler.cancelled \in BOOLEAN /\ bundler.on \in Builds
      BY <1>1, <3>1 DEF BundlerRecord, BundlerMatches
    <3>3. (bundler.cancelled \/ task[bundler.on].cancelled) \in BOOLEAN
      OBVIOUS
    <3> QED
      BY <1>1, <3>1, <3>2, <3>3 DEF BundlerRecord
  <2>8. CASE Poll
    BY <1>1, <2>8, BundlerMoves DEF Poll
  <2>9. CASE Setup /\ bundler'.pc = "complete"
    <3>1. Bundle("complete") /\ task' = task
      BY <1>1, <2>9 DEF Setup, BundlerRecord
    <3> QED
      BY <1>1, <2>9, <3>1, BundlerMoves DEF Setup
  <2>10. CASE Tick /\ task[bundler.on].request # "answered"
    BY <1>1, <2>10, BundlerMoves DEF Tick
  <2>11. CASE TryStart /\ task[bundler.on].stage # "Queued"
    <3>1. /\ Bundle("unstarted") /\ bundler.pc = "claim"
          /\ UNCHANGED <<vm, once, ready, at, waker, items, task>>
      BY <2>11 DEF TryStart
    <3> QED
      BY <1>1, <2>11, <3>1, BundlerMoves
  <2> QED
    BY <2>1, <2>2, <2>3, <2>4, <2>5, <2>6, <2>7, <2>8, <2>9, <2>10, <2>11
<1>3. Types'
  BY <1>1, <1>2, TypesKept
<1>4. StartMatches'
  <2>1. once' = "empty" => once = "empty" /\ bundler'.pc = bundler.pc
    BY <1>1, <1>2 DEF StartMatches
  <2>2. bundler'.pc \notin {"unborn", "start"} => waker'.init \/ bundler.pc \notin {"unborn", "start"}
    BY <1>2
  <2> QED
    BY <1>1, <1>2, <1>3, <2>1, <2>2, StartKept
<1>5. BundlerMatches'
  <2>1. /\ bundler.pc \in Free \cup Busy /\ bundler.on \in Builds \cup {None}
        /\ \A b \in Builds : task[b].stage \in Stages
    BY <1>1 DEF BundlerRecord, TaskRecord
  <2> QED
    BY <1>1, <1>2, <2>1 DEF BundlerMatches, Free, Busy, Working, Stages
<1>6. bundler'.pc = bundler.pc \/ (bundler.pc \notin {"post", "drop"} /\
         \A b \in Builds : bundler.on = b /\ Pending(b) => bundler'.pc \in Asking)
  BY <1>1, <1>2 DEF HeldMatches
<1> QED
  BY <1>2, <1>3, <1>4, <1>5, <1>6, Calm

-----------------------------------------------------------------------------
(* The bundle thread and the build in its hands *)

(* Builds other than b, when b is the one in hand. *)
LEMMA OthersKept ==
    ASSUME BuildInv, NEW b \in Builds, bundler.on \in {b, None},
           \A c \in Builds : c # b => task'[c] = task[c] /\ (Noted(c) => Noted(c)'),
           \A u \in VMs : /\ vm'[u].life = vm[u].life /\ vm'[u].pc = vm[u].pc
                          /\ vm'[u].on = vm[u].on
    PROVE  \A c \in Builds : c # b => StageMatches(c)' /\ HeldMatches(c)'
<1> SUFFICES ASSUME NEW c \in Builds, c # b PROVE StageMatches(c)' /\ HeldMatches(c)'
  OBVIOUS
<1>1. StageMatches(c) /\ HeldMatches(c) /\ Owner[c] \in VMs /\ bundler.on # c
  BY InvIs
<1>2. task[c].stage = "Releasing" => vm[Owner[c]].pc \in {"release", "publish"}
  BY <1>1 DEF StageMatches
<1>3. StageMatches(c)'
  BY <1>1, <1>2, StageKept
<1>4. HeldMatches(c)'
  BY <1>1, HeldKept
<1> QED
  BY <1>3, <1>4

(* The VMs' threads, when the bundle thread changes b. *)
LEMMA VmsKept ==
    ASSUME BuildInv, NEW b \in Builds, bundler.on = b, bundler'.on \in {b, None}, items' = items,
           \A c \in Builds : c # b => task'[c] = task[c],
           \A u \in VMs : /\ vm'[u].life = vm[u].life /\ vm'[u].pc = vm[u].pc
                          /\ vm'[u].on = vm[u].on,
           task'[b].mem = task[b].mem \/ task[b].stage = "ReleasedUnstarted",
           \/ task'[b].stage = task[b].stage
           \/ task[b].stage = "Queued" /\ task'[b].stage = "Started",
           task[b].stage = "Releasing" => task'[b] = task[b]
    PROVE  \A u \in VMs : VmMatches(u)'
<1> SUFFICES ASSUME NEW u \in VMs PROVE VmMatches(u)'
  OBVIOUS
<1>1. VmMatches(u) /\ vm[u] \in VmRecord /\ None \notin Builds
  BY InvIs
<1>2. vm[u].pc \in {"get", "wait", "push"} =>
        bundler'.on # vm[u].on /\ \A i \in 1..Len(items') : items'[i] # vm[u].on
  BY <1>1 DEF VmMatches
<1>3. CASE vm[u].on # b
  <2>1. vm[u].pc \notin {"idle", "wake"} => task'[vm[u].on] = task[vm[u].on]
    BY <1>1, <1>3 DEF VmMatches
  <2> QED
    BY <1>1, <1>2, <2>1, VmKept
<1>4. CASE vm[u].on = b
  BY <1>1, <1>2, <1>4 DEF VmMatches
<1> QED
  BY <1>3, <1>4

(* A step of the bundle thread on its build that posts nothing. *)
LEMMA AtBuild ==
    ASSUME BuildInv, NEW b \in Builds, bundler.on = b, bundler' \in BundlerRecord,
           bundler'.on \in {b, None}, bundler'.pc \notin {"unborn", "start"},
           NEW r \in TaskRecord, task' = [task EXCEPT ![b] = r],
           UNCHANGED <<vm, once, ready, at, waker, items>>,
           r.mem = task[b].mem \/ task[b].stage = "ReleasedUnstarted",
           r.stage = task[b].stage \/ (task[b].stage = "Queued" /\ r.stage = "Started"),
           task[b].stage = "Releasing" => r = task[b],
           task[b].request = "hop" => r.request = "hop",
           bundler.pc = "drop" => bundler'.on = None,
           BundlerMatches', StageMatches(b)', HeldMatches(b)'
    PROVE  BuildInv'
<1>1. /\ Types /\ StartMatches /\ BundlerMatches /\ ItemsMatch /\ None \notin Builds
      /\ \A u \in VMs : NotesMatch(u) /\ vm[u] \in VmRecord
      /\ vm \in [VMs -> VmRecord] /\ task \in [Builds -> TaskRecord]
      /\ once \in {"empty", "running", "complete"}
      /\ items \in Seq(Builds) /\ waker \in [init : BOOLEAN, set : BOOLEAN]
  BY InvIs DEF Types
<1>2. /\ task' \in [Builds -> TaskRecord] /\ task'[b] = r
      /\ \A c \in Builds : c # b => task'[c] = task[c]
  BY <1>1
<1>3. Types'
  BY <1>1, <1>2, TypesKept
<1>4. StartMatches'
  <2>1. bundler.pc \notin {"unborn", "start"}
    BY <1>1 DEF BundlerMatches, Free
  <2>2. once # "empty"
    BY <1>1, <2>1 DEF StartMatches
  <2> QED
    BY <1>1, <1>3, <2>1, <2>2, StartKept
<1>5. ItemsMatch'
  <2>1. \A i \in 1..Len(items) : items[i] \in Builds /\ items[i] # b
    BY <1>1 DEF ItemsMatch
  <2> QED
    BY <1>1, <1>2, <2>1 DEF ItemsMatch
<1>6. \A c \in Builds : StageMatches(c)' /\ HeldMatches(c)'
  <2>1. \A c \in Builds : Noted(c) => Noted(c)'
    BY DEF Noted
  <2>2. \A c \in Builds : c # b => StageMatches(c)' /\ HeldMatches(c)'
    BY <1>2, <2>1, OthersKept
  <2> QED
    BY <2>2
<1>7. \A u \in VMs : VmMatches(u)'
  BY <1>2, VmsKept
<1>8. ASSUME NEW u \in VMs PROVE NotesMatch(u)'
  <2>1. \A c \in Builds :
            /\ task[c].request = "hop" => task'[c].request = "hop"
            /\ task[c].stage = "Started" => task'[c].stage = "Started"
            /\ task[c].stage = "Started" /\ bundler'.on = c =>
                 bundler.on = c /\ (bundler.pc = "drop" => bundler'.pc = "drop")
    BY <1>1, <1>2
  <2> QED
    BY <1>1, <2>1, NotesKept
<1> QED
  BY <1>3, <1>4, <1>5, <1>6, <1>7, <1>8 DEF BuildInv

(* What the bundle thread has in hand, by where it is. *)
LEMMA InHandIs ==
    ASSUME BuildInv, bundler.pc \in Busy
    PROVE  \E b \in Builds :
              /\ bundler.on = b /\ task[b] \in TaskRecord /\ StageMatches(b) /\ HeldMatches(b)
              /\ task \in [Builds -> TaskRecord] /\ None \notin Builds
              /\ None # "task" /\ None # "thread"
<1>1. /\ BundlerMatches /\ bundler \in BundlerRecord /\ None \notin Builds
      /\ task \in [Builds -> TaskRecord] /\ None # "task" /\ None # "thread"
      /\ \A b \in Builds : StageMatches(b) /\ HeldMatches(b)
  BY InvIs DEF Types
<1>2. bundler.on \in Builds
  BY <1>1 DEF BundlerMatches, BundlerRecord, Free, Busy, Working
<1> QED
  BY <1>1, <1>2

(* try_start: the stage goes from Queued to Started, and with it the build is the
   bundle thread's to finish. *)
LEMMA AtTryStart ==
    ASSUME BuildInv, TryStart, task[bundler.on].stage = "Queued" PROVE BuildInv'
<1>1. bundler.pc = "claim" /\ bundler.pc \in Busy /\ BundlerMatches /\ bundler \in BundlerRecord
  BY InvIs DEF TryStart, Busy
<1>2. PICK b \in Builds :
         /\ bundler.on = b /\ task[b] \in TaskRecord /\ StageMatches(b) /\ HeldMatches(b)
         /\ task \in [Builds -> TaskRecord] /\ None \notin Builds
         /\ None # "task" /\ None # "thread"
  BY <1>1, InHandIs
<1> DEFINE r == [task[b] EXCEPT !.stage = "Started"]
<1>3. /\ r \in TaskRecord /\ r.mem = task[b].mem /\ r.stage = "Started" /\ r.js = task[b].js
      /\ r.ticket = task[b].ticket /\ r.registered = task[b].registered
      /\ r.request = task[b].request
  BY <1>2 DEF TaskRecord, Stages
<1>4. /\ task' = [task EXCEPT ![b] = r] /\ Bundle("setup")
      /\ UNCHANGED <<vm, once, ready, at, waker, items>>
  BY <1>2 DEF TryStart, queue
<1>5. bundler' \in BundlerRecord /\ bundler'.pc = "setup" /\ bundler'.on = b
  BY <1>2, <1>4, InvIs, BundlerMoves DEF Busy, Working
<1> HIDE DEF r
<1>6. task'[b] = r
  BY <1>2, <1>4
<1>7. task[b].mem = "live" /\ task[b].ticket = "task" /\ task[b].request = "none"
  BY <1>1, <1>2 DEF BundlerMatches, StageMatches, Busy
<1>8. BundlerMatches'
  BY <1>2, <1>3, <1>5, <1>6, <1>7 DEF BundlerMatches, Free, Busy, Working
<1>9. StageMatches(b)'
  BY <1>2, <1>3, <1>5, <1>6, <1>7 DEF StageMatches
<1>10. HeldMatches(b)'
  BY <1>2, <1>3, <1>4, <1>5, <1>6, <1>7 DEF HeldMatches, Pending, Noted
<1> QED
  BY <1>1, <1>2, <1>3, <1>4, <1>5, <1>7, <1>8, <1>9, <1>10, AtBuild

(* free_released_unstarted: the owner is done with it. *)
LEMMA AtFree == ASSUME BuildInv, FreeReleasedUnstarted PROVE BuildInv'
<1>1. /\ bundler.pc = "unstarted" /\ bundler.pc \in Busy /\ BundlerMatches
      /\ bundler \in BundlerRecord
  BY InvIs DEF FreeReleasedUnstarted, Busy
<1>2. PICK b \in Builds :
         /\ bundler.on = b /\ task[b] \in TaskRecord /\ StageMatches(b) /\ HeldMatches(b)
         /\ task \in [Builds -> TaskRecord] /\ None \notin Builds
         /\ None # "task" /\ None # "thread"
  BY <1>1, InHandIs
<1> DEFINE r == [task[b] EXCEPT !.mem = "freed"]
<1>3. /\ r \in TaskRecord /\ r.mem = "freed" /\ r.stage = task[b].stage /\ r.js = task[b].js
      /\ r.ticket = task[b].ticket /\ r.registered = task[b].registered
      /\ r.request = task[b].request
  BY <1>2 DEF TaskRecord
<1>4. /\ task' = [task EXCEPT ![b] = r] /\ task[b].stage = "ReleasedUnstarted"
      /\ bundler' = [bundler EXCEPT !.pc = "pop", !.on = None, !.cancelled = FALSE]
      /\ UNCHANGED <<vm, once, ready, at, waker, items>>
  BY <1>2 DEF FreeReleasedUnstarted, queue
<1>5. bundler' \in BundlerRecord /\ bundler'.pc = "pop" /\ bundler'.on = None
  BY <1>1, <1>4 DEF BundlerRecord, Free
<1> HIDE DEF r
<1>6. task'[b] = r
  BY <1>2, <1>4
<1>7. BundlerMatches'
  BY <1>5 DEF BundlerMatches, Free, Busy, Working
<1>8. StageMatches(b)'
  BY <1>2, <1>3, <1>4, <1>6 DEF StageMatches
<1>9. HeldMatches(b)'
  BY <1>2, <1>3, <1>4, <1>6 DEF HeldMatches, StageMatches, Pending
<1> QED
  BY <1>1, <1>2, <1>3, <1>4, <1>5, <1>7, <1>8, <1>9, AtBuild

(* The steps of a pass on the task itself: its loop, a question the pass answers
   itself, an answer it takes, and at the end the ticket it moves out. *)
LEMMA AtPass ==
    ASSUME BuildInv,
           \/ Setup /\ bundler'.pc = "build"
           \/ Dispatch /\ bundler.cancelled
           \/ Tick /\ task[bundler.on].request = "answered"
           \/ Complete
    PROVE  BuildInv'
<1>1. /\ bundler.pc \in Working /\ bundler.pc \in Busy /\ BundlerMatches
      /\ bundler \in BundlerRecord
  BY InvIs DEF Setup, Dispatch, Tick, Complete, Busy, Working
<1>2. PICK b \in Builds :
         /\ bundler.on = b /\ task[b] \in TaskRecord /\ StageMatches(b) /\ HeldMatches(b)
         /\ task \in [Builds -> TaskRecord] /\ None \notin Builds
         /\ None # "task" /\ None # "thread"
  BY <1>1, InHandIs
<1>3. task[b].stage = "Started" /\ task[b].ticket = "task" /\ task[b].mem = "live"
  BY <1>1, <1>2 DEF BundlerMatches, Busy, Working
<1> DEFINE Effect(r) ==
      /\ task' = [task EXCEPT ![b] = r] /\ r.mem = task[b].mem /\ r.stage = task[b].stage
      /\ r.js = task[b].js /\ r.registered = task[b].registered
      /\ \/ r.ticket = "task" /\ r.request = task[b].request /\ bundler.pc = "setup"
              /\ bundler'.pc = "build"
         \/ r.ticket = "task" /\ bundler'.pc = "build" /\ bundler.pc \in {"build", "tick"}
              /\ r.request \in {"answered", "consumed"} /\ task[b].request # "hop"
         \/ r.ticket = "thread" /\ r.request = task[b].request /\ bundler.pc = "complete"
              /\ bundler'.pc = "post"
<1>4. /\ UNCHANGED <<vm, once, ready, at, waker, items>>
      /\ bundler' \in BundlerRecord /\ bundler'.on = b
      /\ \E r \in TaskRecord : Effect(r)
  <2> USE DEF queue
  <2>1. CASE Setup /\ bundler'.pc = "build"
    <3>1. /\ task' = [task EXCEPT ![b].loop = TRUE] /\ bundler.pc = "setup"
          /\ bundler' = [bundler EXCEPT !.pc = "build", !.cancelled = FALSE]
          /\ UNCHANGED <<vm, once, ready, at, waker, items>>
      BY <1>1, <1>2, <2>1 DEF Setup, Bundle, BundlerRecord
    <3> DEFINE r == [task[b] EXCEPT !.loop = TRUE]
    <3>2. r \in TaskRecord /\ Effect(r)
      BY <1>2, <1>3, <2>1, <3>1 DEF TaskRecord
    <3> QED
      BY <1>1, <1>2, <3>1, <3>2 DEF BundlerRecord, Busy, Working
  <2>2. CASE Dispatch /\ bundler.cancelled
    <3>1. /\ task' = [task EXCEPT ![b].request = "answered"] /\ bundler.pc = "build"
          /\ task[b].request = "none"
          /\ UNCHANGED <<vm, once, ready, at, waker, items, bundler>>
      BY <1>2, <2>2 DEF Dispatch
    <3> DEFINE r == [task[b] EXCEPT !.request = "answered"]
    <3>2. r \in TaskRecord /\ Effect(r)
      BY <1>2, <1>3, <3>1 DEF TaskRecord
    <3> QED
      BY <1>1, <1>2, <3>1, <3>2
  <2>3. CASE Tick /\ task[bundler.on].request = "answered"
    <3>1. /\ task' = [task EXCEPT ![b].request = "consumed"] /\ bundler.pc = "tick"
          /\ task[b].request = "answered" /\ Bundle("build")
          /\ UNCHANGED <<vm, once, ready, at, waker, items>>
      BY <1>2, <2>3 DEF Tick
    <3>2. bundler' \in BundlerRecord /\ bundler'.pc = "build" /\ bundler'.on = b
      BY <1>2, <3>1, InvIs, BundlerMoves DEF Busy, Working
    <3> DEFINE r == [task[b] EXCEPT !.request = "consumed"]
    <3>3. r \in TaskRecord /\ Effect(r)
      BY <1>2, <1>3, <3>1, <3>2 DEF TaskRecord
    <3> QED
      BY <3>1, <3>2, <3>3
  <2>4. CASE Complete
    <3>1. /\ task' = [task EXCEPT ![b].loop = FALSE, ![b].ticket = "thread"]
          /\ bundler.pc = "complete" /\ Bundle("post")
          /\ UNCHANGED <<vm, once, ready, at, waker, items>>
      BY <1>2, <2>4 DEF Complete
    <3>2. bundler' \in BundlerRecord /\ bundler'.pc = "post" /\ bundler'.on = b
      BY <1>2, <3>1, InvIs, BundlerMoves DEF Busy, Working
    <3> DEFINE r == [task[b] EXCEPT !.loop = FALSE, !.ticket = "thread"]
    <3>3. r \in TaskRecord /\ Effect(r)
      BY <1>2, <1>3, <3>1, <3>2 DEF TaskRecord
    <3> QED
      BY <3>1, <3>2, <3>3
  <2> QED
    BY <2>1, <2>2, <2>3, <2>4
<1>5. PICK r \in TaskRecord : Effect(r)
  BY <1>4
<1>6. task'[b] = r
  BY <1>2, <1>5
<1>7. BundlerMatches'
  BY <1>2, <1>3, <1>4, <1>5, <1>6 DEF BundlerMatches, Free, Busy, Working
<1>8. StageMatches(b)'
  BY <1>2, <1>3, <1>4, <1>5, <1>6 DEF StageMatches
<1>9. HeldMatches(b)'
  <2>1. vm'[Owner[b]].life # "closed"
    BY <1>2, <1>3, <1>4 DEF HeldMatches
  <2> QED
    BY <1>2, <1>3, <1>4, <1>5, <1>6, <2>1 DEF HeldMatches, Pending, Noted
<1>10. bundler'.pc \notin {"unborn", "start"} /\ bundler.pc # "drop"
  BY <1>5
<1> QED
  BY <1>2, <1>3, <1>4, <1>5, <1>7, <1>8, <1>9, <1>10, AtBuild

(* The ticket is dropped last: a build with a JavaScript side has its note by then. *)
LEMMA AtDrop == ASSUME BuildInv, DropTicket PROVE BuildInv'
<1>1. /\ bundler.pc = "drop" /\ bundler.pc \in Busy /\ BundlerMatches
      /\ bundler \in BundlerRecord
  BY InvIs DEF DropTicket, Busy
<1>2. PICK b \in Builds :
         /\ bundler.on = b /\ task[b] \in TaskRecord /\ StageMatches(b) /\ HeldMatches(b)
         /\ task \in [Builds -> TaskRecord] /\ None \notin Builds
         /\ None # "task" /\ None # "thread"
  BY <1>1, InHandIs
<1>3. task[b].stage = "Started" /\ task[b].ticket = "thread"
  BY <1>1, <1>2 DEF BundlerMatches
<1> DEFINE r == [task[b] EXCEPT !.ticket = None]
<1>4. /\ r \in TaskRecord /\ r.mem = task[b].mem /\ r.stage = task[b].stage /\ r.js = task[b].js
      /\ r.ticket = None /\ r.registered = task[b].registered /\ r.request = task[b].request
  BY <1>2 DEF TaskRecord
<1>5. /\ task' = [task EXCEPT ![b] = r]
      /\ bundler' = [bundler EXCEPT !.pc = "pop", !.on = None, !.cancelled = FALSE]
      /\ UNCHANGED <<vm, once, ready, at, waker, items>>
  BY <1>2 DEF DropTicket, queue
<1>6. bundler' \in BundlerRecord /\ bundler'.pc = "pop" /\ bundler'.on = None
  BY <1>1, <1>5 DEF BundlerRecord, Free
<1> HIDE DEF r
<1>7. task'[b] = r
  BY <1>2, <1>5
<1>8. BundlerMatches'
  BY <1>6 DEF BundlerMatches, Free, Busy, Working
<1>9. StageMatches(b)'
  BY <1>2, <1>3, <1>4, <1>7 DEF StageMatches
<1>10. HeldMatches(b)'
  BY <1>1, <1>2, <1>3, <1>4, <1>5, <1>7 DEF HeldMatches, Pending, Noted
<1> QED
  BY <1>2, <1>3, <1>4, <1>5, <1>6, <1>8, <1>9, <1>10, AtBuild

(* Ticket::post appends a note to the queue of the build's VM. *)
LEMMA Posted ==
    ASSUME BuildInv, NEW b \in Builds, NEW what \in {"hop", "done"}, Post(b, what)
    PROVE  /\ vm' \in [VMs -> VmRecord]
           /\ vm'[Owner[b]].queue = Append(vm[Owner[b]].queue, [build |-> b, is |-> what])
           /\ \A u \in VMs : /\ vm'[u].life = vm[u].life /\ vm'[u].pc = vm[u].pc
                             /\ vm'[u].on = vm[u].on
           /\ \A u \in VMs : u # Owner[b] => vm'[u] = vm[u]
           /\ \A c \in Builds : Noted(c) => Noted(c)'
           /\ what = "done" => Noted(b)'
<1>1. vm \in [VMs -> VmRecord] /\ \A c \in Builds : Owner[c] \in VMs
  BY InvIs DEF Types
<1> DEFINE v == Owner[b]
           q == Append(vm[v].queue, [build |-> b, is |-> what])
           r == [vm[v] EXCEPT !.queue = q]
<1>2. v \in VMs /\ vm[v] \in VmRecord /\ vm[v].queue \in Seq(Notes)
  BY <1>1, NoteIs
<1>3. [build |-> b, is |-> what] \in Notes
  BY DEF Notes
<1>4. /\ q \in Seq(Notes) /\ Len(q) = Len(vm[v].queue) + 1
      /\ q[Len(q)] = [build |-> b, is |-> what]
      /\ \A i \in 1..Len(vm[v].queue) : q[i] = vm[v].queue[i]
  BY <1>2, <1>3
<1> HIDE DEF q
<1>5. /\ r \in VmRecord /\ r.queue = q /\ r.life = vm[v].life /\ r.pc = vm[v].pc
      /\ r.on = vm[v].on
  BY <1>2, <1>4 DEF VmRecord
<1>6. vm' = [vm EXCEPT ![v] = r]
  BY <1>1 DEF Post, q
<1> HIDE DEF r
<1>7. /\ vm' \in [VMs -> VmRecord] /\ vm'[v] = r
      /\ \A u \in VMs : u # v => vm'[u] = vm[u]
  BY <1>1, <1>2, <1>5, <1>6
<1>8. \A c \in Builds : Noted(c) => Noted(c)'
  <2> SUFFICES ASSUME NEW c \in Builds, Noted(c) PROVE Noted(c)'
    OBVIOUS
  <2>1. CASE Owner[c] # v
    BY <1>1, <1>7, <2>1 DEF Noted
  <2>2. CASE Owner[c] = v
    <3>1. PICK i \in 1..Len(vm[v].queue) : vm[v].queue[i] = [build |-> c, is |-> "done"]
      BY <2>2 DEF Noted
    <3>2. i \in 1..Len(q) /\ q[i] = [build |-> c, is |-> "done"]
      BY <1>2, <1>4, <3>1
    <3> QED
      BY <1>5, <1>7, <2>2, <3>2 DEF Noted
  <2> QED
    BY <2>1, <2>2
<1>9. what = "done" => Noted(b)'
  <2>1. Len(q) \in 1..Len(q)
    BY <1>2, <1>4
  <2> QED
    BY <1>4, <1>5, <1>7, <2>1 DEF Noted
<1> QED
  BY <1>5, <1>7, <1>8, <1>9 DEF q

(* The note that is appended means what it says. *)
LEMMA NotesAppended ==
    ASSUME BuildInv, NEW b \in Builds, NEW what \in {"hop", "done"}, Post(b, what),
           bundler'.on = bundler.on, bundler.pc = "drop" => bundler'.pc = "drop",
           \A c \in Builds : /\ task'[c].stage = task[c].stage
                             /\ task[c].request = "hop" => task'[c].request = "hop",
           what = "hop" => task[b].request = "none" /\ task'[b].request = "hop",
           what = "done" => task[b].stage = "Started" /\ bundler'.pc = "drop"
    PROVE  \A u \in VMs : NotesMatch(u)'
<1> SUFFICES ASSUME NEW u \in VMs PROVE NotesMatch(u)'
  OBVIOUS
<1>1. NotesMatch(u) /\ vm[u] \in VmRecord
  BY InvIs
<1>2. /\ vm'[Owner[b]].queue = Append(vm[Owner[b]].queue, [build |-> b, is |-> what])
      /\ \A w \in VMs : w # Owner[b] => vm'[w] = vm[w]
  BY Posted
<1>3. CASE u # Owner[b]
  BY <1>1, <1>2, <1>3, NotesKept
<1>4. CASE u = Owner[b]
  <2> DEFINE q == vm[u].queue
             p == vm'[u].queue
             note == [build |-> b, is |-> what]
  <2>1. q \in Seq(Notes) /\ \A i \in 1..Len(q) : q[i].build \in Builds
    BY <1>1, NoteIs
  <2>2. note \in Notes /\ note.build = b /\ note.is = what
    BY DEF Notes
  <2>3. p = Append(q, note)
    BY <1>2, <1>4
  <2> HIDE DEF note, p
  <2>4. /\ Len(p) = Len(q) + 1 /\ Len(q) \in Nat /\ p[Len(q) + 1] = note
        /\ \A i \in 1..Len(q) : p[i] = q[i]
    BY <2>1, <2>2, <2>3
  <2>5. \A i \in 1..Len(p) : i \in 1..Len(q) \/ i = Len(q) + 1
    BY <2>4
  <2>6. /\ \A i \in 1..Len(q) : /\ Owner[q[i].build] = u
                                /\ q[i].is = "hop" => task[q[i].build].request = "hop"
                                /\ q[i].is = "done" => /\ task[q[i].build].stage = "Started"
                                                       /\ (bundler.on = q[i].build => bundler.pc = "drop")
        /\ \A i, j \in 1..Len(q) :
              q[i].is = "hop" /\ q[j].is = "hop" /\ q[i].build = q[j].build => i = j
    BY <1>1 DEF NotesMatch
  <2> HIDE DEF q
  <2>7. ASSUME NEW i \in 1..Len(p)
        PROVE  /\ Owner[p[i].build] = u
               /\ p[i].is = "hop" => task'[p[i].build].request = "hop"
               /\ p[i].is = "done" => /\ task'[p[i].build].stage = "Started"
                                      /\ (bundler'.on = p[i].build => bundler'.pc = "drop")
    <3>1. CASE i \in 1..Len(q)
      BY <2>1, <2>4, <2>6, <3>1
    <3>2. CASE i = Len(q) + 1
      BY <1>4, <2>2, <2>4, <3>2
    <3> QED
      BY <2>5, <3>1, <3>2
  <2>8. ASSUME NEW i \in 1..Len(p), NEW j \in 1..Len(p),
               p[i].is = "hop", p[j].is = "hop", p[i].build = p[j].build
        PROVE  i = j
    <3>1. ASSUME NEW k \in 1..Len(q), p[k].is = "hop", what = "hop" PROVE p[k].build # b
      BY <2>4, <2>6, <3>1
    <3>2. CASE i \in 1..Len(q) /\ j \in 1..Len(q)
      BY <2>4, <2>6, <2>8, <3>2
    <3>3. CASE i = Len(q) + 1 /\ j \in 1..Len(q)
      BY <2>2, <2>4, <2>8, <3>1, <3>3
    <3>4. CASE i \in 1..Len(q) /\ j = Len(q) + 1
      BY <2>2, <2>4, <2>8, <3>1, <3>4
    <3> QED
      BY <2>5, <3>2, <3>3, <3>4
  <2> QED
    BY <2>7, <2>8 DEF NotesMatch, p
<1> QED
  BY <1>3, <1>4

(* A step of the bundle thread that posts: a question to a plugin, or the end of
   the build. *)
LEMMA AtPost ==
    ASSUME BuildInv, (Dispatch /\ ~bundler.cancelled) \/ PostDone PROVE BuildInv'
<1>1. /\ bundler.pc \in Busy /\ BundlerMatches /\ Types /\ StartMatches /\ ItemsMatch
      /\ bundler \in BundlerRecord
      /\ once \in {"empty", "running", "complete"}
      /\ items \in Seq(Builds) /\ waker \in [init : BOOLEAN, set : BOOLEAN]
  BY InvIs DEF Dispatch, PostDone, Busy, Working, Types
<1>2. PICK b \in Builds :
         /\ bundler.on = b /\ task[b] \in TaskRecord /\ StageMatches(b) /\ HeldMatches(b)
         /\ task \in [Builds -> TaskRecord] /\ None \notin Builds
         /\ None # "task" /\ None # "thread"
  BY <1>1, InHandIs
<1> DEFINE Effect(r, what) ==
      /\ task' = [task EXCEPT ![b] = r] /\ Post(b, what) /\ r.mem = task[b].mem
      /\ r.stage = task[b].stage /\ r.ticket = task[b].ticket
      /\ r.js = task[b].js /\ r.registered = task[b].registered
      /\ \/ what = "hop" /\ bundler.pc = "build" /\ bundler'.pc = "build"
              /\ task[b].request = "none" /\ r.request = "hop"
         \/ what = "done" /\ bundler.pc = "post" /\ bundler'.pc = "drop"
              /\ r.request = task[b].request
<1>3. /\ UNCHANGED <<once, ready, at, waker, items>>
      /\ bundler' \in BundlerRecord /\ bundler'.on = b
      /\ \E r \in TaskRecord, what \in {"hop", "done"} : Effect(r, what)
  <2>1. CASE Dispatch /\ ~bundler.cancelled
    <3>1. /\ task' = [task EXCEPT ![b].request = "hop"] /\ bundler.pc = "build"
          /\ task[b].request = "none" /\ Post(b, "hop")
          /\ UNCHANGED <<once, ready, at, waker, items, bundler>>
      BY <1>2, <2>1 DEF Dispatch, queue
    <3> DEFINE r == [task[b] EXCEPT !.request = "hop"]
    <3>2. r \in TaskRecord /\ Effect(r, "hop")
      BY <1>2, <3>1 DEF TaskRecord
    <3> QED
      BY <1>1, <1>2, <3>1, <3>2
  <2>2. CASE PostDone
    <3>1. /\ task' = task /\ bundler.pc = "post" /\ Post(b, "done") /\ Bundle("drop")
          /\ UNCHANGED <<once, ready, at, waker, items>>
      BY <1>2, <2>2 DEF PostDone, queue
    <3>2. bundler' \in BundlerRecord /\ bundler'.pc = "drop" /\ bundler'.on = b
      BY <1>1, <1>2, <3>1, BundlerMoves DEF Busy
    <3>3. task' = [task EXCEPT ![b] = task[b]]
      BY <1>2, <3>1
    <3>4. Effect(task[b], "done")
      BY <3>1, <3>2, <3>3
    <3> QED
      BY <1>2, <3>1, <3>2, <3>4
  <2> QED
    BY <2>1, <2>2
<1>4. PICK r \in TaskRecord, what \in {"hop", "done"} : Effect(r, what)
  BY <1>3
<1>5. /\ vm' \in [VMs -> VmRecord]
      /\ \A u \in VMs : vm'[u].life = vm[u].life /\ vm'[u].pc = vm[u].pc /\ vm'[u].on = vm[u].on
      /\ \A c \in Builds : Noted(c) => Noted(c)'
      /\ what = "done" => Noted(b)'
  BY <1>4, Posted
<1>6. /\ task' \in [Builds -> TaskRecord] /\ task'[b] = r
      /\ \A c \in Builds : c # b => task'[c] = task[c]
  BY <1>2, <1>4
<1>7. Types'
  BY <1>1, <1>3, <1>5, <1>6, TypesKept
<1>8. task[b].stage = "Started" /\ task[b].mem = "live" /\ Owner[b] \in VMs
  BY <1>1, <1>2, <1>4, InvIs DEF BundlerMatches, Busy, Working
<1>9. StartMatches'
  <2>1. bundler.pc \notin {"unborn", "start"} /\ bundler'.pc \notin {"unborn", "start"}
    BY <1>4
  <2>2. once # "empty"
    BY <1>1, <2>1 DEF StartMatches
  <2> QED
    BY <1>1, <1>3, <1>5, <1>7, <2>1, <2>2, StartKept
<1>10. BundlerMatches'
  BY <1>1, <1>2, <1>3, <1>4, <1>6 DEF BundlerMatches, Free, Busy, Working
<1>11. ItemsMatch'
  <2>1. \A i \in 1..Len(items) : items[i] \in Builds /\ items[i] # b
    BY <1>1, <1>2 DEF ItemsMatch
  <2> QED
    BY <1>1, <1>2, <1>3, <1>6, <2>1 DEF ItemsMatch
<1>12. StageMatches(b)'
  BY <1>2, <1>3, <1>4, <1>6, <1>8 DEF StageMatches
<1>13. HeldMatches(b)'
  BY <1>2, <1>3, <1>4, <1>5, <1>6, <1>8 DEF HeldMatches, Pending
<1>14. \A c \in Builds : c # b => StageMatches(c)' /\ HeldMatches(c)'
  BY <1>2, <1>5, <1>6, OthersKept
<1>15. \A u \in VMs : VmMatches(u)'
  BY <1>2, <1>3, <1>4, <1>5, <1>6, <1>8, VmsKept
<1>16. \A u \in VMs : NotesMatch(u)'
  <2>1. \A c \in Builds : /\ task'[c].stage = task[c].stage
                          /\ task[c].request = "hop" => task'[c].request = "hop"
    BY <1>4, <1>6
  <2>2. /\ what = "hop" => task[b].request = "none" /\ task'[b].request = "hop"
        /\ what = "done" => task[b].stage = "Started" /\ bundler'.pc = "drop"
        /\ bundler.pc = "drop" => bundler'.pc = "drop"
    BY <1>4, <1>6, <1>8
  <2> QED
    BY <1>2, <1>3, <1>4, <2>1, <2>2, NotesAppended
<1> QED
  BY <1>7, <1>9, <1>10, <1>11, <1>12, <1>13, <1>14, <1>15, <1>16 DEF BuildInv

(* pop: the bundle thread takes the oldest build in hand, and nobody else has it. *)
LEMMA AtPop == ASSUME BuildInv, PopBuild PROVE BuildInv'
<1>1. /\ BundlerMatches /\ Types /\ StartMatches /\ ItemsMatch /\ bundler \in BundlerRecord
      /\ vm \in [VMs -> VmRecord] /\ task \in [Builds -> TaskRecord]
      /\ once \in {"empty", "running", "complete"} /\ None \notin Builds
      /\ items \in Seq(Builds) /\ waker \in [init : BOOLEAN, set : BOOLEAN]
  BY InvIs DEF Types
<1>2. /\ bundler.pc = "pop" /\ items # <<>> /\ UNCHANGED <<vm, once, ready, at, waker, task>>
      /\ out' = SubSeq(items, 1, 1) /\ items' = SubSeq(items, 2, Len(items))
      /\ bundler' = [bundler EXCEPT !.pc = "claim", !.on = out'[1]]
  BY DEF PopBuild, Q!Pop, Q!Take
<1>3. bundler.on = None
  BY <1>1, <1>2 DEF BundlerMatches, Free
<1> DEFINE b == items[1]
<1>4. /\ b \in Builds /\ out'[1] = b /\ Len(items) \in Nat /\ 1 \in 1..Len(items)
      /\ items' \in Seq(Builds) /\ Len(items') = Len(items) - 1
      /\ \A i \in 1..Len(items') : items'[i] = items[i + 1] /\ i + 1 \in 1..Len(items)
  BY <1>1, <1>2
<1>5. bundler' \in BundlerRecord /\ bundler'.pc = "claim" /\ bundler'.on = b
  BY <1>1, <1>2, <1>4 DEF BundlerRecord, Busy
<1>6. /\ task[b].mem = "live" /\ task[b].stage # "Started"
      /\ \A i \in 1..Len(items') : items'[i] # b
  <2>1. \A i \in 1..Len(items') : i + 1 # 1
    BY <1>4
  <2> QED
    BY <1>1, <1>4, <2>1 DEF ItemsMatch
<1>7. Types'
  BY <1>1, <1>2, <1>4, <1>5, TypesKept
<1>8. StartMatches'
  <2>1. once # "empty" /\ bundler'.pc \notin {"unborn", "start"} /\ bundler.pc \notin {"unborn", "start"}
    BY <1>1, <1>2, <1>5 DEF StartMatches
  <2> QED
    BY <1>1, <1>2, <1>7, <2>1, StartKept
<1>9. BundlerMatches'
  BY <1>1, <1>2, <1>4, <1>5, <1>6 DEF BundlerMatches, Free, Busy, Working
<1>10. ItemsMatch'
  <2>1. ASSUME NEW i \in 1..Len(items'), NEW j \in 1..Len(items'), items'[i] = items'[j]
        PROVE  i = j
    <3>1. i + 1 = j + 1
      BY <1>1, <1>4, <2>1 DEF ItemsMatch
    <3> QED
      BY <1>4, <3>1
  <2>2. ASSUME NEW i \in 1..Len(items')
        PROVE  /\ task'[items'[i]].mem = "live" /\ task'[items'[i]].stage # "Started"
               /\ bundler'.on # items'[i]
    BY <1>1, <1>2, <1>4, <1>5, <1>6 DEF ItemsMatch
  <2> QED
    BY <2>1, <2>2 DEF ItemsMatch
<1>11. ASSUME NEW c \in Builds PROVE StageMatches(c)' /\ HeldMatches(c)'
  <2>1. StageMatches(c) /\ HeldMatches(c) /\ bundler.on # c
    BY <1>1, <1>3, InvIs
  <2>2. task[c].stage = "Releasing" => vm[Owner[c]].pc \in {"release", "publish"}
    BY <2>1 DEF StageMatches
  <2>3. Noted(c) => Noted(c)'
    BY <1>2 DEF Noted
  <2>4. StageMatches(c)'
    BY <1>2, <2>1, <2>2, StageKept
  <2> QED
    BY <1>2, <2>1, <2>3, <2>4, HeldKept
<1>12. ASSUME NEW u \in VMs PROVE VmMatches(u)' /\ NotesMatch(u)'
  <2>1. VmMatches(u) /\ NotesMatch(u) /\ vm[u] \in VmRecord
    BY InvIs
  <2>2. vm[u].pc \in {"get", "wait", "push"} =>
           bundler'.on # vm[u].on /\ \A i \in 1..Len(items') : items'[i] # vm[u].on
    BY <1>4, <1>5, <2>1 DEF VmMatches
  <2>3. VmMatches(u)'
    BY <1>2, <2>1, <2>2, VmKept
  <2> QED
    BY <1>2, <1>5, <1>6, <2>1, <2>3, NotesKept
<1> QED
  BY <1>7, <1>8, <1>9, <1>10, <1>11, <1>12 DEF BuildInv

-----------------------------------------------------------------------------
(* A VM's thread and the builds of that VM *)

(* A step of v's thread on its build b, given what it does to b, to v's thread and
   to v's queue: other builds and other VMs are not concerned. *)
LEMMA AtOwner ==
    ASSUME BuildInv, NEW b \in Builds, NEW v \in VMs, Owner[b] = v,
           NEW r \in TaskRecord, task' = [task EXCEPT ![b] = r],
           UNCHANGED <<once, ready, at, waker, items, bundler>>,
           vm' \in [VMs -> VmRecord], \A u \in VMs : u # v => vm'[u] = vm[u],
           vm'[v].life = vm[v].life, vm[v].pc = "idle" \/ vm[v].on = b,
           vm'[v].pc \notin {"push", "link", "wake"},
           \A c \in Builds : c # b /\ Noted(c) => Noted(c)',
           task[b].mem = "live" /\ task[b].stage # "Started" => r.mem = "live" /\ r.stage # "Started",
           BundlerMatches', StageMatches(b)', HeldMatches(b)', VmMatches(v)', NotesMatch(v)'
    PROVE  BuildInv'
<1>1. /\ Types /\ StartMatches /\ BundlerMatches /\ ItemsMatch /\ None \notin Builds
      /\ \A u \in VMs : VmMatches(u) /\ NotesMatch(u) /\ vm[u] \in VmRecord
      /\ bundler \in BundlerRecord /\ task \in [Builds -> TaskRecord]
      /\ once \in {"empty", "running", "complete"}
      /\ items \in Seq(Builds) /\ waker \in [init : BOOLEAN, set : BOOLEAN]
  BY InvIs DEF Types
<1>2. /\ task' \in [Builds -> TaskRecord] /\ task'[b] = r
      /\ \A c \in Builds : c # b => task'[c] = task[c]
  BY <1>1
<1>3. Types'
  BY <1>1, <1>2, TypesKept
<1>4. StartMatches'
  BY <1>1, <1>3, StartKept
<1>5. ItemsMatch'
  <2>1. \A i \in 1..Len(items) : items[i] \in Builds
    BY <1>1
  <2> QED
    BY <1>1, <1>2, <2>1 DEF ItemsMatch
<1>6. ASSUME NEW c \in Builds, c # b PROVE StageMatches(c)' /\ HeldMatches(c)'
  <2>1. StageMatches(c) /\ HeldMatches(c) /\ Owner[c] \in VMs
    BY InvIs
  <2>2. task[c].stage = "Releasing" =>
           vm'[Owner[c]].on = vm[Owner[c]].on /\ vm'[Owner[c]].pc \in {"release", "publish"}
    BY <1>6, <2>1 DEF StageMatches
  <2>3. StageMatches(c)'
    BY <1>2, <1>6, <2>1, <2>2, StageKept
  <2>4. vm'[Owner[c]].life = vm[Owner[c]].life
    BY <2>1
  <2>5. bundler.on = c /\ Pending(c) => bundler'.on = c /\ bundler'.pc \in {"build", "tick", "poll"}
    BY <2>1 DEF HeldMatches
  <2>6. HeldMatches(c)'
    BY <1>2, <1>6, <2>1, <2>4, <2>5, HeldKept
  <2> QED
    BY <2>3, <2>6
<1>7. ASSUME NEW u \in VMs, u # v PROVE VmMatches(u)' /\ NotesMatch(u)'
  <2>1. vm[u].pc \notin {"idle", "wake"} => task'[vm[u].on] = task[vm[u].on]
    BY <1>1, <1>2, <1>7 DEF VmMatches
  <2>2. vm[u].pc \in {"get", "wait", "push"} =>
           bundler'.on # vm[u].on /\ \A i \in 1..Len(items') : items'[i] # vm[u].on
    BY <1>1 DEF VmMatches
  <2>3. VmMatches(u)'
    BY <1>1, <1>7, <2>1, <2>2, VmKept
  <2>4. \A i \in 1..Len(vm[u].queue) : vm[u].queue[i].build \in Builds
    BY <1>1, NoteIs
  <2>5. \A i \in 1..Len(vm[u].queue) : task'[vm[u].queue[i].build] = task[vm[u].queue[i].build]
    BY <1>1, <1>2, <1>7, <2>4 DEF NotesMatch
  <2>6. NotesMatch(u)'
    BY <1>1, <1>7, <2>5, NotesSame
  <2> QED
    BY <2>3, <2>6
<1> QED
  BY <1>3, <1>4, <1>5, <1>6, <1>7 DEF BuildInv

(* The same for a step that leaves v's queue alone. *)
LEMMA AtOwnerNoNote ==
    ASSUME BuildInv, NEW b \in Builds, NEW v \in VMs, Owner[b] = v,
           NEW r \in TaskRecord, task' = [task EXCEPT ![b] = r],
           UNCHANGED <<once, ready, at, waker, items, bundler>>,
           vm' \in [VMs -> VmRecord], \A u \in VMs : u # v => vm'[u] = vm[u],
           vm'[v].life = vm[v].life, vm'[v].queue = vm[v].queue,
           vm[v].pc = "idle" \/ vm[v].on = b, vm'[v].pc \notin {"push", "link", "wake"},
           task[b].mem = "live" /\ task[b].stage # "Started" => r.mem = "live" /\ r.stage # "Started",
           task[b].request = "hop" => r.request = "hop",
           task[b].stage = "Started" => r.stage = "Started",
           BundlerMatches', StageMatches(b)', Noted(b) = Noted(b)' => HeldMatches(b)', VmMatches(v)'
    PROVE  BuildInv'
<1>1. /\ task \in [Builds -> TaskRecord] /\ NotesMatch(v) /\ vm[v] \in VmRecord
      /\ \A c \in Builds : Owner[c] \in VMs
  BY InvIs DEF Types
<1>2. task'[b] = r /\ \A c \in Builds : c # b => task'[c] = task[c]
  BY <1>1
<1>3. \A c \in Builds : Noted(c)' = Noted(c)
  <2> SUFFICES ASSUME NEW c \in Builds PROVE Noted(c)' = Noted(c)
    OBVIOUS
  <2>1. vm'[Owner[c]].queue = vm[Owner[c]].queue
    BY <1>1
  <2> QED
    BY <2>1 DEF Noted
<1>4. NotesMatch(v)'
  BY <1>1, <1>2, NotesKept
<1> QED
  BY <1>3, <1>4, AtOwner

(* Bun.build: the build has a ticket, and nobody knows of it yet. *)
LEMMA AtSchedule ==
    ASSUME BuildInv, NEW v \in VMs, NEW b \in Builds, Schedule(v, b) PROVE BuildInv'
<1>1. /\ Types /\ BundlerMatches /\ ItemsMatch /\ VmMatches(v) /\ None \notin Builds
      /\ task \in [Builds -> TaskRecord] /\ bundler \in BundlerRecord /\ items \in Seq(Builds)
      /\ StageMatches(b) /\ HeldMatches(b) /\ None # "task" /\ vm[v] \in VmRecord
      /\ task[b] \in TaskRecord
  BY InvIs DEF Types
<1> DEFINE r == [task[b] EXCEPT !.mem = "live", !.ticket = "task", !.js = TRUE, !.registered = TRUE]
<1>2. /\ vm[v].life = "running" /\ vm[v].pc = "idle" /\ Owner[b] = v /\ task[b].mem = "none"
      /\ task' = [task EXCEPT ![b] = r] /\ Begin(v, "get", b)
      /\ UNCHANGED <<once, ready, at, waker, items, bundler>>
  BY <1>1 DEF Schedule, Idle, queue
<1>3. /\ r \in TaskRecord /\ r.mem = "live" /\ r.stage = task[b].stage /\ r.ticket = "task"
      /\ r.js /\ r.registered /\ r.request = task[b].request
  BY <1>1 DEF TaskRecord
<1> HIDE DEF r
<1>4. /\ vm' \in [VMs -> VmRecord] /\ vm'[v].pc = "get" /\ vm'[v].on = b
      /\ vm'[v].life = vm[v].life /\ vm'[v].queue = vm[v].queue
      /\ \A u \in VMs : u # v => vm'[u] = vm[u]
  BY <1>1, <1>2, VmMoves DEF VmLabels
<1>5. task'[b] = r /\ \A c \in Builds : c # b => task'[c] = task[c]
  BY <1>1, <1>2
<1>6. task[b].stage = "Queued" /\ task[b].request = "none"
  BY <1>1, <1>2 DEF StageMatches
<1>7. bundler.on # b
  BY <1>1, <1>2, <1>6 DEF BundlerMatches, BundlerRecord, Busy, Working
<1>8. \A i \in 1..Len(items) : items[i] # b
  BY <1>1, <1>2 DEF ItemsMatch
<1>9. BundlerMatches'
  <2>1. bundler.on \in Builds \cup {None}
    BY <1>1 DEF BundlerRecord
  <2> QED
    BY <1>1, <1>2, <1>5, <1>7, <2>1 DEF BundlerMatches, BundlerRecord, Free, Busy, Working
<1>10. StageMatches(b)' /\ HeldMatches(b)' /\ VmMatches(v)'
  BY <1>1, <1>2, <1>3, <1>4, <1>5, <1>6, <1>7, <1>8 DEF StageMatches, HeldMatches, VmMatches, Pending
<1> QED
  BY <1>2, <1>3, <1>4, <1>6, <1>9, <1>10, AtOwnerNoNote

(* A plugin answers. *)
LEMMA AtAnswer ==
    ASSUME BuildInv, NEW v \in VMs, NEW b \in Builds, PluginAnswer(v, b) PROVE BuildInv'
<1>1. /\ Types /\ BundlerMatches /\ VmMatches(v) /\ None \notin Builds
      /\ task \in [Builds -> TaskRecord] /\ bundler \in BundlerRecord
      /\ StageMatches(b) /\ HeldMatches(b) /\ vm[v] \in VmRecord /\ task[b] \in TaskRecord
  BY InvIs DEF Types
<1> DEFINE r == [task[b] EXCEPT !.request = "answered"]
<1>2. /\ vm[v].life = "running" /\ vm[v].pc = "idle" /\ Owner[b] = v /\ task[b].request = "held"
      /\ task' = [task EXCEPT ![b] = r] /\ Begin(v, "rouse", b)
      /\ UNCHANGED <<once, ready, at, waker, items, bundler>>
  BY <1>1 DEF PluginAnswer, Idle, queue
<1>3. /\ r \in TaskRecord /\ r.mem = task[b].mem /\ r.stage = task[b].stage
      /\ r.ticket = task[b].ticket /\ r.js = task[b].js /\ r.registered = task[b].registered
      /\ r.request = "answered"
  BY <1>1 DEF TaskRecord
<1> HIDE DEF r
<1>4. /\ vm' \in [VMs -> VmRecord] /\ vm'[v].pc = "rouse" /\ vm'[v].on = b
      /\ vm'[v].life = vm[v].life /\ vm'[v].queue = vm[v].queue
      /\ \A u \in VMs : u # v => vm'[u] = vm[u]
  BY <1>1, <1>2, VmMoves DEF VmLabels
<1>5. task'[b] = r /\ \A c \in Builds : c # b => task'[c] = task[c]
  BY <1>1, <1>2
<1>6. task[b].stage = "Started"
  BY <1>1, <1>2 DEF StageMatches, TaskRecord, Stages
<1>7. BundlerMatches'
  <2>1. bundler.on \in Builds \cup {None}
    BY <1>1 DEF BundlerRecord
  <2> QED
    BY <1>1, <1>2, <1>3, <1>5, <2>1 DEF BundlerMatches, BundlerRecord, Free, Busy, Working
<1>8. StageMatches(b)' /\ VmMatches(v)'
  BY <1>1, <1>2, <1>3, <1>4, <1>5, <1>6 DEF StageMatches, VmMatches
<1>9. Noted(b) = Noted(b)' => HeldMatches(b)'
  BY <1>1, <1>2, <1>3, <1>4, <1>5 DEF HeldMatches, Pending
<1> QED
  BY <1>2, <1>3, <1>4, <1>6, <1>7, <1>8, <1>9, AtOwnerNoNote

(* stop_for_vm_teardown: a build still Queued is taken back before the bundle thread
   can start it; a started one is answered for and cancelled. *)
LEMMA AtStop ==
    ASSUME BuildInv, NEW v \in VMs, NEW b \in Builds, Stop(v, b) PROVE BuildInv'
<1>1. /\ Types /\ BundlerMatches /\ VmMatches(v) /\ None \notin Builds
      /\ task \in [Builds -> TaskRecord] /\ bundler \in BundlerRecord
      /\ StageMatches(b) /\ HeldMatches(b) /\ vm[v] \in VmRecord /\ task[b] \in TaskRecord
  BY InvIs DEF Types
<1>2. /\ vm[v].life = "stopping" /\ vm[v].pc = "idle" /\ Owner[b] = v /\ task[b].registered
      /\ UNCHANGED <<once, ready, at, waker, items, bundler>>
  BY DEF Stop, Idle, queue
<1>3. task[b].mem = "live" /\ task[b].stage \in {"Queued", "Started"}
  BY <1>1, <1>2 DEF HeldMatches, StageMatches, TaskRecord, Stages
<1> DEFINE Effect(r, label) ==
      /\ task' = [task EXCEPT ![b] = r] /\ Begin(v, label, b)
      /\ r.mem = task[b].mem /\ r.ticket = task[b].ticket /\ r.js = task[b].js /\ ~r.registered
      /\ \/ label = "release" /\ task[b].stage = "Queued" /\ r.stage = "Releasing"
              /\ r.request = task[b].request
         \/ label = "rouse" /\ task[b].stage = "Started" /\ r.stage = "Started"
              /\ task[b].request = "held" /\ r.request = "answered"
         \/ label = "cancel" /\ task[b].stage = "Started" /\ r.stage = "Started"
              /\ r.request = task[b].request
<1>4. \E r \in TaskRecord, label \in VmLabels : Effect(r, label)
  <2>1. CASE task[b].stage = "Queued"
    <3> DEFINE r == [task[b] EXCEPT !.registered = FALSE, !.stage = "Releasing"]
    <3>1. r \in TaskRecord /\ Effect(r, "release") /\ "release" \in VmLabels
      BY <1>1, <2>1 DEF Stop, TaskRecord, Stages, VmLabels
    <3> QED
      BY <3>1
  <2>2. CASE task[b].stage # "Queued" /\ task[b].request = "held"
    <3> DEFINE r == [task[b] EXCEPT !.registered = FALSE, !.request = "answered"]
    <3>1. r \in TaskRecord /\ Effect(r, "rouse") /\ "rouse" \in VmLabels
      BY <1>1, <1>3, <2>2 DEF Stop, TaskRecord, VmLabels
    <3> QED
      BY <3>1
  <2>3. CASE task[b].stage # "Queued" /\ task[b].request # "held"
    <3> DEFINE r == [task[b] EXCEPT !.registered = FALSE]
    <3>1. r \in TaskRecord /\ Effect(r, "cancel") /\ "cancel" \in VmLabels
      BY <1>1, <1>3, <2>3 DEF Stop, TaskRecord, VmLabels
    <3> QED
      BY <3>1
  <2> QED
    BY <2>1, <2>2, <2>3
<1>5. PICK r \in TaskRecord, label \in VmLabels : Effect(r, label)
  BY <1>4
<1>6. /\ vm' \in [VMs -> VmRecord] /\ vm'[v].pc = label /\ vm'[v].on = b
      /\ vm'[v].life = vm[v].life /\ vm'[v].queue = vm[v].queue
      /\ \A u \in VMs : u # v => vm'[u] = vm[u]
  BY <1>1, <1>5, VmMoves
<1>7. task'[b] = r /\ \A c \in Builds : c # b => task'[c] = task[c]
  BY <1>1, <1>5
<1>8. BundlerMatches'
  <2>1. bundler.on \in Builds \cup {None}
    BY <1>1 DEF BundlerRecord
  <2> QED
    BY <1>1, <1>2, <1>5, <1>7, <2>1 DEF BundlerMatches, BundlerRecord, Free, Busy, Working
<1>9. StageMatches(b)' /\ VmMatches(v)'
  BY <1>1, <1>2, <1>3, <1>5, <1>6, <1>7 DEF StageMatches, VmMatches
<1>10. Noted(b) = Noted(b)' => HeldMatches(b)'
  BY <1>1, <1>2, <1>5, <1>6, <1>7 DEF HeldMatches, Pending
<1>11. /\ task[b].request = "hop" => r.request = "hop"
       /\ task[b].stage = "Started" => r.stage = "Started"
       /\ task[b].stage # "Started" => r.stage # "Started"
       /\ label \notin {"push", "link", "wake"}
       /\ task' = [task EXCEPT ![b] = r] /\ r.mem = task[b].mem
  BY <1>5
<1> HIDE DEF Effect
<1> QED
  BY <1>2, <1>3, <1>6, <1>8, <1>9, <1>10, <1>11, AtOwnerNoNote

(* What follows the stop of a build: its JavaScript side is released and only then
   the bundle thread told, or the pass told to give up. *)
LEMMA AtRelease ==
    ASSUME BuildInv, NEW v \in VMs, ReleaseJs(v) \/ PublishReleased(v) \/ Cancel(v) PROVE BuildInv'
<1>1. /\ Types /\ BundlerMatches /\ VmMatches(v) /\ None \notin Builds
      /\ task \in [Builds -> TaskRecord] /\ bundler \in BundlerRecord /\ vm[v] \in VmRecord
      /\ \A c \in Builds : StageMatches(c) /\ HeldMatches(c) /\ task[c] \in TaskRecord
  BY InvIs DEF Types
<1>2. PICK b \in Builds :
         /\ vm[v].pc \in {"release", "publish", "cancel"} /\ vm[v].on = b /\ Owner[b] = v
         /\ UNCHANGED <<once, ready, at, waker, items, bundler>>
  BY <1>1 DEF ReleaseJs, PublishReleased, Cancel, At, queue, VmMatches
<1>3. StageMatches(b) /\ HeldMatches(b) /\ task[b] \in TaskRecord
  BY <1>1, <1>2
<1> DEFINE Effect(r, label) ==
      /\ task' = [task EXCEPT ![b] = r] /\ Goto(v, label)
      /\ r.mem = task[b].mem /\ r.registered = task[b].registered /\ r.request = task[b].request
      /\ \/ vm[v].pc = "release" /\ label = "publish" /\ ~r.js /\ r.ticket = None
              /\ r.stage = task[b].stage
         \/ vm[v].pc = "publish" /\ label = "idle" /\ r.js = task[b].js
              /\ r.ticket = task[b].ticket /\ r.stage = "ReleasedUnstarted"
         \/ vm[v].pc = "cancel" /\ label = "wakeloop" /\ r.js = task[b].js
              /\ r.ticket = task[b].ticket /\ r.stage = task[b].stage
<1>4. \E r \in TaskRecord, label \in VmLabels : Effect(r, label)
  <2>1. CASE ReleaseJs(v)
    <3> DEFINE r == [task[b] EXCEPT !.js = FALSE, !.ticket = None]
    <3>1. r \in TaskRecord /\ Effect(r, "publish") /\ "publish" \in VmLabels
      BY <1>1, <1>2, <1>3, <2>1 DEF ReleaseJs, At, TaskRecord, VmLabels
    <3> QED
      BY <3>1
  <2>2. CASE PublishReleased(v)
    <3> DEFINE r == [task[b] EXCEPT !.stage = "ReleasedUnstarted"]
    <3>1. r \in TaskRecord /\ Effect(r, "idle") /\ "idle" \in VmLabels
      BY <1>1, <1>2, <1>3, <2>2 DEF PublishReleased, At, TaskRecord, VmLabels, Stages
    <3> QED
      BY <3>1
  <2>3. CASE Cancel(v)
    <3> DEFINE r == [task[b] EXCEPT !.cancelled = TRUE]
    <3>1. r \in TaskRecord /\ Effect(r, "wakeloop") /\ "wakeloop" \in VmLabels
      BY <1>1, <1>2, <1>3, <2>3 DEF Cancel, At, TaskRecord, VmLabels
    <3> QED
      BY <3>1
  <2> QED
    BY <2>1, <2>2, <2>3
<1>5. PICK r \in TaskRecord, label \in VmLabels : Effect(r, label)
  BY <1>4
<1>6. PICK c \in Builds \cup {None} : c = IF label = "idle" THEN None ELSE vm[v].on
  BY <1>2
<1>7. /\ vm' \in [VMs -> VmRecord] /\ vm'[v].pc = label /\ vm'[v].on = c
      /\ vm'[v].life = vm[v].life /\ vm'[v].queue = vm[v].queue
      /\ \A u \in VMs : u # v => vm'[u] = vm[u]
  BY <1>1, <1>5, <1>6, VmMoves
<1>8. task'[b] = r /\ \A d \in Builds : d # b => task'[d] = task[d]
  BY <1>1, <1>2, <1>5
<1>9. vm[v].pc \in {"release", "publish"} => task[b].stage = "Releasing"
  BY <1>1, <1>2 DEF VmMatches
<1>10. vm[v].pc = "cancel" => task[b].stage = "Started"
  BY <1>1, <1>2 DEF VmMatches
<1>11. BundlerMatches'
  <2>1. bundler.on \in Builds \cup {None}
    BY <1>1 DEF BundlerRecord
  <2> QED
    BY <1>1, <1>2, <1>5, <1>8, <1>9, <1>10, <2>1
    DEF BundlerMatches, BundlerRecord, Free, Busy, Working
<1>12. VmMatches(v)'
  BY <1>1, <1>2, <1>5, <1>6, <1>7, <1>8, <1>9, <1>10 DEF VmMatches
<1>13. StageMatches(b)'
  BY <1>1, <1>2, <1>3, <1>5, <1>6, <1>7, <1>8, <1>9, <1>10 DEF StageMatches, VmMatches
<1>14. Noted(b) = Noted(b)' => HeldMatches(b)'
  BY <1>2, <1>3, <1>5, <1>7, <1>8 DEF HeldMatches, Pending
<1>15. /\ task[b].stage = "Started" <=> r.stage = "Started"
       /\ label \notin {"push", "link", "wake"}
  BY <1>5, <1>9
<1> QED
  BY <1>2, <1>5, <1>7, <1>11, <1>12, <1>13, <1>14, <1>15, AtOwnerNoNote

(* A VM's life goes on: its handles are stopped, its tickets waited for, and it is
   closed when there are none. *)
LEMMA AtLife ==
    ASSUME BuildInv, NEW v \in VMs, Teardown(v) \/ Drain(v) \/ Close(v) PROVE BuildInv'
<1>1. /\ Types /\ StartMatches /\ BundlerMatches /\ ItemsMatch /\ None \notin Builds
      /\ \A u \in VMs : VmMatches(u) /\ NotesMatch(u) /\ vm[u] \in VmRecord
      /\ bundler \in BundlerRecord /\ task \in [Builds -> TaskRecord] /\ vm \in [VMs -> VmRecord]
      /\ once \in {"empty", "running", "complete"}
      /\ items \in Seq(Builds) /\ waker \in [init : BOOLEAN, set : BOOLEAN]
      /\ \A c \in Builds : StageMatches(c) /\ HeldMatches(c) /\ Owner[c] \in VMs
  BY InvIs DEF Types
<1> DEFINE Effect(to) ==
      /\ vm' = [vm EXCEPT ![v].life = to]
      /\ \/ vm[v].life = "running" /\ to = "stopping"
         \/ /\ vm[v].life = "stopping" /\ to = "draining"
            /\ \A c \in Builds : Owner[c] = v => ~task[c].registered
         \/ /\ vm[v].life = "draining" /\ to = "closed" /\ vm[v].queue = <<>>
            /\ \A c \in Builds : Owner[c] = v => task[c].ticket = None
<1>2. PICK to \in Lives : Effect(to)
  BY DEF Teardown, Drain, Close, Idle, Lives
<1>3. /\ vm[v].pc = "idle" /\ UNCHANGED <<once, ready, at, waker, items, bundler, task>>
  BY DEF Teardown, Drain, Close, Idle, queue
<1> DEFINE w == [vm[v] EXCEPT !.life = to]
<1>4. /\ w \in VmRecord /\ w.life = to /\ w.pc = vm[v].pc /\ w.on = vm[v].on
      /\ w.queue = vm[v].queue
  BY <1>1 DEF VmRecord
<1>5. vm' = [vm EXCEPT ![v] = w]
  BY <1>1, <1>2
<1> HIDE DEF w
<1>6. /\ vm' \in [VMs -> VmRecord] /\ vm'[v] = w /\ \A u \in VMs : u # v => vm'[u] = vm[u]
  BY <1>1, <1>4, <1>5
<1>7. \A u \in VMs : vm'[u].pc = vm[u].pc /\ vm'[u].on = vm[u].on /\ vm'[u].queue = vm[u].queue
  BY <1>4, <1>6
<1>8. Types'
  BY <1>1, <1>3, <1>6, TypesKept
<1>9. StartMatches'
  BY <1>1, <1>3, <1>7, <1>8, StartKept
<1>10. BundlerMatches' /\ ItemsMatch'
  BY <1>1, <1>3 DEF BundlerMatches, ItemsMatch
<1>11. ASSUME NEW c \in Builds PROVE StageMatches(c)' /\ HeldMatches(c)'
  <2>1. Noted(c)' = Noted(c)
    BY <1>1, <1>7 DEF Noted
  <2>2. StageMatches(c)'
    BY <1>1, <1>3, <1>7 DEF StageMatches
  <2>3. CASE Owner[c] # v
    <3>1. vm'[Owner[c]].life = vm[Owner[c]].life
      BY <1>1, <1>6, <2>3
    <3> QED
      BY <1>1, <1>3, <2>1, <2>2, <3>1 DEF HeldMatches, Pending
  <2>4. CASE Owner[c] = v
    <3>1. to = "closed" => ~task[c].js /\ task[c].ticket = None
      <4> SUFFICES ASSUME to = "closed" PROVE ~task[c].js /\ task[c].ticket = None
        OBVIOUS
      <4>1. vm[v].queue = <<>> /\ task[c].ticket = None
        BY <1>2, <2>4
      <4>2. ~Noted(c)
        BY <2>4, <4>1 DEF Noted
      <4> QED
        BY <1>1, <4>1, <4>2, InvIs DEF HeldMatches
    <3>2. task[c].registered => to = "stopping"
      BY <1>1, <1>2, <2>4 DEF HeldMatches
    <3>3. vm'[Owner[c]].life = to
      BY <1>4, <1>6, <2>4
    <3> QED
      BY <1>1, <1>3, <2>1, <2>2, <3>1, <3>2, <3>3 DEF HeldMatches, Pending
  <2> QED
    BY <2>3, <2>4
<1>12. ASSUME NEW u \in VMs PROVE VmMatches(u)' /\ NotesMatch(u)'
  <2>1. NotesMatch(u)'
    BY <1>1, <1>3, <1>7, NotesSame
  <2>2. CASE u = v
    BY <1>3, <1>7, <2>1, <2>2 DEF VmMatches
  <2>3. CASE u # v
    BY <1>1, <1>3, <1>6, <2>1, <2>3 DEF VmMatches
  <2> QED
    BY <2>2, <2>3
<1> QED
  BY <1>8, <1>9, <1>10, <1>11, <1>12 DEF BuildInv

(* push: the build is in the queue, once, and in nobody's hands. *)
LEMMA AtPush == ASSUME BuildInv, NEW v \in VMs, Push(v) PROVE BuildInv'
<1>1. /\ Types /\ StartMatches /\ BundlerMatches /\ ItemsMatch /\ None \notin Builds
      /\ \A u \in VMs : VmMatches(u) /\ NotesMatch(u) /\ vm[u] \in VmRecord
      /\ bundler \in BundlerRecord /\ task \in [Builds -> TaskRecord] /\ vm \in [VMs -> VmRecord]
      /\ once \in {"empty", "running", "complete"}
      /\ items \in Seq(Builds) /\ waker \in [init : BOOLEAN, set : BOOLEAN]
      /\ \A c \in Builds : StageMatches(c) /\ HeldMatches(c) /\ Owner[c] \in VMs
  BY InvIs DEF Types
<1>2. /\ vm[v].pc = "push" /\ Goto(v, "link") /\ items' = Append(items, vm[v].on)
      /\ UNCHANGED <<once, ready, at, waker, bundler, task>>
  BY DEF Push, At, Q!Push
<1>3. PICK b \in Builds :
         /\ vm[v].on = b /\ Owner[b] = v /\ vm[v].life = "running" /\ task[b].mem = "live"
         /\ task[b].stage = "Queued" /\ bundler.on # b /\ \A i \in 1..Len(items) : items[i] # b
  BY <1>1, <1>2 DEF VmMatches
<1>4. /\ vm' \in [VMs -> VmRecord] /\ vm'[v].pc = "link" /\ vm'[v].on = b
      /\ vm'[v].life = vm[v].life /\ vm'[v].queue = vm[v].queue
      /\ \A u \in VMs : u # v => vm'[u] = vm[u]
  BY <1>1, <1>2, <1>3, VmMoves DEF VmLabels
<1>5. /\ items' \in Seq(Builds) /\ Len(items') = Len(items) + 1 /\ Len(items) \in Nat
      /\ items'[Len(items) + 1] = b /\ \A i \in 1..Len(items) : items'[i] = items[i]
  BY <1>1, <1>2, <1>3
<1>6. \A i \in 1..Len(items') : i \in 1..Len(items) \/ i = Len(items) + 1
  BY <1>5
<1>7. Types'
  BY <1>1, <1>2, <1>4, <1>5, TypesKept
<1>8. StartMatches'
  BY <1>1, <1>2, <1>4, <1>7, StartKept
<1>9. BundlerMatches'
  BY <1>1, <1>2 DEF BundlerMatches
<1>10. ItemsMatch'
  <2>1. ASSUME NEW i \in 1..Len(items'), NEW j \in 1..Len(items'), items'[i] = items'[j] PROVE i = j
    <3>1. CASE i \in 1..Len(items) /\ j \in 1..Len(items)
      BY <1>1, <1>5, <2>1, <3>1 DEF ItemsMatch
    <3>2. CASE i = Len(items) + 1 \/ j = Len(items) + 1
      BY <1>3, <1>5, <1>6, <2>1, <3>2
    <3> QED
      BY <1>6, <3>1, <3>2
  <2>2. ASSUME NEW i \in 1..Len(items')
        PROVE  /\ task'[items'[i]].mem = "live" /\ task'[items'[i]].stage # "Started"
               /\ bundler'.on # items'[i]
    <3>1. CASE i \in 1..Len(items)
      BY <1>1, <1>2, <1>5, <3>1 DEF ItemsMatch
    <3>2. CASE i = Len(items) + 1
      BY <1>2, <1>3, <1>5, <3>2
    <3> QED
      BY <1>6, <3>1, <3>2
  <2> QED
    BY <2>1, <2>2 DEF ItemsMatch
<1>11. \A u \in VMs : vm'[u].life = vm[u].life /\ vm'[u].queue = vm[u].queue
  BY <1>4
<1>12. ASSUME NEW c \in Builds PROVE StageMatches(c)' /\ HeldMatches(c)'
  <2>1. Noted(c)' = Noted(c)
    BY <1>1, <1>11 DEF Noted
  <2>2. task[c].stage = "Releasing" => Owner[c] # v
    BY <1>1, <1>2 DEF StageMatches
  <2>3. StageMatches(c)'
    BY <1>1, <1>2, <1>4, <2>2 DEF StageMatches
  <2> QED
    BY <1>1, <1>2, <1>11, <2>1, <2>3 DEF HeldMatches, Pending
<1>13. ASSUME NEW u \in VMs PROVE VmMatches(u)' /\ NotesMatch(u)'
  <2>1. NotesMatch(u)'
    BY <1>1, <1>2, <1>11, NotesKept
  <2>2. CASE u = v
    BY <1>2, <1>3, <1>4, <2>1, <2>2 DEF VmMatches
  <2>3. CASE u # v
    <3>1. vm[u].pc \in {"get", "wait", "push"} =>
             bundler'.on # vm[u].on /\ \A i \in 1..Len(items') : items'[i] # vm[u].on
      <4> SUFFICES ASSUME vm[u].pc \in {"get", "wait", "push"}
                   PROVE  bundler'.on # vm[u].on /\ \A i \in 1..Len(items') : items'[i] # vm[u].on
        OBVIOUS
      <4>1. /\ Owner[vm[u].on] = u /\ bundler.on # vm[u].on
            /\ \A i \in 1..Len(items) : items[i] # vm[u].on
        BY <1>1 DEF VmMatches
      <4>2. vm[u].on # b
        BY <1>3, <2>3, <4>1
      <4> QED
        BY <1>2, <1>5, <1>6, <4>1, <4>2
    <3> QED
      BY <1>1, <1>2, <1>4, <2>1, <2>3, <3>1, VmKept
  <2> QED
    BY <2>2, <2>3
<1> QED
  BY <1>7, <1>8, <1>9, <1>10, <1>12, <1>13 DEF BuildInv

(* A VM takes the oldest note of its queue: what the others mean stays, and a
   question is not there a second time. *)
LEMMA NoteTaken ==
    ASSUME BuildInv, NEW v \in VMs, vm[v].queue # <<>>,
           vm' \in [VMs -> VmRecord], \A u \in VMs : u # v => vm'[u] = vm[u],
           vm'[v].queue = Tail(vm[v].queue), UNCHANGED bundler,
           NEW b, NEW is, b = Head(vm[v].queue).build, is = Head(vm[v].queue).is,
           \A c \in Builds : c # b => task'[c] = task[c],
           task'[b].stage = task[b].stage, is = "done" => task'[b].request = task[b].request
    PROVE  NotesMatch(v)' /\ \A c \in Builds : Noted(c) /\ (c # b \/ is # "done") => Noted(c)'
<1>1. NotesMatch(v) /\ vm[v] \in VmRecord /\ \A c \in Builds : Owner[c] \in VMs
  BY InvIs
<1> DEFINE q == vm[v].queue
           p == vm'[v].queue
<1>2. q \in Seq(Notes) /\ \A i \in 1..Len(q) : q[i].build \in Builds
  BY <1>1, NoteIs
<1>3. /\ p = Tail(q) /\ q # <<>> /\ b = q[1].build /\ is = q[1].is
  BY <1>2
<1>4. /\ NotesMatch(v)
      /\ \A i \in 1..Len(q) : /\ Owner[q[i].build] = v
                              /\ q[i].is = "hop" => task[q[i].build].request = "hop"
                              /\ q[i].is = "done" => /\ task[q[i].build].stage = "Started"
                                                     /\ (bundler.on = q[i].build => bundler.pc = "drop")
      /\ \A i, j \in 1..Len(q) :
            q[i].is = "hop" /\ q[j].is = "hop" /\ q[i].build = q[j].build => i = j
  BY <1>1 DEF NotesMatch
<1> HIDE DEF p, q
<1>5. /\ Len(q) \in Nat /\ 1 \in 1..Len(q) /\ Len(p) = Len(q) - 1
      /\ \A i \in 1..Len(p) : p[i] = q[i + 1] /\ i + 1 \in 1..Len(q) /\ i + 1 # 1
      /\ \A i \in 1..Len(q) : i = 1 \/ (i - 1 \in 1..Len(p) /\ p[i - 1] = q[i])
  BY <1>2, <1>3
<1>6. NotesMatch(v)'
  <2>1. ASSUME NEW i \in 1..Len(p)
        PROVE  /\ Owner[p[i].build] = v
               /\ p[i].is = "hop" => task'[p[i].build].request = "hop"
               /\ p[i].is = "done" => /\ task'[p[i].build].stage = "Started"
                                      /\ (bundler'.on = p[i].build => bundler'.pc = "drop")
    <3>1. PICK k \in 1..Len(q) : k # 1 /\ p[i] = q[k]
      BY <1>5
    <3>2. q[k].is = "hop" /\ is = "hop" => q[k].build # b
      <4>1. q[1].is = "hop" /\ q[k].is = "hop" /\ q[1].build = q[k].build => 1 = k
        BY <1>4, <1>5
      <4> QED
        BY <1>3, <3>1, <4>1
    <3>3. q[k].is = "hop" => is = "hop" \/ is = "done"
      BY <1>1, <1>3, <1>5, NoteIs DEF q
    <3>4. q[k].is = "hop" => task'[q[k].build].request = "hop"
      BY <1>2, <1>4, <3>2, <3>3
    <3> QED
      BY <1>2, <1>4, <3>1, <3>4
  <2>2. ASSUME NEW i \in 1..Len(p), NEW j \in 1..Len(p),
               p[i].is = "hop", p[j].is = "hop", p[i].build = p[j].build
        PROVE  i = j
    <3>1. i + 1 = j + 1
      BY <1>4, <1>5, <2>2
    <3> QED
      BY <1>5, <3>1
  <2> QED
    BY <2>1, <2>2 DEF NotesMatch, p
<1>7. ASSUME NEW c \in Builds, Noted(c), c # b \/ is # "done" PROVE Noted(c)'
  <2>1. CASE Owner[c] # v
    BY <1>1, <1>7, <2>1 DEF Noted
  <2>2. CASE Owner[c] = v
    <3>1. PICK i \in 1..Len(q) : q[i] = [build |-> c, is |-> "done"]
      BY <1>7, <2>2 DEF Noted, q
    <3>2. i # 1
      BY <1>3, <1>7, <3>1
    <3>3. i - 1 \in 1..Len(p) /\ p[i - 1] = [build |-> c, is |-> "done"]
      BY <1>5, <3>1, <3>2
    <3> QED
      BY <2>2, <3>3 DEF Noted, p
  <2> QED
    BY <2>1, <2>2
<1> QED
  BY <1>6, <1>7

(* The note at the head, and the build it is about. *)
LEMMA HeadIs ==
    ASSUME BuildInv, NEW v \in VMs, vm[v].queue # <<>>
    PROVE  \E b \in Builds, is \in {"hop", "done"} :
              /\ Head(vm[v].queue).build = b /\ Head(vm[v].queue).is = is /\ Owner[b] = v
              /\ is = "hop" => task[b].request = "hop"
              /\ is = "done" => task[b].stage = "Started" /\ (bundler.on = b => bundler.pc = "drop")
              /\ Tail(vm[v].queue) \in Seq(Notes)
<1>1. NotesMatch(v) /\ vm[v] \in VmRecord
  BY InvIs
<1> DEFINE q == vm[v].queue
<1>2. /\ q \in Seq(Notes)
      /\ \A i \in 1..Len(q) : q[i].build \in Builds /\ q[i].is \in {"hop", "done"}
  BY <1>1, NoteIs
<1>3. /\ \A i \in 1..Len(q) : /\ Owner[q[i].build] = v
                              /\ q[i].is = "hop" => task[q[i].build].request = "hop"
                              /\ q[i].is = "done" => /\ task[q[i].build].stage = "Started"
                                                     /\ (bundler.on = q[i].build => bundler.pc = "drop")
  BY <1>1 DEF NotesMatch
<1>4. q # <<>>
  OBVIOUS
<1> HIDE DEF q
<1>5. Tail(q) \in Seq(Notes) /\ Head(q) = q[1] /\ 1 \in 1..Len(q)
  BY <1>2, <1>4
<1> QED
  BY <1>2, <1>3, <1>5 DEF q

(* The VM runs or releases what is in its queue. *)
LEMMA AtNote ==
    ASSUME BuildInv, NEW v \in VMs, RunHop(v) \/ ReleaseHop(v) \/ OnComplete(v) PROVE BuildInv'
<1>1. /\ Types /\ BundlerMatches /\ VmMatches(v) /\ None \notin Builds
      /\ task \in [Builds -> TaskRecord] /\ bundler \in BundlerRecord /\ vm[v] \in VmRecord
      /\ vm \in [VMs -> VmRecord]
      /\ \A c \in Builds : StageMatches(c) /\ HeldMatches(c) /\ task[c] \in TaskRecord
  BY InvIs DEF Types
<1>2. /\ vm[v].queue # <<>> /\ vm[v].pc = "idle" /\ vm[v].life \in {"running", "draining"}
      /\ UNCHANGED <<once, ready, at, waker, items, bundler>>
  BY DEF RunHop, ReleaseHop, OnComplete, Idle, queue
<1>3. PICK b \in Builds, is \in {"hop", "done"} :
              /\ Head(vm[v].queue).build = b /\ Head(vm[v].queue).is = is /\ Owner[b] = v
              /\ is = "hop" => task[b].request = "hop"
              /\ is = "done" => task[b].stage = "Started" /\ (bundler.on = b => bundler.pc = "drop")
              /\ Tail(vm[v].queue) \in Seq(Notes)
  BY <1>2, HeadIs
<1>4. StageMatches(b) /\ HeldMatches(b) /\ task[b] \in TaskRecord
  BY <1>1, <1>3
<1> DEFINE Task(r) ==
      /\ task' = [task EXCEPT ![b] = r] /\ r.stage = task[b].stage /\ r.ticket = task[b].ticket
      /\ \/ /\ is = "hop" /\ r.request \in {"held", "answered"} /\ r.mem = task[b].mem
            /\ r.js = task[b].js /\ r.registered = task[b].registered
         \/ /\ is = "done" /\ r.request = task[b].request /\ r.mem = "freed"
            /\ ~r.js /\ ~r.registered
           Vm(w) ==
      /\ vm' = [vm EXCEPT ![v] = w] /\ w.queue = Tail(vm[v].queue) /\ w.life = vm[v].life
      /\ \/ w.pc = "idle" /\ w.on = vm[v].on
         \/ w.pc = "rouse" /\ w.on = b /\ vm[v].life = "draining"
<1>5. /\ \E r \in TaskRecord : Task(r)
      /\ \E w \in VmRecord : Vm(w)
  <2>1. CASE RunHop(v)
    <3> DEFINE r == [task[b] EXCEPT !.request = "held"]
               w == [vm[v] EXCEPT !.queue = Tail(@)]
    <3>1. task' = [task EXCEPT ![b] = r] /\ vm' = [vm EXCEPT ![v] = w] /\ is = "hop"
      BY <1>1, <1>3, <2>1 DEF RunHop
    <3>2. r \in TaskRecord /\ Task(r)
      BY <1>4, <3>1 DEF TaskRecord
    <3>3. w \in VmRecord /\ Vm(w)
      BY <1>1, <1>2, <1>3, <3>1 DEF VmRecord
    <3> QED
      BY <3>2, <3>3
  <2>2. CASE ReleaseHop(v)
    <3> DEFINE r == [task[b] EXCEPT !.request = "answered"]
               w == [vm[v] EXCEPT !.queue = Tail(@), !.pc = "rouse", !.on = b]
    <3>1. /\ task' = [task EXCEPT ![b] = r] /\ vm' = [vm EXCEPT ![v] = w] /\ is = "hop"
          /\ vm[v].life = "draining"
      BY <1>1, <1>3, <2>2 DEF ReleaseHop, Idle
    <3>2. r \in TaskRecord /\ Task(r)
      BY <1>4, <3>1 DEF TaskRecord
    <3>3. w \in VmRecord /\ Vm(w)
      BY <1>1, <1>2, <1>3, <3>1 DEF VmRecord, VmLabels
    <3> QED
      BY <3>2, <3>3
  <2>3. CASE OnComplete(v)
    <3> DEFINE r == [task[b] EXCEPT !.mem = "freed", !.js = FALSE, !.registered = FALSE]
               w == [vm[v] EXCEPT !.queue = Tail(@)]
    <3>1. task' = [task EXCEPT ![b] = r] /\ vm' = [vm EXCEPT ![v] = w] /\ is = "done"
      BY <1>1, <1>3, <2>3 DEF OnComplete
    <3>2. r \in TaskRecord /\ Task(r)
      BY <1>4, <3>1 DEF TaskRecord
    <3>3. w \in VmRecord /\ Vm(w)
      BY <1>1, <1>2, <1>3, <3>1 DEF VmRecord
    <3> QED
      BY <3>2, <3>3
  <2> QED
    BY <2>1, <2>2, <2>3
<1>6. PICK r \in TaskRecord : Task(r)
  BY <1>5
<1>7. PICK w \in VmRecord : Vm(w)
  BY <1>5
<1>8. task'[b] = r /\ \A c \in Builds : c # b => task'[c] = task[c]
  BY <1>1, <1>6
<1>9. vm' \in [VMs -> VmRecord] /\ vm'[v] = w /\ \A u \in VMs : u # v => vm'[u] = vm[u]
  BY <1>1, <1>7
<1>10. NotesMatch(v)' /\ \A c \in Builds : Noted(c) /\ (c # b \/ is # "done") => Noted(c)'
  BY <1>2, <1>3, <1>6, <1>7, <1>8, <1>9, NoteTaken
<1>11. task[b].stage = "Started"
  BY <1>3, <1>4 DEF StageMatches, TaskRecord, Stages
<1>12. BundlerMatches'
  <2>1. bundler.on \in Builds \cup {None}
    BY <1>1 DEF BundlerRecord
  <2>2. bundler.on = b => r.mem = task[b].mem \/ bundler.pc = "drop"
    BY <1>3, <1>6
  <2> QED
    BY <1>1, <1>2, <1>6, <1>8, <2>1, <2>2 DEF BundlerMatches, BundlerRecord, Free, Busy, Working
<1>13. StageMatches(b)'
  BY <1>2, <1>4, <1>6, <1>8, <1>11 DEF StageMatches
<1>14. HeldMatches(b)'
  <2>1. vm'[Owner[b]].life = vm[Owner[b]].life /\ vm[Owner[b]].life # "closed"
    BY <1>2, <1>3, <1>7, <1>9
  <2>2. r.js => is = "hop" /\ task[b].js
    BY <1>6
  <2>3. r.js => (Noted(b) => Noted(b)')
    BY <1>10, <2>2
  <2>4. task[b].request = "hop" \/ task[b].request = r.request
    BY <1>3, <1>6
  <2> QED
    BY <1>2, <1>3, <1>4, <1>6, <1>8, <2>1, <2>2, <2>3, <2>4 DEF HeldMatches, Pending
<1>15. VmMatches(v)'
  BY <1>3, <1>7, <1>9 DEF VmMatches
<1> QED
  BY <1>2, <1>3, <1>6, <1>7, <1>8, <1>9, <1>10, <1>11, <1>12, <1>13, <1>14, <1>15, AtOwner

-----------------------------------------------------------------------------
(* The theorems *)

(* Every step of the bundle thread and of a VM keeps the invariant. *)
LEMMA BuildStep == BuildInv /\ [Next]_vars => BuildInv'
<1> SUFFICES ASSUME BuildInv, [Next]_vars PROVE BuildInv'
  OBVIOUS
<1>1. CASE BundlerStep
  <2>1. CASE PopBuild
    BY <2>1, AtPop
  <2>2. CASE TryStart
    <3>1. CASE task[bundler.on].stage = "Queued"
      BY <2>2, <3>1, AtTryStart
    <3>2. CASE task[bundler.on].stage # "Queued"
      BY <2>2, <3>2, CalmBundler
    <3> QED
      BY <3>1, <3>2
  <2>3. CASE FreeReleasedUnstarted
    BY <2>3, AtFree
  <2>4. CASE Setup
    <3>1. bundler'.pc = "complete" \/ bundler'.pc = "build"
      BY <2>4, InvIs DEF Setup, Bundle, BundlerRecord
    <3> QED
      BY <2>4, <3>1, AtPass, CalmBundler
  <2>5. CASE Tick
    BY <2>5, AtPass, CalmBundler
  <2>6. CASE Complete
    BY <2>6, AtPass
  <2>7. CASE PostDone
    BY <2>7, AtPost
  <2>8. CASE DropTicket
    BY <2>8, AtDrop
  <2>9. CASE WriteWaker \/ SetReady \/ SetReadyStep \/ PopEmpty \/ Sleep \/ IsDone \/ Poll
    BY <2>9, CalmBundler
  <2> QED
    BY <1>1, <2>1, <2>2, <2>3, <2>4, <2>5, <2>6, <2>7, <2>8, <2>9 DEF BundlerStep
<1>2. CASE Dispatch
  BY <1>2, AtPass, AtPost
<1>3. ASSUME NEW v \in VMs, VmStep(v) \/ Teardown(v) \/ WaitSpurious(v) PROVE BuildInv'
  <2>1. CASE \/ GetReady(v) \/ Spawn(v) \/ WaitReady(v) \/ WaitSpurious(v) \/ SpawnDone(v)
             \/ Link(v) \/ Wake(v) \/ Rouse(v) \/ WakeLoop(v)
    BY <2>1, CalmVm
  <2>2. CASE Push(v)
    BY <2>2, AtPush
  <2>3. CASE RunHop(v) \/ ReleaseHop(v) \/ OnComplete(v)
    BY <2>3, AtNote
  <2>4. CASE ReleaseJs(v) \/ PublishReleased(v) \/ Cancel(v)
    BY <2>4, AtRelease
  <2>5. CASE Teardown(v) \/ Drain(v) \/ Close(v)
    BY <2>5, AtLife
  <2>6. CASE \E b \in Builds : Stop(v, b)
    BY <2>6, AtStop
  <2> QED
    BY <1>3, <2>1, <2>2, <2>3, <2>4, <2>5, <2>6 DEF VmStep
<1>4. ASSUME NEW v \in VMs, NEW b \in Builds, Schedule(v, b) \/ PluginAnswer(v, b) PROVE BuildInv'
  BY <1>4, AtSchedule, AtAnswer
<1>5. CASE UNCHANGED vars
  BY <1>5, CalmBundler
<1> QED
  BY <1>1, <1>2, <1>3, <1>4, <1>5 DEF Next

(* The waker is there before any enqueue, a build is allocated while anybody works
   on it, its VM is not closed while the bundle thread does, a question that is out
   has its pass, and no build is freed, or its VM closed, with a JavaScript side
   left: whatever the order in which try_start, a teardown and a plugin's answer
   come, for any VMs and any builds. *)
THEOREM NobodyTouchesTheDead == Spec => []NothingTouchedDead
<1>1. BuildInv => NothingTouchedDead
  <2> SUFFICES ASSUME BuildInv PROVE NothingTouchedDead
    OBVIOUS
  <2>1. /\ StartMatches /\ BundlerMatches /\ bundler \in BundlerRecord
        /\ \A b \in Builds : StageMatches(b) /\ HeldMatches(b)
        /\ \A v \in VMs : VmMatches(v)
        /\ None # "task" /\ None # "thread" /\ None \notin Builds
    BY InvIs
  <2>2. ASSUME NEW v \in VMs
        PROVE  /\ vm[v].pc \in {"push", "link", "wake"} => waker.init
               /\ vm[v].pc \in {"push", "link", "release", "publish", "cancel", "wakeloop"} =>
                     task[vm[v].on].mem = "live"
    BY <2>1 DEF StartMatches, VmMatches, StageMatches
  <2>3. bundler.pc \in Working \cup {"claim", "unstarted"} => task[bundler.on].mem = "live"
    BY <2>1 DEF BundlerMatches, Busy, Working
  <2>4. bundler.pc \in Working \cup {"post"} => vm[Owner[bundler.on]].life # "closed"
    <3> SUFFICES ASSUME bundler.pc \in Working \cup {"post"}
                 PROVE  vm[Owner[bundler.on]].life # "closed"
      OBVIOUS
    <3>1. bundler.on \in Builds /\ task[bundler.on].ticket # None
      BY <2>1 DEF BundlerMatches, BundlerRecord, Free, Working
    <3> QED
      BY <2>1, <3>1 DEF HeldMatches
  <2>5. ASSUME NEW b \in Builds
        PROVE  /\ Pending(b) => bundler.on = b /\ bundler.pc \in {"build", "tick", "poll"}
               /\ task[b].mem = "freed" => ~task[b].js
               /\ vm[Owner[b]].life = "closed" => ~task[b].js
    BY <2>1 DEF HeldMatches
  <2> QED
    BY <2>2, <2>3, <2>4, <2>5 DEF NothingTouchedDead
<1> QED
  BY <1>1, BuildInit, BuildStep, PTL DEF Spec

(* A VM that waits for its tickets waits for the build the bundle thread has in
   hand and for no other: a build that was not started when the VM was torn down
   has given its ticket back. *)
THEOREM TeardownWaitsForOneBuild == Spec => []TeardownWaitsOnlyForStarted
<1>1. BuildInv => TeardownWaitsOnlyForStarted
  <2> SUFFICES ASSUME BuildInv, NEW b \in Builds, vm[Owner[b]].life = "draining",
                      task[b].ticket # None
               PROVE  bundler.on = b
    BY DEF TeardownWaitsOnlyForStarted
  <2>1. /\ StageMatches(b) /\ HeldMatches(b) /\ task[b] \in TaskRecord /\ VmMatches(Owner[b])
    BY InvIs
  <2>2. ~task[b].registered
    BY <2>1 DEF HeldMatches
  <2>3. task[b].stage # "Queued" /\ task[b].stage # "ReleasedUnstarted"
    BY <2>1, <2>2 DEF StageMatches
  <2>4. task[b].stage # "Releasing"
    BY <2>1 DEF StageMatches, VmMatches
  <2> QED
    BY <2>1, <2>3, <2>4 DEF StageMatches, TaskRecord, Stages
<1> QED
  BY <1>1, BuildInit, BuildStep, PTL DEF Spec
=============================================================================
