------------------------------ MODULE EMcl2Threads ------------------------------
(***************************************************************************)
(* The two threads that run the code of src/emcl2_node.cpp.  The executor  *)
(* runs the transitions, the subscriptions and the services, one after     *)
(* another.  A scan whose transform is not there when it arrives is kept   *)
(* by the message filter and delivered when the transform comes, on the    *)
(* thread of the transform listener: cbScan() and loop() then run beside   *)
(* whatever the executor is doing.  No lock protects the members.          *)
(*                                                                         *)
(* at[t] says where thread t is in its callback.  A step is one method of  *)
(* the filter, one test or assignment of a member, or one group of them    *)
(* that the other thread does not look into.  What the particles are is    *)
(* left to modules Mcl and EMcl2Node.                                      *)
(*                                                                         *)
(* Scans are numbered as they arrive; the number is also their stamp.  A   *)
(* null pointer used sets down, and so may an object used after it is      *)
(* destroyed: nothing happens in a process that is down.                   *)
(***************************************************************************)
EXTENDS Integers, FiniteSets

CONSTANTS
    MaxScan,        \* bound on the scans that arrive
    MaxRequest,     \* bound on the poses requested
    QueueSize       \* of the message filter, 10 in the code

ASSUME BoundsAssumption == MaxScan \in Nat /\ MaxRequest \in Nat
ASSUME QueueSizeAssumption == QueueSize \in Nat \ {0}

VARIABLES
    lifecycle, active,
    init_pf, init_request, initialpose_receive, simple_reset_request,
    scan_receive, map_receive,
    objs,           \* which of the members below exist
    arrived, waiting,           \* scans so far, and those in the filter's queue
    stamp,          \* scan_time_stamp_
    seq, ranges, processed,     \* scan_.seq_, the scan in scan_, processed_seq_
    init_pose, obeyed,          \* the last pose asked, the last one obeyed
    at,             \* where each thread is
    upd,            \* the locals of the update each thread runs
    down,           \* the process has died
    overlapped      \* history: the two threads have been in callbacks together

node    == <<lifecycle, active>>
flags   == <<init_pf, init_request, initialpose_receive, simple_reset_request,
             scan_receive, map_receive>>
queue   == <<arrived, waiting>>
scan    == <<seq, ranges, processed>>
request == <<init_pose, obeyed>>
threads == <<at, upd>>
vars    == <<node, flags, objs, queue, stamp, scan, request, threads, down, overlapped>>

Thread == {"executor", "listener"}
Scan   == 1 .. MaxScan

(* pubs: the publishers; filter: laser_scan_filter_, its subscription and  *)
(* those of the other topics and services; tf: the transform buffer; tfl:  *)
(* the listener with its thread; tfb: the broadcaster.                     *)
Object == {"pubs", "filter", "tf", "tfl", "tfb", "pf"}

(* Places inside cbScan and loop, and inside the callbacks of the executor. *)
Update == {"stamp", "scan", "take", "posed", "scattered", "odom", "sensor", "weigh",
           "publish", "return"}
Transition == {"decide", "initTF", "join", "build",
               "unfilter", "untfb", "unjoin", "clear"}

(* An update for the scan number scan, 0 for the one nobody's scan asked;  *)
(* the stamp of its odometry and the scan it weighs, 0 before it has them. *)
NoUpdate == [scan |-> 0, odom |-> 0, weighs |-> 0]

TypeOK ==
    /\ lifecycle \in {"unconfigured", "inactive", "active"} /\ active \in BOOLEAN
    /\ init_pf \in BOOLEAN /\ init_request \in BOOLEAN
    /\ initialpose_receive \in BOOLEAN /\ simple_reset_request \in BOOLEAN
    /\ scan_receive \in BOOLEAN /\ map_receive \in BOOLEAN
    /\ objs \subseteq Object
    /\ arrived \in 0 .. MaxScan /\ waiting \subseteq 1 .. arrived
    /\ Cardinality(waiting) <= QueueSize
    /\ stamp \in 0 .. arrived /\ ranges \in 0 .. arrived
    /\ seq \in 0 .. arrived /\ processed \in -1 .. arrived
    /\ init_pose \in 0 .. MaxRequest /\ obeyed \in 0 .. init_pose
    /\ at["executor"] \in {"idle"} \cup Update \cup Transition
    /\ at["listener"] \in {"idle"} \cup Update
    /\ upd \in [Thread -> [scan : 0 .. arrived, odom : 0 .. arrived,
                          weighs : 0 .. arrived]]
    /\ down \in BOOLEAN /\ overlapped \in BOOLEAN

Init ==
    /\ lifecycle = "unconfigured" /\ active = FALSE
    /\ init_pf = FALSE /\ init_request = FALSE /\ initialpose_receive = FALSE
    /\ simple_reset_request = FALSE /\ scan_receive = FALSE /\ map_receive = FALSE
    /\ objs = {}
    /\ arrived = 0 /\ waiting = {} /\ stamp = 0
    /\ seq = 0 /\ ranges = 0 /\ processed = -1
    /\ init_pose = 0 /\ obeyed = 0
    /\ at = [t \in Thread |-> "idle"] /\ upd = [t \in Thread |-> NoUpdate]
    /\ down = FALSE /\ overlapped = FALSE

Goto(t, from, to) == at[t] = from /\ at' = [at EXCEPT ![t] = to]

Idle(t) == at[t] = "idle"

-----------------------------------------------------------------------------
(* cbScan() and loop(), on either thread.                                  *)

(* The callback is entered for scan s, or returns at once. *)
CbScan(t, s) ==
    /\ Idle(t)
    /\ IF active /\ init_pf
       THEN /\ Goto(t, "idle", "stamp")
            /\ upd' = [upd EXCEPT ![t] = [NoUpdate EXCEPT !.scan = s]]
       ELSE UNCHANGED threads

Stamp(t) ==
    /\ Goto(t, "stamp", "scan")
    /\ scan_receive' = TRUE
    /\ stamp' = upd[t].scan
    /\ UNCHANGED <<node, init_pf, init_request, initialpose_receive, simple_reset_request,
                   map_receive, objs, queue, scan, request, upd, down>>

(* A variant with a bug: the scan is stored and not counted. *)
SetScanUncounted(t) ==
    /\ Goto(t, "scan", "take")
    /\ ranges' = upd[t].scan
    /\ UNCHANGED <<node, flags, objs, queue, stamp, seq, processed, request, upd, down>>

SetScan(t) ==
    /\ Goto(t, "scan", "take")
    /\ seq' = seq + 1
    /\ ranges' = upd[t].scan
    /\ UNCHANGED <<node, flags, objs, queue, stamp, processed, request, upd, down>>

(* loop() tests init_pf_ and scan_receive_ again; both hold (AliveWhileUsed). *)
TakeRequest(t) ==
    /\ \/ init_request /\ Goto(t, "take", "posed") /\ obeyed' = init_pose
       \/ /\ ~init_request
          /\ Goto(t, "take", IF simple_reset_request THEN "scattered" ELSE "odom")
          /\ UNCHANGED obeyed
    /\ UNCHANGED <<node, flags, objs, queue, stamp, scan, init_pose, upd, down>>

RequestTaken(t) ==
    /\ \/ /\ Goto(t, "posed", "odom")
          /\ init_request' = FALSE
          /\ UNCHANGED simple_reset_request
       \/ /\ Goto(t, "scattered", "odom")
          /\ simple_reset_request' = FALSE
          /\ UNCHANGED init_request
    /\ UNCHANGED <<node, init_pf, initialpose_receive, scan_receive, map_receive, objs,
                   queue, stamp, scan, request, upd, down>>

(* The odometry at the stamp, motionUpdate, the pose of the lidar; either  *)
(* transform may be missing.                                               *)
MotionUpdate(t) ==
    /\ \/ Goto(t, "odom", "sensor") \/ Goto(t, "odom", "return")
    /\ upd' = [upd EXCEPT ![t] = [@ EXCEPT !.odom = stamp]]
    /\ UNCHANGED <<node, flags, objs, queue, stamp, scan, request, down>>

(* sensorUpdate: nothing for a scan already processed, nothing more for a  *)
(* scan without valid beams; then the beams are looked up in the map.      *)
SensorUpdate(t) ==
    /\ \/ /\ processed = seq
          /\ Goto(t, "sensor", "publish")
          /\ UNCHANGED upd
       \/ /\ processed # seq
          /\ \/ Goto(t, "sensor", "publish") \/ Goto(t, "sensor", "weigh")
          /\ upd' = [upd EXCEPT ![t] = [@ EXCEPT !.weighs = ranges]]
    /\ UNCHANGED <<node, flags, objs, queue, stamp, scan, request, down>>

Processed(t) ==
    /\ Goto(t, "weigh", "publish")
    /\ processed' = seq
    /\ UNCHANGED <<node, flags, objs, queue, stamp, seq, ranges, request, upd, down>>

(* The broadcaster is used only when the transform of the stamp is there;  *)
(* the publishers always.                                                  *)
Publish(t) ==
    /\ Goto(t, "publish", "return")
    /\ \/ "tfb" \in objs /\ down' = ("pubs" \notin objs)
       \/ "tfb" \notin objs /\ down' \in {TRUE, "pubs" \notin objs}
    /\ UNCHANGED <<node, flags, objs, queue, stamp, scan, request, upd>>

(* The listener returns into the message filter that called it. *)
Return(t) ==
    /\ Goto(t, "return", "idle")
    /\ upd' = [upd EXCEPT ![t] = NoUpdate]
    /\ IF t = "listener" /\ "filter" \notin objs
       THEN down' \in BOOLEAN
       ELSE UNCHANGED down
    /\ UNCHANGED <<node, flags, objs, queue, stamp, scan, request>>

RunUpdate(t) ==
    \/ Stamp(t) \/ SetScan(t) \/ TakeRequest(t) \/ RequestTaken(t) \/ MotionUpdate(t)
    \/ SensorUpdate(t) \/ Processed(t) \/ Publish(t) \/ Return(t)

-----------------------------------------------------------------------------
(* The message filter and the transforms (external).                       *)

(* A variant with a bug: nothing is pushed out. *)
EnqueueAnyway(s) == waiting \cup {s}

(* When the queue is full the oldest scan is pushed out. *)
Enqueue(s) ==
    IF Cardinality(waiting) < QueueSize THEN waiting \cup {s}
    ELSE {s} \cup {w \in waiting : \E v \in waiting : v < w}

ScanArrives ==
    /\ "filter" \in objs /\ Idle("executor")
    /\ arrived < MaxScan
    /\ arrived' = arrived + 1
    /\ \/ CbScan("executor", arrived') /\ UNCHANGED waiting
       \/ waiting' = Enqueue(arrived') /\ UNCHANGED threads
    /\ UNCHANGED <<node, flags, objs, stamp, scan, request, down>>

(* The timer that is to drop a scan that waits too long belongs to a       *)
(* callback group no executor spins: there is no step for it.  A listener  *)
(* that is being joined starts no further callback.                        *)
TransformArrives ==
    /\ {"filter", "tf", "tfl"} \subseteq objs
    /\ at["executor"] \notin {"join", "unjoin"}
    /\ \E s \in waiting : CbScan("listener", s) /\ waiting' = waiting \ {s}
    /\ UNCHANGED <<node, flags, objs, arrived, stamp, scan, request, down>>

-----------------------------------------------------------------------------
(* The executor's own callbacks.                                           *)

Configure ==
    /\ Idle("executor") /\ lifecycle = "unconfigured"
    /\ lifecycle' = "inactive"
    /\ objs' = Object \ {"pf"}
    /\ UNCHANGED <<active, flags, queue, stamp, scan, request, threads, down>>

Activate ==
    /\ Idle("executor") /\ lifecycle = "inactive"
    /\ lifecycle' = "active" /\ active' = TRUE
    /\ UNCHANGED <<flags, objs, queue, stamp, scan, request, threads, down>>

Deactivate ==
    /\ Idle("executor") /\ lifecycle = "active"
    /\ lifecycle' = "inactive" /\ active' = FALSE
    /\ UNCHANGED <<flags, objs, queue, stamp, scan, request, threads, down>>

(* sensorUpdate holds a bare pointer to the field that setMap releases. *)
ReceiveMap ==
    /\ "filter" \in objs
    /\ map_receive' = TRUE
    /\ \/ /\ init_pf /\ Idle("executor")
          /\ IF at["listener"] = "weigh" THEN down' \in BOOLEAN ELSE UNCHANGED down
          /\ UNCHANGED <<init_pf, objs, scan, at>>
       \/ /\ ~init_pf
          /\ Goto("executor", "idle", "initTF")
          /\ objs' = objs \cup {"pf"}
          /\ seq' = 0 /\ ranges' = 0 /\ processed' = -1
          /\ init_pf' = TRUE
          /\ UNCHANGED down
    /\ UNCHANGED <<node, init_request, initialpose_receive, simple_reset_request,
                   scan_receive, queue, stamp, request, upd>>

(* One object, or one group of them, is destroyed. *)
Destroy(dead, from, to) ==
    /\ Goto("executor", from, to)
    /\ objs' = objs \ dead
    /\ UNCHANGED <<flags, arrived, stamp, scan, request, upd, down>>

(* A variant with a bug: the listener's thread is not waited for. *)
JoinAtOnce(from, to) == Destroy({"tfl"}, from, to) /\ UNCHANGED <<node, waiting>>

(* A variant with a bug: the queue is to be emptied first. *)
JoinDrained(from, to) ==
    /\ Idle("listener") /\ waiting = {}
    /\ Destroy({"tfl"}, from, to)
    /\ UNCHANGED <<node, waiting>>

(* The destructor of the listener waits for its thread. *)
Join(from, to) ==
    /\ Idle("listener")
    /\ Destroy({"tfl"}, from, to)
    /\ UNCHANGED <<node, waiting>>

(* initTF, after the first map: the old queue goes with the old filter. *)
Build ==
    /\ Goto("executor", "build", "idle")
    /\ objs' = objs \cup {"tf", "tfl", "tfb", "filter"}
    /\ waiting' = {}
    /\ UNCHANGED <<node, flags, arrived, stamp, scan, request, upd, down>>

InitTF ==
    \/ Destroy({"tfb"}, "initTF", "join") /\ UNCHANGED <<node, waiting>>
    \/ Join("join", "build")
    \/ Build

(* on_cleanup, in its order. *)
Clear ==
    /\ Goto("executor", "clear", "idle")
    /\ objs' = objs \ {"tf", "pf"}
    /\ init_pf' = FALSE /\ scan_receive' = FALSE /\ map_receive' = FALSE
    /\ initialpose_receive' = FALSE /\ init_request' = FALSE
    /\ simple_reset_request' = FALSE
    /\ lifecycle' = "unconfigured"
    /\ UNCHANGED <<active, queue, stamp, scan, request, upd, down>>

Cleanup ==
    \/ /\ lifecycle = "inactive"
       /\ Destroy({"pubs"}, "idle", "unfilter")
       /\ UNCHANGED <<node, waiting>>
    \/ Destroy({"filter"}, "unfilter", "untfb") /\ waiting' = {} /\ UNCHANGED node
    \/ Destroy({"tfb"}, "untfb", "unjoin") /\ UNCHANGED <<node, waiting>>
    \/ Join("unjoin", "clear")
    \/ Clear

SetInitialPose ==
    /\ "filter" \in objs
    /\ Goto("executor", "idle", "decide")
    /\ init_pose < MaxRequest
    /\ init_pose' = init_pose + 1
    /\ UNCHANGED <<node, flags, objs, queue, stamp, scan, obeyed, upd, down>>

Decide ==
    /\ Goto("executor", "decide", "idle")
    /\ \/ /\ initialpose_receive
          /\ init_request' = TRUE
          /\ UNCHANGED <<initialpose_receive, obeyed>>
       \/ /\ ~initialpose_receive /\ scan_receive /\ map_receive
          /\ obeyed' = init_pose
          /\ initialpose_receive' = TRUE
          /\ UNCHANGED init_request
       \/ /\ ~initialpose_receive /\ ~(scan_receive /\ map_receive)
          /\ UNCHANGED <<init_request, initialpose_receive, obeyed>>
    /\ UNCHANGED <<node, init_pf, simple_reset_request, scan_receive, map_receive, objs,
                   queue, stamp, scan, init_pose, upd, down>>

CbSimpleReset ==
    /\ "filter" \in objs /\ Idle("executor")
    /\ simple_reset_request' = TRUE
    /\ UNCHANGED <<node, init_pf, init_request, initialpose_receive, scan_receive,
                   map_receive, objs, queue, stamp, scan, request, threads, down>>

CbNomotionUpdate ==
    /\ "filter" \in objs
    /\ active /\ init_pf /\ scan_receive
    /\ Goto("executor", "idle", "take")
    /\ processed' = -1
    /\ upd' = [upd EXCEPT !["executor"] = NoUpdate]
    /\ UNCHANGED <<node, flags, objs, queue, stamp, seq, ranges, request, down>>

Inside == InitTF \/ Decide \/ (Cleanup /\ ~Idle("executor"))

(* What a thread does in a living process, with the history of overlaps. *)
Executor(Action) == ~down /\ Action /\ overlapped' = (overlapped \/ ~Idle("listener"))
Listener(Action) == ~down /\ Action /\ overlapped' = (overlapped \/ ~Idle("executor"))

Next ==
    \/ Listener(TransformArrives) \/ Listener(RunUpdate("listener"))
    \/ Executor(ScanArrives)      \/ Executor(RunUpdate("executor"))
    \/ Executor(Configure)        \/ Executor(Activate)
    \/ Executor(Deactivate)       \/ Executor(Cleanup)
    \/ Executor(ReceiveMap)       \/ Executor(InitTF)
    \/ Executor(SetInitialPose)   \/ Executor(Decide)
    \/ Executor(CbSimpleReset)    \/ Executor(CbNomotionUpdate)

(* The system runs both threads: a callback that can go on goes on.  No    *)
(* scan, transform, request or transition is sure to come.                 *)
Fairness ==
    /\ WF_vars(Listener(RunUpdate("listener")))
    /\ WF_vars(Executor(RunUpdate("executor") \/ Inside))

Safe == Init /\ [][Next]_vars

Spec == Safe /\ Fairness

-----------------------------------------------------------------------------
(* Whatever the executor destroys or replaces meanwhile, an update finds   *)
(* the filter and the transform buffer it uses, on either thread: on_cleanup*)
(* and initTF destroy the listener, and so wait for its thread, before they *)
(* touch tf_ and pf_.                                                      *)
AliveWhileUsed ==
    \A t \in Thread : at[t] \in Update =>
        /\ {"tf", "pf"} \subseteq objs /\ init_pf
        /\ at[t] # "stamp" => scan_receive

(* After on_cleanup nothing of the configuration is left: no member, no    *)
(* flag, no waiting scan, and no callback still running on the listener's  *)
(* thread.                                                                 *)
NothingLeft ==
    lifecycle = "unconfigured" =>
        /\ objs = {} /\ waiting = {} /\ Idle("listener")
        /\ ~(init_pf \/ init_request \/ initialpose_receive \/ simple_reset_request
             \/ scan_receive \/ map_receive \/ active)

(* An update run for a scan weighs that scan, unless none of its beams is  *)
(* valid.  initCommunication: "processes every scan exactly once".         *)
OwnScan ==
    \A t \in Thread :
        at[t] = "publish" /\ upd[t].scan # 0 => upd[t].weighs = upd[t].scan

(* The motion, the beams and the transform that is published belong to one *)
(* instant.  getOdomPose: "motionUpdate() and sensorUpdate() operate on the*)
(* same instant".                                                          *)
SameInstant ==
    \A t \in Thread :
        at[t] = "publish" =>
            /\ upd[t].weighs # 0 => upd[t].odom = upd[t].weighs
            /\ stamp = upd[t].odom

(* A pose request whose flag is about to be cleared has been obeyed. *)
PoseIsObeyed == \A t \in Thread : at[t] = "posed" => obeyed = init_pose

(* All that the two threads do to each other takes an overlap: as long as  *)
(* no callback of one has run during a callback of the other, late scans   *)
(* included, each scan is weighed once with the odometry of its instant,   *)
(* no pose is lost, and the process lives.                                 *)
HarmOnlyByOverlap == overlapped \/ (OwnScan /\ SameInstant /\ PoseIsObeyed /\ ~down)

(* Callbacks and transitions end: on_cleanup and initTF wait for the       *)
(* listener's thread, which never waits for them.                          *)
CallbacksEnd == \A t \in Thread : ~Idle(t) ~> (Idle(t) \/ down)

(* initTF: "buffer_timeout bounds how long a scan waits before it is       *)
(* dropped".                                                               *)
NoScanWaitsForever == \A s \in Scan : (s \in waiting) ~> (s \notin waiting)
=============================================================================
