------------------------------- MODULE EMcl2Node -------------------------------
(***************************************************************************)
(* The node of src/emcl2_node.cpp: the life cycle transitions, the topic   *)
(* and service callbacks, and loop(), with the particle filter of module   *)
(* Mcl.  One action is one callback, run to its end as the executor runs   *)
(* it; the order of the callbacks is free.                                 *)
(*                                                                         *)
(* The variables keep the names of the members.  The last four are not in  *)
(* the code: reset_id says which request the flag simple_reset_request     *)
(* stands for, asked and asked_at are the history of the requests and of   *)
(* the odometry reading at which each was made, served is the history of   *)
(* the requests that placed particles, oldest first.                       *)
(***************************************************************************)
EXTENDS Mcl, Sequences

CONSTANTS
    Maps,           \* the occupancy grids that may be published
    FreeCells,      \* their numbers of free cells, a function of Maps
    NoMap, NoPf,    \* map_ and pf_ before they are set
    AskedAt,        \* the readings at which requests are made
    MaxRequest      \* bound on the requests made

ASSUME MapsAssumption == FreeCells \in [Maps -> Nat] /\ NoMap \notin Maps
ASSUME NoPfAssumption == NoPf \notin Filter(Maps)
ASSUME AskedAtAssumption == AskedAt \subseteq Readings
ASSUME MaxRequestAssumption == MaxRequest \in Nat

VARIABLES
    lifecycle,      \* the state of the managed node, kept by rclcpp_lifecycle
    wired,          \* subscriptions, services, scan filter and tf objects exist
    pubs,           \* the four lifecycle publishers
    bond,           \* the bond with the lifecycle manager
    active, init_pf, init_request, initialpose_receive,
    simple_reset_request, scan_receive, map_receive,
    map,            \* map_
    init_pose,      \* init_x_, init_y_, init_t_: the request they come from
    scan_odom,      \* what odometry reads at scan_time_stamp_
    pf,             \* pf_
    reset_id, asked, asked_at, served

flags == <<init_request, initialpose_receive, simple_reset_request>>
input == <<scan_receive, scan_odom, map_receive, map>>
node  == <<lifecycle, wired, pubs, bond, active>>
ghost == <<asked, asked_at, served>>
vars  == <<node, init_pf, flags, input, init_pose, pf, reset_id, ghost>>

Kind == {"pose", "scatter"}
Request == 1 .. Len(asked)

TypeOK ==
    /\ lifecycle \in {"unconfigured", "inactive", "active", "finalized"}
    /\ pubs \in {"null", "inactive", "active"}
    /\ wired \in BOOLEAN /\ bond \in BOOLEAN /\ active \in BOOLEAN
    /\ init_pf \in BOOLEAN /\ init_request \in BOOLEAN
    /\ initialpose_receive \in BOOLEAN /\ simple_reset_request \in BOOLEAN
    /\ scan_receive \in BOOLEAN /\ map_receive \in BOOLEAN
    /\ map \in Maps \cup {NoMap}
    /\ scan_odom \in Readings \cup {NoOdom}
    /\ pf \in Filter(Maps) \cup {NoPf}
    /\ init_pose \in 0 .. Len(asked) /\ reset_id \in 0 .. Len(asked)
    /\ asked \in Seq(Kind) /\ asked_at \in Seq(Readings) /\ served \in Seq(Request)

Init ==
    /\ lifecycle = "unconfigured"
    /\ wired = FALSE /\ pubs = "null" /\ bond = FALSE
    /\ active = FALSE /\ init_pf = FALSE
    /\ init_request = FALSE /\ initialpose_receive = FALSE
    /\ simple_reset_request = FALSE
    /\ scan_receive = FALSE /\ map_receive = FALSE
    /\ map = NoMap /\ scan_odom = NoOdom
    /\ pf = NoPf
    /\ init_pose = 0 /\ reset_id = 0
    /\ asked = <<>> /\ asked_at = <<>> /\ served = <<>>

-----------------------------------------------------------------------------
(* Life cycle transitions. *)

InitCommunication == wired' = TRUE /\ pubs' = "inactive"

Configure ==
    /\ lifecycle = "unconfigured"
    /\ lifecycle' = "inactive"
    /\ InitCommunication
    /\ UNCHANGED <<bond, active, init_pf, flags, input, init_pose, pf, reset_id, ghost>>

Activate ==
    /\ lifecycle = "inactive"
    /\ lifecycle' = "active"
    /\ pubs' = "active" /\ active' = TRUE /\ bond' = TRUE
    /\ UNCHANGED <<wired, init_pf, flags, input, init_pose, pf, reset_id, ghost>>

(* A variant with a bug: active_ is left set. *)
DeactivateButFlag ==
    /\ lifecycle = "active"
    /\ lifecycle' = "inactive"
    /\ pubs' = "inactive" /\ bond' = FALSE
    /\ UNCHANGED <<active, wired, init_pf, flags, input, init_pose, pf, reset_id, ghost>>

Deactivate ==
    /\ lifecycle = "active"
    /\ lifecycle' = "inactive"
    /\ active' = FALSE /\ pubs' = "inactive" /\ bond' = FALSE
    /\ UNCHANGED <<wired, init_pf, flags, input, init_pose, pf, reset_id, ghost>>

ClearRequests ==
    /\ init_request' = FALSE /\ initialpose_receive' = FALSE
    /\ simple_reset_request' = FALSE

(* Variants with a bug: a flag that on_cleanup() forgets. *)
ClearFlagsButScatter ==
    /\ init_pf' = FALSE /\ scan_receive' = FALSE /\ map_receive' = FALSE
    /\ init_request' = FALSE /\ initialpose_receive' = FALSE
    /\ UNCHANGED simple_reset_request

ClearFlagsButFilter ==
    /\ scan_receive' = FALSE /\ map_receive' = FALSE /\ ClearRequests
    /\ UNCHANGED init_pf

ClearFlags ==
    /\ init_pf' = FALSE /\ scan_receive' = FALSE /\ map_receive' = FALSE
    /\ ClearRequests

Cleanup ==
    /\ lifecycle = "inactive"
    /\ lifecycle' = "unconfigured"
    /\ pubs' = "null" /\ wired' = FALSE /\ pf' = NoPf
    /\ ClearFlags
    /\ UNCHANGED <<bond, active, map, scan_odom, init_pose, reset_id, ghost>>

(* on_shutdown only logs: a node shut down while active keeps its flag,    *)
(* its publishers and its bond, and its executor goes on spinning.         *)
Shutdown ==
    /\ lifecycle # "finalized"
    /\ lifecycle' = "finalized"
    /\ UNCHANGED <<wired, pubs, bond, active, init_pf, flags, input, init_pose, pf,
                   reset_id, ghost>>

-----------------------------------------------------------------------------
(* Callbacks.  They run whenever their subscription or service exists.     *)

(* The filter starts at the configured pose, with the map just received.   *)
InitPF(m) == NewFilter(m)

ReceiveMap(m) ==
    /\ wired
    /\ map' = m
    /\ map_receive' = TRUE
    /\ pf' = IF init_pf THEN SetMap(pf, m) ELSE InitPF(m)
    /\ init_pf' = TRUE
    /\ UNCHANGED <<node, flags, scan_receive, scan_odom, init_pose, reset_id, ghost>>

Ask(kind) ==
    /\ wired
    /\ Len(asked) < MaxRequest
    /\ asked' = Append(asked, kind)
    /\ \E x \in AskedAt : asked_at' = Append(asked_at, x)

SetInitialPose ==
    /\ Ask("pose")
    /\ init_pose' = Len(asked')
    /\ \/ /\ initialpose_receive
          /\ init_request' = TRUE
          /\ UNCHANGED <<initialpose_receive, pf, served>>
       \/ /\ ~initialpose_receive /\ scan_receive /\ map_receive
          /\ pf' = Initialize(pf, init_pose')
          /\ initialpose_receive' = TRUE
          /\ served' = Append(served, init_pose')
          /\ UNCHANGED init_request
       \/ /\ ~initialpose_receive /\ ~(scan_receive /\ map_receive)
          /\ UNCHANGED <<init_request, initialpose_receive, pf, served>>
    /\ UNCHANGED <<node, init_pf, simple_reset_request, input, reset_id>>

CbSimpleReset ==
    /\ Ask("scatter")
    /\ simple_reset_request' = TRUE
    /\ reset_id' = Len(asked')
    /\ UNCHANGED <<node, init_pf, init_request, initialpose_receive, input, init_pose,
                   pf, served>>

(* The first part of loop(): at most one request is taken. *)
TakeRequest(f) ==
    IF init_request THEN Initialize(f, init_pose)
    ELSE IF simple_reset_request THEN SimpleReset(f, reset_id, FreeCells[f.map])
    ELSE f

(* A variant with a bug: both flags are cleared though one request is taken. *)
RequestTakenClearingBoth ==
    /\ init_request' = FALSE
    /\ simple_reset_request' = FALSE

(* The flag of the request taken is cleared, and only that one. *)
RequestTaken ==
    /\ init_request' = FALSE
    /\ simple_reset_request' = (init_request /\ simple_reset_request)

(* loop() on the filter f, with odometry x at the stamp of the scan.  Both *)
(* its callers have checked init_pf_ and scan_receive_.  Either transform  *)
(* may be missing: of the odometry, then of the lidar.                     *)
Loop(f, x) ==
    /\ \/ pf' = TakeRequest(f)
       \/ pf' = MotionUpdate(TakeRequest(f), x)
       \/ pf' \in SensorUpdate(MotionUpdate(TakeRequest(f), x))
    /\ RequestTaken
    /\ served' = IF init_request THEN Append(served, init_pose)
                 ELSE IF simple_reset_request THEN Append(served, reset_id)
                 ELSE served

CbScan(x) ==
    /\ wired
    /\ active /\ init_pf
    /\ scan_receive' = TRUE
    /\ scan_odom' = x
    /\ Loop(SetScan(pf), x)
    /\ UNCHANGED <<node, init_pf, initialpose_receive, map_receive, map, init_pose,
                   reset_id, asked, asked_at>>

CbNomotionUpdate ==
    /\ wired
    /\ active /\ init_pf /\ scan_receive
    /\ Loop(ClearProcessedScan(pf), scan_odom)
    /\ UNCHANGED <<node, init_pf, initialpose_receive, input, init_pose, reset_id,
                   asked, asked_at>>

-----------------------------------------------------------------------------
Next ==
    \/ Configure \/ Activate \/ Deactivate \/ Cleanup \/ Shutdown
    \/ \E m \in Maps : ReceiveMap(m)
    \/ SetInitialPose \/ CbSimpleReset \/ CbNomotionUpdate
    \/ \E x \in Readings : CbScan(x)

(* Scans keep coming as long as the node takes them.  Nothing else must    *)
(* happen: no request has to be made, no transition to be asked for.       *)
Fairness == WF_vars(\E x \in Readings : CbScan(x))

Safe == Init /\ [][Next]_vars

Spec == Safe /\ Fairness

-----------------------------------------------------------------------------
(* No callback dereferences a null pointer, in any order of transitions,   *)
(* messages and service calls: pf_ exists for receiveMap, cbScan and       *)
(* cbNomotionUpdate, which test init_pf_, and for setInitialPose, which    *)
(* tests the two receive flags instead; the publishers exist for loop().   *)
NoNullUse ==
    wired =>
        /\ init_pf => pf # NoPf
        /\ scan_receive /\ map_receive /\ ~initialpose_receive => pf # NoPf
        /\ active /\ init_pf => pubs # "null"

(* The seven flags agree: a kept pose is one loop() can obey, a scan was   *)
(* taken by a filter, the filter weighs its scans on the last map, and     *)
(* nothing is left of an earlier configuration once the node is cleaned up.*)
FlagsAgree ==
    /\ init_request => initialpose_receive
    /\ initialpose_receive => scan_receive /\ map_receive
    /\ scan_receive => init_pf
    /\ init_pf <=> map_receive
    /\ init_pf => wired /\ pf # NoPf /\ pf.map = map
    /\ simple_reset_request => wired

(* Before it is shut down, a node that is not active takes no scan, sends  *)
(* nothing and holds no bond.                                              *)
QuietUnlessActive ==
    lifecycle \in {"unconfigured", "inactive"} =>
        ~active /\ ~bond /\ pubs # "active"

(* README: "it bonds with the lifecycle manager while active".  on_shutdown*)
(* leaves the bond of an active node in place.                             *)
BondOnlyWhileActive == bond => lifecycle = "active"

(* The particles follow the odometry: what motionUpdate has applied to a   *)
(* particle is what the odometry moved between two readings, the last the  *)
(* filter had when it placed the particle and the last it has now, but for *)
(* a motion below the threshold put off at each of the two.  It is so      *)
(* however many such motions follow one another, and whatever scans,       *)
(* resets, resamplings and missing transforms come in between.  What the   *)
(* robot moves after the first of the two readings and before the request  *)
(* counts as the particle's motion: PlacedWhereAsked is about that.        *)
MotionIsTracked == pf # NoPf => Tracked(pf)

(* All the particles come from the same placement: no survivor of an       *)
(* earlier belief is left for the resampling to grow.  README: the scatter *)
(* services "scatter the particles uniformly over the free space of the    *)
(* map".  simpleReset() moves no more particles than there are free cells. *)
NoSurvivor == pf # NoPf => OneOrigin(pf)

(* Survivors have no other origin: they appear only in a scatter over a    *)
(* map with fewer free cells than there are particles.                     *)
SurvivorsOnlyIfCramped ==
    [][NoSurvivor /\ ~NoSurvivor' =>
        /\ simple_reset_request /\ ~simple_reset_request'
        /\ FreeCells[pf.map] < NumParticles]_vars

(* A robot that stands where it stood when a pose was given is estimated   *)
(* to be at that pose: set_initial_pose "(re)initialize[s] the particles at*)
(* the given pose".  initialize() leaves prev_odom_ behind, so the motion  *)
(* made before the request is added to the pose after it.                  *)
PlacedWhereAsked ==
    pf # NoPf =>
        \A i \in Index :
            LET p == pf.particles[i] IN
            /\ p.from # 0
            /\ asked[p.from] = "pose"
            /\ pf.last_odom = asked_at[p.from]
            => NearlyZero(p.off)

(* README: set_initial_pose is to "(re)initialize the particles at the     *)
(* given pose".  A scatter asked before a pose is obeyed after it.         *)
AllInOrder == \A i, j \in DOMAIN served : i < j => served[i] < served[j]

-----------------------------------------------------------------------------
(* The node as seen by those who make requests. *)
PR == INSTANCE PlacementRequests WITH
        pose    <- IF init_request THEN init_pose ELSE 0,
        scatter <- IF simple_reset_request THEN reset_id ELSE 0,
        up      <- active /\ init_pf

(* The node keeps the promise of module PlacementRequests: what each of    *)
(* its callbacks does to the requests is a step that module allows, and a  *)
(* request that is kept is served while scans are processed.               *)
KeepsRequests == PR!Spec
=============================================================================
