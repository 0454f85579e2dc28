-------------------------- MODULE PlacementRequests --------------------------
(***************************************************************************)
(* What the node promises to those who ask it to place its particles: at a *)
(* pose (topic initialpose, service set_initial_pose) or all over the free *)
(* space (services global_localization and its alias).  A request is       *)
(* refused, obeyed at once, or kept until the localizer serves it; a newer *)
(* one of the same kind replaces the one that is kept.                     *)
(*                                                                         *)
(* Requests are numbered in the order they are made.  asked is the history *)
(* of their kinds and served that of the requests obeyed; pose and scatter *)
(* are the requests kept, 0 when there is none; up says that the localizer *)
(* is running, so that what is kept must be served.                        *)
(***************************************************************************)
EXTENDS Naturals, Sequences

CONSTANT MaxRequest     \* bound on the requests made

ASSUME MaxRequestAssumption == MaxRequest \in Nat

VARIABLES asked, served, pose, scatter, up

vars == <<asked, served, pose, scatter, up>>

Kind == {"pose", "scatter"}

Request == 1 .. Len(asked)

TypeOK ==
    /\ asked \in Seq(Kind)
    /\ served \in Seq(Request)
    /\ pose \in 0 .. Len(asked)
    /\ scatter \in 0 .. Len(asked)
    /\ up \in BOOLEAN

Init ==
    /\ asked = <<>>
    /\ served = <<>>
    /\ pose = 0
    /\ scatter = 0
    /\ up = FALSE

Ask(kind) ==
    /\ Len(asked) < MaxRequest
    /\ asked' = Append(asked, kind)

(* A variant with a bug: a pose is obeyed at once though one is kept. *)
AskPoseAtOnce ==
    /\ Ask("pose")
    /\ \/ pose' = Len(asked') /\ UNCHANGED served
       \/ served' = Append(served, Len(asked')) /\ UNCHANGED pose
    /\ UNCHANGED <<scatter, up>>

(* A pose is obeyed at once only when none is kept. *)
AskPose ==
    /\ Ask("pose")
    /\ \/ pose' = Len(asked') /\ UNCHANGED served
       \/ pose = 0 /\ served' = Append(served, Len(asked')) /\ UNCHANGED pose
       \/ pose = 0 /\ UNCHANGED <<served, pose>>
    /\ UNCHANGED <<scatter, up>>

AskScatter ==
    /\ Ask("scatter")
    /\ scatter' = Len(asked')
    /\ UNCHANGED <<served, pose, up>>

(* A variant with a bug: the request is served and kept. *)
ServePoseKeepingIt ==
    /\ up /\ pose # 0
    /\ served' = Append(served, pose)
    /\ Len(served) < MaxRequest
    /\ UNCHANGED <<asked, scatter, pose, up>>

ServePose ==
    /\ up /\ pose # 0
    /\ served' = Append(served, pose)
    /\ pose' = 0
    /\ UNCHANGED <<asked, scatter, up>>

(* A variant with a bug: no test that there is a request. *)
ServeScatterAnyway ==
    /\ up /\ pose = 0
    /\ served' = Append(served, scatter)
    /\ scatter' = 0
    /\ UNCHANGED <<asked, pose, up>>

(* A pose that is kept goes first. *)
ServeScatter ==
    /\ up /\ pose = 0 /\ scatter # 0
    /\ served' = Append(served, scatter)
    /\ scatter' = 0
    /\ UNCHANGED <<asked, pose, up>>

Serve == ServePose \/ ServeScatter

(* The localizer is started or stopped; what is kept stays. *)
Turn ==
    /\ up' = ~up
    /\ UNCHANGED <<asked, served, pose, scatter>>

Cancel ==
    /\ ~up
    /\ pose' = 0
    /\ scatter' = 0
    /\ UNCHANGED <<asked, served, up>>

Next == AskPose \/ AskScatter \/ Serve \/ Turn \/ Cancel

Safe == Init /\ [][Next]_vars

Spec == Safe /\ WF_vars(Serve)

-----------------------------------------------------------------------------
(* No request is obeyed twice: neither by the two paths of setInitialPose  *)
(* (at once, and deferred to loop()), nor by two runs of loop().           *)
AtMostOnce == \A i, j \in DOMAIN served : served[i] = served[j] => i = j

(* Poses are obeyed in the order they were asked: an older one never       *)
(* overrides a newer one, whichever path each of them took.                *)
PosesInOrder ==
    \A i, j \in DOMAIN served :
        /\ asked[served[i]] = "pose"
        /\ asked[served[j]] = "pose"
        /\ i < j
        => served[i] < served[j]

(* Requests of both kinds together are obeyed in the order they were asked.*)
(* The localizer does not keep this one.                                   *)
AllInOrder == \A i, j \in DOMAIN served : i < j => served[i] < served[j]

(* A scatter that is kept is served, cancelled or replaced by a newer one, *)
(* unless the localizer is stopped: poses go first, but they run out.      *)
ScatterIsServed ==
    \A r \in 1 .. MaxRequest : (scatter = r) ~> (scatter # r \/ ~up)

(* A pose that is kept likewise. *)
PoseIsServed == \A r \in 1 .. MaxRequest : (pose = r) ~> (pose # r \/ ~up)
=============================================================================
