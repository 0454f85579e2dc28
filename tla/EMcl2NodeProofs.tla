---------------------------- MODULE EMcl2NodeProofs ----------------------------
(***************************************************************************)
(* Proofs about EMcl2Node, for any number of particles, any maps, readings *)
(* and threshold, and any bound on the requests.                           *)
(***************************************************************************)
EXTENDS EMcl2Node, MclProofs

(* What a state of the life cycle says of the objects of the node. *)
LifecycleAgrees ==
    /\ lifecycle = "unconfigured" => ~wired /\ pubs = "null"
    /\ lifecycle \in {"inactive", "active"} => wired /\ pubs # "null"
    /\ active => pubs = "active"

(* A flag that is set comes with the data it announces. *)
DataIsThere ==
    /\ scan_receive => scan_odom # NoOdom
    /\ init_request => init_pose # 0
    /\ simple_reset_request => reset_id # 0
    /\ pf # NoPf => Counted(pf)

IInv == TypeOK /\ FlagsAgree /\ QuietUnlessActive /\ LifecycleAgrees /\ DataIsThere

-----------------------------------------------------------------------------
LEMMA Grows ==
    ASSUME NEW S, NEW s \in Seq(S), NEW e \in S
    PROVE  Append(s, e) \in Seq(S) /\ Len(Append(s, e)) = Len(s) + 1
  OBVIOUS

LEMMA SeqMonotone ==
    ASSUME NEW S, NEW T, S \subseteq T, NEW s \in Seq(S)
    PROVE  s \in Seq(T)
  OBVIOUS

(* A request adds itself to the histories and leaves the older ones valid. *)
LEMMA AskLemma ==
    ASSUME TypeOK, NEW k \in Kind, Ask(k)
    PROVE  /\ asked' \in Seq(Kind) /\ asked_at' \in Seq(Readings)
           /\ Len(asked') = Len(asked) + 1
           /\ Request \subseteq Request' /\ Len(asked') \in Request'
           /\ served \in Seq(Request')
           /\ init_pose \in 0 .. Len(asked') /\ reset_id \in 0 .. Len(asked')
<1>1. /\ asked' \in Seq(Kind) /\ Len(asked') = Len(asked) + 1
      /\ asked_at' \in Seq(Readings)
  BY Grows, AskedAtAssumption DEF TypeOK, Ask
<1>2. Request \subseteq Request' /\ Len(asked') \in Request'
  BY <1>1 DEF Request, TypeOK
<1>3. served \in Seq(Request')
  BY <1>2, SeqMonotone DEF TypeOK
<1> QED BY <1>1, <1>2, <1>3 DEF TypeOK

(* loop() keeps the filter well formed and counted, whatever it is given to*)
(* do and wherever it stops; a belief of one origin is split by nothing but*)
(* a scatter that lacks cells.                                             *)
LEMMA LoopLemma ==
    ASSUME IInv, init_pf, NEW f \in Filter(Maps), Counted(f), NEW x \in Readings, Loop(f, x)
    PROVE  /\ pf' \in Filter(Maps) /\ pf'.map = f.map /\ Counted(pf')
           /\ \/ OneOrigin(f) => OneOrigin(pf')
              \/ /\ simple_reset_request /\ ~simple_reset_request'
                 /\ FreeCells[f.map] < NumParticles
<1> DEFINE g == TakeRequest(f)
           cramped == /\ ~init_request /\ simple_reset_request
                      /\ FreeCells[f.map] < NumParticles
<1>1. /\ f.map \in Maps /\ FreeCells[f.map] \in Nat /\ NumParticles \in Nat
      /\ init_pose \in Nat /\ reset_id \in Nat
  BY Fields, MapsAssumption, NumParticlesAssumption DEF IInv, TypeOK
<1>2. /\ g \in Filter(Maps) /\ g.map = f.map /\ Counted(g)
      /\ OneOrigin(f) /\ ~cramped => OneOrigin(g)
  <2>1. CASE init_request
    BY <1>1, <2>1, InitializeLemma DEF TakeRequest
  <2>2. CASE ~init_request /\ simple_reset_request
    <3>1. g = SimpleReset(f, reset_id, FreeCells[f.map])
      BY <2>2 DEF TakeRequest
    <3>2. cramped \/ FreeCells[f.map] >= NumParticles
      BY <1>1, <2>2
    <3> HIDE DEF g, cramped
    <3> QED BY <1>1, <3>1, <3>2, SimpleResetLemma
  <2>3. CASE ~init_request /\ ~simple_reset_request
    BY <2>3 DEF TakeRequest
  <2> QED BY <2>1, <2>2, <2>3
<1>3. cramped => simple_reset_request /\ ~simple_reset_request'
  BY DEF Loop, RequestTaken
<1>4. \/ pf' = g
      \/ pf' = MotionUpdate(g, x)
      \/ pf' \in SensorUpdate(MotionUpdate(g, x))
  BY DEF Loop
<1> HIDE DEF g, cramped
<1>5. /\ MotionUpdate(g, x) \in Filter(Maps) /\ MotionUpdate(g, x).map = f.map
      /\ Counted(MotionUpdate(g, x))
      /\ OneOrigin(g) => OneOrigin(MotionUpdate(g, x))
  BY <1>2, MotionUpdateLemma
<1>6. /\ pf' \in Filter(Maps) /\ pf'.map = f.map /\ Counted(pf')
      /\ OneOrigin(g) => OneOrigin(pf')
  BY <1>2, <1>4, <1>5, SensorUpdateLemma
<1> QED BY <1>2, <1>3, <1>6 DEF cramped

LEMMA LoopRequests ==
    ASSUME IInv, NEW f, NEW x, Loop(f, x)
    PROVE  /\ served' \in Seq(Request)
           /\ init_request' = FALSE
           /\ simple_reset_request' \in BOOLEAN
           /\ simple_reset_request' => simple_reset_request
<1>1. /\ init_request => init_pose \in Request
      /\ simple_reset_request => reset_id \in Request
  BY DEF IInv, TypeOK, DataIsThere, Request
<1>2. served \in Seq(Request)
  BY DEF IInv, TypeOK
<1>3. served' \in Seq(Request)
  BY <1>1, <1>2, Grows DEF Loop
<1> QED BY <1>3 DEF Loop, RequestTaken, IInv, TypeOK

-----------------------------------------------------------------------------
LEMMA InitIInv == Init => IInv
<1> SUFFICES ASSUME Init PROVE IInv
  OBVIOUS
<1>1. asked \in Seq(Kind) /\ asked_at \in Seq(Readings) /\ served \in Seq(Request)
  BY DEF Init
<1>2. init_pose \in 0 .. Len(asked) /\ reset_id \in 0 .. Len(asked)
  BY DEF Init
<1>3. TypeOK
  BY <1>1, <1>2 DEF Init, TypeOK
<1> QED BY <1>3 DEF Init, IInv, FlagsAgree, QuietUnlessActive, LifecycleAgrees, DataIsThere

(* A transition changes flags and pointers; the histories stay.            *)
LEMMA TransitionStep ==
    ASSUME IInv, Configure \/ Activate \/ Deactivate \/ Cleanup \/ Shutdown
    PROVE  IInv'
<1> USE DEF IInv, flags, input, ghost, node
<1>0. UNCHANGED <<asked, asked_at, served, init_pose, reset_id, map, scan_odom>>
  BY DEF InitCommunication, Configure, Activate, Deactivate, Cleanup, Shutdown
<1>1. TypeOK'
  <2>1. /\ asked' \in Seq(Kind) /\ asked_at' \in Seq(Readings) /\ served' \in Seq(Request')
        /\ init_pose' \in 0 .. Len(asked') /\ reset_id' \in 0 .. Len(asked')
        /\ map' \in Maps \cup {NoMap} /\ scan_odom' \in Readings \cup {NoOdom}
    BY <1>0 DEF TypeOK, Request
  <2>2. /\ lifecycle' \in {"unconfigured", "inactive", "active", "finalized"}
        /\ pubs' \in {"null", "inactive", "active"}
        /\ pf' \in Filter(Maps) \cup {NoPf}
    BY DEF TypeOK, InitCommunication, Configure, Activate, Deactivate, Cleanup,
           Shutdown
  <2>3. /\ wired' \in BOOLEAN /\ bond' \in BOOLEAN /\ active' \in BOOLEAN
        /\ init_pf' \in BOOLEAN /\ init_request' \in BOOLEAN
        /\ initialpose_receive' \in BOOLEAN /\ simple_reset_request' \in BOOLEAN
        /\ scan_receive' \in BOOLEAN /\ map_receive' \in BOOLEAN
    BY DEF TypeOK, InitCommunication, Configure, Activate, Deactivate, Cleanup,
           Shutdown, ClearFlags, ClearRequests
  <2> QED BY <2>1, <2>2, <2>3 DEF TypeOK
<1>2. FlagsAgree'
  BY DEF FlagsAgree, LifecycleAgrees, InitCommunication, Configure, Activate,
         Deactivate, Cleanup, Shutdown, ClearFlags, ClearRequests
<1>3. QuietUnlessActive' /\ LifecycleAgrees'
  BY DEF QuietUnlessActive, LifecycleAgrees, TypeOK, InitCommunication, Configure,
         Activate, Deactivate, Cleanup, Shutdown, ClearFlags
<1>4. DataIsThere'
  BY DEF DataIsThere, InitCommunication, Configure, Activate, Deactivate, Cleanup,
         Shutdown, ClearFlags, ClearRequests
<1> QED BY <1>1, <1>2, <1>3, <1>4

LEMMA ReceiveMapStep ==
    ASSUME IInv, NEW m \in Maps, ReceiveMap(m)
    PROVE  IInv'
<1> USE DEF IInv, flags, input, ghost, node
<1>1. pf' \in Filter(Maps) /\ pf'.map = m /\ Counted(pf')
  <2>1. CASE init_pf
    <3>1. pf \in Filter(Maps) /\ Counted(pf) /\ pf' = SetMap(pf, m)
      BY <2>1 DEF TypeOK, FlagsAgree, DataIsThere, ReceiveMap
    <3> QED BY <3>1, SettersLemma
  <2>2. CASE ~init_pf
    BY <2>2, NewFilterLemma DEF ReceiveMap, InitPF
  <2> QED BY <2>1, <2>2
<1>2. pf' # NoPf
  BY <1>1, NoPfAssumption
<1>3. TypeOK'
  BY <1>1 DEF TypeOK, Request, ReceiveMap
<1>4. FlagsAgree'
  BY <1>1, <1>2 DEF FlagsAgree, ReceiveMap
<1>5. QuietUnlessActive' /\ LifecycleAgrees' /\ DataIsThere'
  BY <1>1 DEF QuietUnlessActive, LifecycleAgrees, DataIsThere, ReceiveMap
<1> QED BY <1>3, <1>4, <1>5

LEMMA SetInitialPoseStep ==
    ASSUME IInv, SetInitialPose
    PROVE  IInv'
<1> USE DEF IInv, flags, input, ghost, node
<1>1. /\ asked' \in Seq(Kind) /\ asked_at' \in Seq(Readings)
      /\ Len(asked') = Len(asked) + 1
      /\ Len(asked') \in Request' /\ served \in Seq(Request')
      /\ reset_id \in 0 .. Len(asked')
  BY AskLemma DEF SetInitialPose, Kind
<1>2. init_pose' \in 0 .. Len(asked') /\ init_pose' # 0 /\ init_pose' \in Nat
      /\ init_pose' \in Request'
  BY <1>1 DEF SetInitialPose, TypeOK
<1>3. \/ pf' = pf /\ served' = served
      \/ /\ scan_receive /\ map_receive
         /\ pf' = Initialize(pf, init_pose') /\ served' = Append(served, init_pose')
  BY DEF SetInitialPose
<1>4. served' \in Seq(Request')
  BY <1>1, <1>2, <1>3, Grows
<1>5. /\ pf' \in Filter(Maps) \cup {NoPf}
      /\ pf # NoPf => pf' # NoPf /\ pf'.map = pf.map
      /\ pf' # NoPf => Counted(pf')
  <2>1. CASE pf' = pf
    BY <2>1 DEF TypeOK, DataIsThere
  <2>2. CASE scan_receive /\ map_receive /\ pf' = Initialize(pf, init_pose')
    <3>1. pf \in Filter(Maps) /\ Counted(pf)
      BY <2>2 DEF TypeOK, FlagsAgree, DataIsThere
    <3> QED BY <1>2, <2>2, <3>1, InitializeLemma, NoPfAssumption
  <2> QED BY <1>3, <2>1, <2>2
<1>6. /\ UNCHANGED <<lifecycle, wired, pubs, bond, active, init_pf, simple_reset_request,
                     scan_receive, scan_odom, map_receive, map, reset_id>>
      /\ init_request' \in BOOLEAN /\ initialpose_receive' \in BOOLEAN
      /\ init_request' => initialpose_receive'
      /\ initialpose_receive' => scan_receive /\ map_receive
  <2>1. UNCHANGED <<lifecycle, wired, pubs, bond, active, init_pf, simple_reset_request,
                    scan_receive, scan_odom, map_receive, map, reset_id>>
    BY DEF SetInitialPose
  <2>2. \/ initialpose_receive /\ init_request' = TRUE
                               /\ initialpose_receive' = initialpose_receive
        \/ /\ scan_receive /\ map_receive
           /\ initialpose_receive' = TRUE /\ init_request' = init_request
        \/ init_request' = init_request /\ initialpose_receive' = initialpose_receive
    BY DEF SetInitialPose
  <2>3. init_request' \in BOOLEAN /\ initialpose_receive' \in BOOLEAN
    BY <2>2 DEF TypeOK
  <2>4. /\ init_request' => initialpose_receive'
        /\ initialpose_receive' => scan_receive /\ map_receive
    BY <2>2 DEF FlagsAgree
  <2> QED BY <2>1, <2>3, <2>4
<1>7. TypeOK'
  BY <1>1, <1>2, <1>4, <1>5, <1>6 DEF TypeOK
<1>8. FlagsAgree'
  BY <1>5, <1>6 DEF FlagsAgree
<1>9. QuietUnlessActive' /\ LifecycleAgrees' /\ DataIsThere'
  BY <1>2, <1>5, <1>6 DEF QuietUnlessActive, LifecycleAgrees, DataIsThere
<1> QED BY <1>7, <1>8, <1>9

LEMMA CbSimpleResetStep ==
    ASSUME IInv, CbSimpleReset
    PROVE  IInv'
<1> USE DEF IInv, flags, input, ghost, node
<1>1. /\ asked' \in Seq(Kind) /\ asked_at' \in Seq(Readings)
      /\ Len(asked') = Len(asked) + 1
      /\ served \in Seq(Request')
      /\ init_pose \in 0 .. Len(asked')
  BY AskLemma DEF CbSimpleReset, Kind
<1>2. reset_id' \in 0 .. Len(asked') /\ reset_id' # 0
  BY <1>1 DEF CbSimpleReset, TypeOK
<1>3. TypeOK'
  BY <1>1, <1>2 DEF TypeOK, CbSimpleReset
<1>4. FlagsAgree'
  BY DEF FlagsAgree, CbSimpleReset, Ask
<1>5. QuietUnlessActive' /\ LifecycleAgrees' /\ DataIsThere'
  BY <1>2 DEF QuietUnlessActive, LifecycleAgrees, DataIsThere, CbSimpleReset
<1> QED BY <1>3, <1>4, <1>5

(* Both callers of loop() give it the filter with the scan marked as new.  *)
LEMMA ScanStep ==
    ASSUME IInv, (\E x \in Readings : CbScan(x)) \/ CbNomotionUpdate
    PROVE  IInv'
<1> USE DEF IInv, flags, input, ghost, node
<1>1. init_pf /\ pf \in Filter(Maps) /\ Counted(pf) /\ pf.map = map /\ map \in Maps
  <2>1. init_pf /\ pf # NoPf /\ pf \in Filter(Maps) /\ pf.map = map
    BY DEF CbScan, CbNomotionUpdate, TypeOK, FlagsAgree
  <2> QED BY <2>1, Fields DEF DataIsThere
<1>2. PICK f \in {SetScan(pf), ClearProcessedScan(pf)}, x \in Readings :
        /\ Loop(f, x)
        /\ scan_odom' = x /\ scan_receive' = TRUE
        /\ UNCHANGED <<lifecycle, wired, pubs, bond, active, init_pf, initialpose_receive,
                       map_receive, map, init_pose, reset_id, asked, asked_at>>
  <2>1. ASSUME NEW x \in Readings, CbScan(x)
        PROVE  /\ Loop(SetScan(pf), x)
               /\ scan_odom' = x /\ scan_receive' = TRUE
               /\ UNCHANGED <<lifecycle, wired, pubs, bond, active, init_pf,
                              initialpose_receive, map_receive, map, init_pose, reset_id,
                              asked, asked_at>>
    BY <2>1 DEF CbScan
  <2>2. CASE CbNomotionUpdate
    <3>1. scan_odom \in Readings /\ scan_receive = TRUE
      BY <2>2 DEF CbNomotionUpdate, TypeOK, DataIsThere
    <3>2. /\ Loop(ClearProcessedScan(pf), scan_odom)
          /\ UNCHANGED <<lifecycle, wired, pubs, bond, active, init_pf, initialpose_receive,
                         scan_receive, scan_odom, map_receive, map, init_pose, reset_id,
                         asked, asked_at>>
      BY <2>2 DEF CbNomotionUpdate
    <3> QED BY <3>1, <3>2
  <2> QED BY <2>1, <2>2
<1>3. f \in Filter(Maps) /\ f.map = map /\ Counted(f)
  BY <1>1, SettersLemma
<1>4. pf' \in Filter(Maps) /\ pf'.map = map /\ Counted(pf')
  BY <1>1, <1>2, <1>3, LoopLemma
<1>5. pf' # NoPf
  BY <1>4, NoPfAssumption
<1>6. /\ served' \in Seq(Request) /\ init_request' = FALSE
      /\ simple_reset_request' \in BOOLEAN
      /\ simple_reset_request' => simple_reset_request
  BY <1>2, LoopRequests
<1>7. TypeOK'
  BY <1>2, <1>4, <1>6 DEF TypeOK, Request
<1>8. FlagsAgree'
  BY <1>1, <1>2, <1>4, <1>5, <1>6 DEF FlagsAgree
<1>9. QuietUnlessActive' /\ LifecycleAgrees'
  BY <1>2 DEF QuietUnlessActive, LifecycleAgrees
<1>10. DataIsThere'
  <2>1. scan_odom' # NoOdom
    BY <1>2, ReadingsAssumption
  <2> QED BY <1>2, <1>4, <1>6, <2>1 DEF DataIsThere
<1> QED BY <1>7, <1>8, <1>9, <1>10

LEMMA StutterStep ==
    ASSUME IInv, UNCHANGED vars
    PROVE  IInv'
  BY DEF vars, flags, input, ghost, node, IInv, TypeOK, Request, FlagsAgree,
         QuietUnlessActive, LifecycleAgrees, DataIsThere

LEMMA NextIInv == IInv /\ [Next]_vars => IInv'
  BY TransitionStep, ReceiveMapStep, SetInitialPoseStep, CbSimpleResetStep, ScanStep,
     StutterStep DEF Next

LEMMA IInvIsInvariant == Safe => []IInv
  BY InitIInv, NextIInv, PTL DEF Safe

-----------------------------------------------------------------------------
(* The variables keep their types, in every run of the node.               *)
THEOREM NodeTypeOK == Spec => []TypeOK
<1>1. IInv => TypeOK
  BY DEF IInv
<1> QED BY <1>1, IInvIsInvariant, PTL DEF Spec

(* No callback dereferences a null pf_ or a null publisher.                *)
THEOREM NodeNoNullUse == Spec => []NoNullUse
<1>1. IInv => NoNullUse
  BY DEF IInv, NoNullUse, FlagsAgree, LifecycleAgrees
<1> QED BY <1>1, IInvIsInvariant, PTL DEF Spec

(* The flags of the node agree with one another and with the filter.       *)
THEOREM NodeFlagsAgree == Spec => []FlagsAgree
<1>1. IInv => FlagsAgree
  BY DEF IInv
<1> QED BY <1>1, IInvIsInvariant, PTL DEF Spec

(* A node that is not active, and not shut down, is quiet.                 *)
THEOREM NodeQuietUnlessActive == Spec => []QuietUnlessActive
<1>1. IInv => QuietUnlessActive
  BY DEF IInv
<1> QED BY <1>1, IInvIsInvariant, PTL DEF Spec

(* Between the last reading the filter had when it placed a particle and   *)
(* the last it has now, no motion is lost to it or applied twice, but for  *)
(* less than the threshold at either end.                                  *)
THEOREM NodeMotionIsTracked == Spec => []MotionIsTracked
<1>1. IInv => MotionIsTracked
  BY CountedIsTracked DEF IInv, TypeOK, DataIsThere, MotionIsTracked
<1> QED BY <1>1, IInvIsInvariant, PTL DEF Spec

-----------------------------------------------------------------------------
(* Particles of different origin appear in no step but a scatter over a    *)
(* map with too few free cells.                                            *)
LEMMA SurvivorStep ==
    ASSUME IInv, Next, NoSurvivor, ~NoSurvivor'
    PROVE  /\ simple_reset_request /\ ~simple_reset_request'
           /\ FreeCells[pf.map] < NumParticles
<1> USE DEF IInv, flags, input, ghost, node
<1>1. pf' # NoPf /\ ~OneOrigin(pf')
  BY DEF NoSurvivor
<1>2. pf' # pf
  BY <1>1 DEF NoSurvivor
<1>3. CASE Configure \/ Activate \/ Deactivate \/ Cleanup \/ Shutdown
  BY <1>1, <1>2, <1>3 DEF Configure, Activate, Deactivate, Cleanup, Shutdown
<1>4. ASSUME NEW m \in Maps, ReceiveMap(m) PROVE FALSE
  <2>1. init_pf => pf \in Filter(Maps) /\ OneOrigin(pf)
    BY DEF TypeOK, FlagsAgree, NoSurvivor
  <2> QED BY <1>1, <1>4, <2>1, SettersLemma, NewFilterLemma DEF ReceiveMap, InitPF
<1>5. CASE SetInitialPose
  <2>1. scan_receive /\ map_receive /\ pf' = Initialize(pf, init_pose')
    BY <1>2, <1>5 DEF SetInitialPose
  <2>2. pf \in Filter(Maps)
    BY <2>1 DEF TypeOK, FlagsAgree
  <2>3. init_pose' \in Nat
    BY <1>5, AskLemma DEF SetInitialPose, Kind, TypeOK
  <2> QED BY <1>1, <2>1, <2>2, <2>3, InitializeLemma
<1>6. CASE CbSimpleReset
  BY <1>2, <1>6 DEF CbSimpleReset
<1>7. ASSUME NEW f \in {SetScan(pf), ClearProcessedScan(pf)}, NEW x \in Readings,
             init_pf, Loop(f, x)
      PROVE  /\ simple_reset_request /\ ~simple_reset_request'
             /\ FreeCells[pf.map] < NumParticles
  <2>1. pf \in Filter(Maps) /\ Counted(pf) /\ OneOrigin(pf)
    BY <1>7 DEF TypeOK, FlagsAgree, DataIsThere, NoSurvivor
  <2>2. f \in Filter(Maps) /\ f.map = pf.map /\ Counted(f) /\ OneOrigin(f)
    BY <2>1, Fields, SettersLemma
  <2> QED BY <1>1, <1>7, <2>2, LoopLemma
<1>8. ASSUME NEW x \in Readings, CbScan(x)
      PROVE  Loop(SetScan(pf), x) /\ init_pf
  BY <1>8 DEF CbScan
<1>9. CASE CbNomotionUpdate
  <2>1. Loop(ClearProcessedScan(pf), scan_odom) /\ init_pf /\ scan_odom \in Readings
    BY <1>9 DEF CbNomotionUpdate, TypeOK, DataIsThere
  <2> QED BY <1>7, <2>1
<1> QED BY <1>3, <1>4, <1>5, <1>6, <1>7, <1>8, <1>9 DEF Next

(* A belief of one origin survives everything but a cramped scatter.       *)
THEOREM NodeSurvivorsOnlyIfCramped == Spec => SurvivorsOnlyIfCramped
<1>1. IInv /\ [Next]_vars =>
        [NoSurvivor /\ ~NoSurvivor' =>
            /\ simple_reset_request /\ ~simple_reset_request'
            /\ FreeCells[pf.map] < NumParticles]_vars
  BY SurvivorStep
<1> QED BY <1>1, IInvIsInvariant, PTL DEF Spec, Safe, SurvivorsOnlyIfCramped

-----------------------------------------------------------------------------
(* Every callback is a step of PlacementRequests, or leaves the requests.  *)
LEMMA InitImplements == Init => PR!Init
  BY DEF Init, PR!Init

LEMMA StepImplements == IInv /\ [Next]_vars => [PR!Next]_(PR!vars)
<1> SUFFICES ASSUME IInv, [Next]_vars PROVE PR!Next \/ UNCHANGED PR!vars
  OBVIOUS
<1> USE DEF IInv, flags, input, ghost, node
<1>1. CASE Configure \/ Shutdown \/ UNCHANGED vars
  BY <1>1 DEF Configure, Shutdown, vars, PR!vars
<1>2. CASE Activate \/ Deactivate
  BY <1>2 DEF Activate, Deactivate, TypeOK, QuietUnlessActive, PR!vars, PR!Next, PR!Turn
<1>3. CASE Cleanup
  BY <1>3 DEF Cleanup, ClearFlags, ClearRequests, QuietUnlessActive, PR!Next, PR!Cancel
<1>4. ASSUME NEW m \in Maps, ReceiveMap(m) PROVE PR!Next \/ UNCHANGED PR!vars
  BY <1>4 DEF ReceiveMap, TypeOK, PR!vars, PR!Next, PR!Turn
<1>5. CASE SetInitialPose
  <2>1. /\ Len(asked) < MaxRequest /\ asked' = Append(asked, "pose")
        /\ init_pose' = Len(asked')
        /\ UNCHANGED <<active, init_pf, simple_reset_request, reset_id>>
    BY <1>5 DEF SetInitialPose, Ask
  <2>2. \/ init_request' = TRUE /\ served' = served
        \/ /\ init_request = FALSE /\ init_request' = FALSE
           /\ served' = Append(served, Len(asked'))
        \/ init_request = FALSE /\ init_request' = FALSE /\ served' = served
    BY <1>5, <2>1 DEF SetInitialPose, FlagsAgree, TypeOK
  <2>3. PR!AskPose
    BY <2>1, <2>2 DEF PR!AskPose, PR!Ask
  <2> QED BY <2>3 DEF PR!Next
<1>6. CASE CbSimpleReset
  <2>1. PR!AskScatter
    BY <1>6 DEF CbSimpleReset, Ask, PR!AskScatter, PR!Ask
  <2> QED BY <2>1 DEF PR!Next
<1>7. CASE (\E x \in Readings : CbScan(x)) \/ CbNomotionUpdate
  <2>1. /\ active /\ init_pf /\ RequestTaken
        /\ served' = IF init_request THEN Append(served, init_pose)
                     ELSE IF simple_reset_request THEN Append(served, reset_id)
                     ELSE served
        /\ UNCHANGED <<active, init_pf, init_pose, reset_id, asked>>
    BY <1>7 DEF CbScan, CbNomotionUpdate, Loop
  <2>2. CASE init_request
    <3>1. PR!ServePose
      BY <2>1, <2>2 DEF RequestTaken, DataIsThere, TypeOK, PR!ServePose
    <3> QED BY <3>1 DEF PR!Next, PR!Serve
  <2>3. CASE ~init_request /\ simple_reset_request
    <3>1. PR!ServeScatter
      BY <2>1, <2>3 DEF RequestTaken, DataIsThere, TypeOK, PR!ServeScatter
    <3> QED BY <3>1 DEF PR!Next, PR!Serve
  <2>4. CASE ~init_request /\ ~simple_reset_request
    BY <2>1, <2>4 DEF RequestTaken, PR!vars
  <2> QED BY <2>2, <2>3, <2>4
<1> QED BY <1>1, <1>2, <1>3, <1>4, <1>5, <1>6, <1>7 DEF Next

(* The node implements the safety part of PlacementRequests.               *)
THEOREM NodeImplementsRequests == Spec => PR!Safe
  BY InitImplements, StepImplements, IInvIsInvariant, PTL DEF Spec, Safe, PR!Safe

(* So no request places the particles twice, and an older pose never       *)
(* overrides a newer one, in every run of the node.                        *)
Proofs == INSTANCE PlacementRequestsProofs WITH
        pose    <- IF init_request THEN init_pose ELSE 0,
        scatter <- IF simple_reset_request THEN reset_id ELSE 0,
        up      <- active /\ init_pf

THEOREM NodeObeysOnceInOrder == Spec => [](PR!AtMostOnce /\ PR!PosesInOrder)
<1>1. Proofs!Safe => []Proofs!IInv
  BY Proofs!RequestsInvariant, MaxRequestAssumption
<1>2. PR!Init => Proofs!Init
  BY DEF PR!Init, Proofs!Init
<1>3. [PR!Next]_(PR!vars) => [Proofs!Next]_(Proofs!vars)
  <2>1. PR!Next => Proofs!Next
    BY Zenon DEF PR!Next, PR!AskPose, PR!AskScatter, PR!Ask, PR!Serve, PR!ServePose,
       PR!ServeScatter, PR!Turn, PR!Cancel, Proofs!Next, Proofs!AskPose,
       Proofs!AskScatter, Proofs!Ask, Proofs!Serve, Proofs!ServePose,
       Proofs!ServeScatter, Proofs!Turn, Proofs!Cancel
  <2>2. UNCHANGED PR!vars => UNCHANGED Proofs!vars
    BY Zenon DEF PR!vars, Proofs!vars
  <2> QED BY <2>1, <2>2
<1>4. Proofs!IInv => PR!AtMostOnce /\ PR!PosesInOrder
  BY Zenon DEF Proofs!IInv, Proofs!AtMostOnce, Proofs!PosesInOrder, PR!AtMostOnce,
     PR!PosesInOrder
<1> QED BY <1>1, <1>2, <1>3, <1>4, NodeImplementsRequests, PTL DEF PR!Safe, Proofs!Safe
=============================================================================
