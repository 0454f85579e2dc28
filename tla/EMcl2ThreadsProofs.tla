--------------------------- MODULE EMcl2ThreadsProofs ---------------------------
(***************************************************************************)
(* Proofs that the join in the listener's destructor is enough: an update  *)
(* on either thread finds the objects it uses (AliveWhileUsed), and a node *)
(* cleaned up has nothing left, a running callback included (NothingLeft). *)
(* IInv adds what holds on the way: which members exist, and which thread  *)
(* is where, at each step of initTF and on_cleanup.                        *)
(*                                                                         *)
(* Then that the counters stay within their types, and that all the harm   *)
(* the threads do to each other takes an overlap (HarmOnlyByOverlap): as   *)
(* long as they take turns, what a callback put into the members is what   *)
(* it finds there (Turns).                                                 *)
(***************************************************************************)
EXTENDS EMcl2Threads, OperatorLemmas

Flags == init_pf \/ init_request \/ initialpose_receive \/ simple_reset_request
         \/ scan_receive \/ map_receive \/ active

Places ==
    /\ at \in [Thread -> {"idle"} \cup Update \cup Transition]
    /\ at["listener"] \notin Transition
    /\ lifecycle \in {"unconfigured", "inactive", "active"}
    /\ active => lifecycle = "active"

(* What exists of a configured node: the buffer always, the filter object  *)
(* once there has been a map.                                              *)
Existing ==
    /\ objs \subseteq Object
    /\ lifecycle # "unconfigured" => "tf" \in objs
    /\ init_pf => "pf" \in objs /\ lifecycle # "unconfigured"

(* An unconfigured node has nothing and does nothing. *)
Unconfigured ==
    lifecycle = "unconfigured" =>
        objs = {} /\ waiting = {} /\ ~Flags /\ Idle("executor") /\ Idle("listener")

(* The thread has ended once it is joined, and is not started again before *)
(* initTF builds a new listener.                                           *)
Joined == at["executor"] \in {"build", "clear"} => "tfl" \notin objs /\ Idle("listener")

(* The members on_cleanup has destroyed so far. *)
CleanedSoFar ==
    /\ at["executor"] \in {"unfilter", "untfb", "unjoin", "clear"} =>
            lifecycle = "inactive" /\ "pubs" \notin objs
    /\ at["executor"] \in {"untfb", "unjoin", "clear"} =>
            "filter" \notin objs /\ waiting = {}
    /\ at["executor"] \in {"unjoin", "clear"} => "tfb" \notin objs

IInv == Places /\ Existing /\ Unconfigured /\ Joined /\ CleanedSoFar /\ AliveWhileUsed

-----------------------------------------------------------------------------
(* The constructor leaves nothing running and nothing built. *)
LEMMA InitInv == Init => IInv
  BY DEF Init, IInv, Places, Existing, Unconfigured, Joined, CleanedSoFar, AliveWhileUsed,
         Flags, Idle, Thread, Update, Transition, Object

(* A step of an update moves its own thread and destroys nothing. *)
LEMMA UpdateStep ==
    ASSUME IInv, NEW t \in Thread, RunUpdate(t)
    PROVE  IInv'
<1> USE DEF IInv, Places, Existing, Unconfigured, Joined, CleanedSoFar, AliveWhileUsed,
            Flags, Idle, Thread, Update, Transition, Object, Goto,
            node, flags, queue, scan, request
<1>1. CASE Stamp(t)
  BY <1>1 DEF Stamp
<1>2. CASE SetScan(t)
  BY <1>2 DEF SetScan
<1>3. CASE TakeRequest(t)
  BY <1>3 DEF TakeRequest
<1>4. CASE RequestTaken(t)
  BY <1>4 DEF RequestTaken
<1>5. CASE MotionUpdate(t)
  BY <1>5 DEF MotionUpdate
<1>6. CASE SensorUpdate(t)
  BY <1>6 DEF SensorUpdate
<1>7. CASE Processed(t)
  BY <1>7 DEF Processed
<1>8. CASE Publish(t)
  BY <1>8 DEF Publish
<1>9. CASE Return(t)
  BY <1>9 DEF Return
<1> QED
  BY <1>1, <1>2, <1>3, <1>4, <1>5, <1>6, <1>7, <1>8, <1>9 DEF RunUpdate

(* A scan, on whichever thread it is delivered, starts an update only when *)
(* the filter exists, and on the listener's only while that thread lives.  *)
LEMMA DeliverStep ==
    ASSUME IInv, ScanArrives \/ TransformArrives
    PROVE  IInv'
<1> USE DEF IInv, Places, Existing, Unconfigured, Joined, CleanedSoFar, AliveWhileUsed,
            Flags, Idle, Thread, Update, Transition, Object, Goto,
            node, flags, queue, scan, request, threads
<1>1. CASE ScanArrives
  BY <1>1 DEF ScanArrives, CbScan
<1>2. CASE TransformArrives
  <2> PICK s \in waiting : CbScan("listener", s) /\ waiting' = waiting \ {s}
    BY <1>2 DEF TransformArrives
  <2> QED BY <1>2 DEF TransformArrives, CbScan
<1> QED BY <1>1, <1>2

(* The transitions that take one step. *)
LEMMA LifecycleStep ==
    ASSUME IInv, Configure \/ Activate \/ Deactivate
    PROVE  IInv'
<1> USE DEF IInv, Places, Existing, Unconfigured, Joined, CleanedSoFar, AliveWhileUsed,
            Flags, Idle, Thread, Update, Transition, Object, Goto,
            node, flags, queue, scan, request, threads
<1>1. CASE Configure
  BY <1>1 DEF Configure
<1>2. CASE Activate
  BY <1>2 DEF Activate
<1>3. CASE Deactivate
  BY <1>3 DEF Deactivate
<1> QED BY <1>1, <1>2, <1>3

(* A map builds the filter; the listener is joined before initTF replaces  *)
(* the buffer.                                                             *)
LEMMA MapStep ==
    ASSUME IInv, ReceiveMap \/ InitTF
    PROVE  IInv'
<1> USE DEF IInv, Places, Existing, Unconfigured, Joined, CleanedSoFar, AliveWhileUsed,
            Flags, Idle, Thread, Update, Transition, Object, Goto,
            node, flags, queue, scan, request, threads
<1>1. CASE ReceiveMap
  <2>1. lifecycle # "unconfigured"
    BY <1>1 DEF ReceiveMap
  <2>2. CASE init_pf
    BY <1>1, <2>1, <2>2 DEF ReceiveMap
  <2>3. CASE ~init_pf
    BY <1>1, <2>1, <2>3 DEF ReceiveMap
  <2> QED BY <2>2, <2>3
<1>2. CASE Destroy({"tfb"}, "initTF", "join") /\ UNCHANGED <<node, waiting>>
  BY <1>2 DEF Destroy
<1>3. CASE Join("join", "build")
  BY <1>3 DEF Join, Destroy
<1>4. CASE Build
  BY <1>4 DEF Build
<1> QED BY <1>1, <1>2, <1>3, <1>4 DEF InitTF

(* on_cleanup: each step destroys what the listener's thread does not need *)
(* or comes after the join.                                                *)
LEMMA CleanupStep ==
    ASSUME IInv, Cleanup
    PROVE  IInv'
<1> USE DEF IInv, Places, Existing, Unconfigured, Joined, CleanedSoFar, AliveWhileUsed,
            Flags, Idle, Thread, Update, Transition, Object, Goto,
            node, flags, queue, scan, request, threads
<1>1. CASE lifecycle = "inactive" /\ Destroy({"pubs"}, "idle", "unfilter")
             /\ UNCHANGED <<node, waiting>>
  BY <1>1 DEF Destroy
<1>2. CASE Destroy({"filter"}, "unfilter", "untfb") /\ waiting' = {} /\ UNCHANGED node
  BY <1>2 DEF Destroy
<1>3. CASE Destroy({"tfb"}, "untfb", "unjoin") /\ UNCHANGED <<node, waiting>>
  BY <1>3 DEF Destroy
<1>4. CASE Join("unjoin", "clear")
  BY <1>4 DEF Join, Destroy
<1>5. CASE Clear
  <2>1. at["executor"] = "clear" /\ Idle("listener") /\ waiting = {} /\ objs' = {}
    BY <1>5 DEF Clear
  <2> QED BY <1>5, <2>1 DEF Clear
<1> QED BY <1>1, <1>2, <1>3, <1>4, <1>5 DEF Cleanup

(* Requests change flags and places only. *)
LEMMA RequestStep ==
    ASSUME IInv, SetInitialPose \/ Decide \/ CbSimpleReset \/ CbNomotionUpdate
    PROVE  IInv'
<1> USE DEF IInv, Places, Existing, Unconfigured, Joined, CleanedSoFar, AliveWhileUsed,
            Flags, Idle, Thread, Update, Transition, Object, Goto,
            node, flags, queue, scan, request, threads
<1>1. CASE SetInitialPose
  BY <1>1 DEF SetInitialPose
<1>2. CASE Decide
  BY <1>2 DEF Decide
<1>3. CASE CbSimpleReset
  BY <1>3 DEF CbSimpleReset
<1>4. CASE CbNomotionUpdate
  BY <1>4 DEF CbNomotionUpdate
<1> QED BY <1>1, <1>2, <1>3, <1>4

LEMMA NextInv == IInv /\ [Next]_vars => IInv'
<1> SUFFICES ASSUME IInv, [Next]_vars PROVE IInv'
  OBVIOUS
<1>1. CASE \E t \in Thread : RunUpdate(t)
  BY <1>1, UpdateStep
<1>2. CASE ScanArrives \/ TransformArrives
  BY <1>2, DeliverStep
<1>3. CASE Configure \/ Activate \/ Deactivate
  BY <1>3, LifecycleStep
<1>4. CASE ReceiveMap \/ InitTF
  BY <1>4, MapStep
<1>5. CASE Cleanup
  BY <1>5, CleanupStep
<1>6. CASE SetInitialPose \/ Decide \/ CbSimpleReset \/ CbNomotionUpdate
  BY <1>6, RequestStep
<1>7. CASE UNCHANGED vars
  BY <1>7 DEF vars, node, flags, queue, scan, request, threads, IInv, Places, Existing,
              Unconfigured, Joined, CleanedSoFar, AliveWhileUsed, Flags, Idle
<1>8. Next => \/ \E t \in Thread : RunUpdate(t)
              \/ ScanArrives \/ TransformArrives
              \/ Configure \/ Activate \/ Deactivate \/ ReceiveMap \/ InitTF \/ Cleanup
              \/ SetInitialPose \/ Decide \/ CbSimpleReset \/ CbNomotionUpdate
  BY DEF Next, Executor, Listener, Thread
<1> QED BY <1>1, <1>2, <1>3, <1>4, <1>5, <1>6, <1>7, <1>8

(* The inductive invariant holds in every reachable state. *)
THEOREM ThreadsInvariant == Safe => []IInv
  BY InitInv, NextInv, PTL DEF Safe

(* No update, on either thread, uses a filter or a transform buffer that   *)
(* on_cleanup or initTF has destroyed.                                     *)
THEOREM UpdateIsSafeFromCleanup == Safe => []AliveWhileUsed
<1>1. IInv => AliveWhileUsed
  BY DEF IInv
<1> QED BY <1>1, ThreadsInvariant, PTL

(* A node cleaned up has nothing of its configuration left: no member, no  *)
(* flag, no waiting scan, no callback still running.                       *)
THEOREM CleanupLeavesNothing == Safe => []NothingLeft
<1>1. IInv => NothingLeft
  BY DEF IInv, Unconfigured, NothingLeft, Flags
<1> QED BY <1>1, ThreadsInvariant, PTL

-----------------------------------------------------------------------------
(* No scan is counted by setScan twice: those counted, those on their way  *)
(* to it and those waiting are at most those that have arrived.            *)
Entering(t) == IF at[t] \in {"stamp", "scan"} THEN 1 ELSE 0

(* TypeOK in four parts, each kept by itself. *)
TypedFlags ==
    /\ lifecycle \in {"unconfigured", "inactive", "active"} /\ active \in BOOLEAN
    /\ init_pf \in BOOLEAN /\ init_request \in BOOLEAN
    /\ initialpose_receive \in BOOLEAN /\ simple_reset_request \in BOOLEAN
    /\ scan_receive \in BOOLEAN /\ map_receive \in BOOLEAN
    /\ down \in BOOLEAN /\ overlapped \in BOOLEAN

Requests == init_pose \in 0 .. MaxRequest /\ obeyed \in 0 .. init_pose

Local(n) == [scan : 0 .. n, odom : 0 .. n, weighs : 0 .. n]

Locals ==
    /\ arrived \in Nat /\ waiting \subseteq 1 .. arrived
    /\ stamp \in 0 .. arrived /\ ranges \in 0 .. arrived
    /\ upd \in [Thread -> Local(arrived)]

Counts ==
    /\ arrived \in 0 .. MaxScan
    /\ waiting \subseteq 1 .. arrived /\ Cardinality(waiting) <= QueueSize
    /\ seq \in Nat /\ processed \in -1 .. seq
    /\ seq + Entering("executor") + Entering("listener") + Cardinality(waiting) <= arrived

(* Flags stay flags. *)
LEMMA NextFlags == TypedFlags /\ [Next]_vars => TypedFlags'
<1> SUFFICES ASSUME TypedFlags, [Next]_vars PROVE TypedFlags'
  OBVIOUS
<1> USE DEF TypedFlags, node, flags
<1>1. ASSUME NEW t \in Thread, RunUpdate(t), overlapped' \in BOOLEAN
      PROVE  TypedFlags'
  <2>1. CASE Stamp(t)
    BY <1>1, <2>1 DEF Stamp
  <2>2. CASE SetScan(t) \/ TakeRequest(t) \/ MotionUpdate(t)
            \/ SensorUpdate(t) \/ Processed(t)
    BY <1>1, <2>2 DEF SetScan, TakeRequest, MotionUpdate, SensorUpdate, Processed
  <2>3. CASE RequestTaken(t)
    BY <1>1, <2>3 DEF RequestTaken
  <2>4. CASE Publish(t)
    BY <1>1, <2>4 DEF Publish
  <2>5. CASE Return(t)
    BY <1>1, <2>5 DEF Return
  <2> QED BY <1>1, <2>1, <2>2, <2>3, <2>4, <2>5 DEF RunUpdate
<1>2. ASSUME ScanArrives \/ TransformArrives \/ Configure \/ Activate \/ Deactivate
             \/ ReceiveMap \/ InitTF \/ Cleanup,
             overlapped' \in BOOLEAN
      PROVE  TypedFlags'
  BY <1>2 DEF ScanArrives, TransformArrives, Configure, Activate, Deactivate, ReceiveMap,
              InitTF, Cleanup, Join, Build, Destroy, Clear
<1>3. ASSUME SetInitialPose \/ CbSimpleReset \/ CbNomotionUpdate, overlapped' \in BOOLEAN
      PROVE  TypedFlags'
  BY <1>3 DEF SetInitialPose, CbSimpleReset, CbNomotionUpdate
<1>4. ASSUME Decide, overlapped' \in BOOLEAN
      PROVE  TypedFlags'
  <2>1. init_request' \in BOOLEAN /\ initialpose_receive' \in BOOLEAN
    BY <1>4, Zenon DEF Decide
  <2> QED BY <1>4, <2>1, Zenon DEF Decide
<1>5. CASE UNCHANGED vars
  BY <1>5 DEF vars
<1>6. Next => overlapped' \in BOOLEAN
  BY DEF Next, Executor, Listener
<1> QED
  BY <1>1, <1>2, <1>3, <1>4, <1>5, <1>6 DEF Next, Executor, Listener, Thread

(* A pose is obeyed after it is asked for. *)
LEMMA NextRequests == Requests /\ [Next]_vars => Requests'
<1> SUFFICES ASSUME Requests, [Next]_vars PROVE Requests'
  OBVIOUS
<1> USE BoundsAssumption DEF Requests, request
<1>1. ASSUME NEW t \in Thread, RunUpdate(t) PROVE Requests'
  <2>1. CASE TakeRequest(t)
    BY <2>1 DEF TakeRequest
  <2>2. CASE Stamp(t) \/ SetScan(t) \/ RequestTaken(t) \/ MotionUpdate(t)
            \/ SensorUpdate(t)
             \/ Processed(t) \/ Publish(t) \/ Return(t)
    BY <2>2 DEF Stamp, SetScan, RequestTaken, MotionUpdate, SensorUpdate, Processed,
                Publish, Return
  <2> QED BY <1>1, <2>1, <2>2 DEF RunUpdate
<1>2. CASE ScanArrives \/ TransformArrives \/ Configure \/ Activate \/ Deactivate
           \/ ReceiveMap \/ InitTF \/ Cleanup
  BY <1>2 DEF ScanArrives, TransformArrives, Configure, Activate, Deactivate, ReceiveMap,
              InitTF, Cleanup, Join, Build, Destroy, Clear
<1>3. CASE SetInitialPose \/ Decide \/ CbSimpleReset \/ CbNomotionUpdate
  BY <1>3 DEF SetInitialPose, Decide, CbSimpleReset, CbNomotionUpdate
<1>4. CASE UNCHANGED vars
  BY <1>4 DEF vars
<1> QED
  BY <1>1, <1>2, <1>3, <1>4 DEF Next, Executor, Listener, Thread

(* What the steps of an update make of its locals. *)
LEMMA LocalsKept ==
    ASSUME NEW n \in Nat, NEW u \in [Thread -> Local(n)],
           NEW t \in Thread, NEW s \in 0 .. n
    PROVE  /\ [u EXCEPT ![t] = [NoUpdate EXCEPT !.scan = s]] \in [Thread -> Local(n)]
           /\ [u EXCEPT ![t] = NoUpdate] \in [Thread -> Local(n)]
           /\ [u EXCEPT ![t] = [@ EXCEPT !.odom = s]] \in [Thread -> Local(n)]
           /\ [u EXCEPT ![t] = [@ EXCEPT !.weighs = s]] \in [Thread -> Local(n)]
           /\ u \in [Thread -> Local(n + 1)]
<1>1. NoUpdate \in Local(n) /\ [NoUpdate EXCEPT !.scan = s] \in Local(n)
  BY DEF NoUpdate, Local
<1>2. u[t] \in Local(n)
  OBVIOUS
<1>3. [u[t] EXCEPT !.odom = s] \in Local(n) /\ [u[t] EXCEPT !.weighs = s] \in Local(n)
  BY <1>2 DEF Local
<1>4. Local(n) \subseteq Local(n + 1)
  BY DEF Local
<1> HIDE DEF NoUpdate, Local
<1> QED BY <1>1, <1>2, <1>3, <1>4

(* Stamps are those of scans that have arrived. *)
LEMMA NextLocals == Locals /\ [Next]_vars => Locals'
<1> SUFFICES ASSUME Locals, [Next]_vars PROVE Locals'
  OBVIOUS
<1> USE DEF Locals, queue, scan, threads
<1>1. ASSUME NEW t \in Thread, RunUpdate(t) PROVE Locals'
  <2>1. upd[t] \in Local(arrived) /\ upd[t].scan \in 0 .. arrived
    BY <1>1 DEF Local
  <2>2. CASE Stamp(t)
    BY <2>1, <2>2 DEF Stamp
  <2>7. CASE SetScan(t)
    BY <2>1, <2>7 DEF SetScan
  <2>3. CASE TakeRequest(t) \/ RequestTaken(t) \/ Processed(t) \/ Publish(t)
    BY <2>3 DEF TakeRequest, RequestTaken, Processed, Publish
  <2>4. CASE MotionUpdate(t)
    BY <2>4, LocalsKept DEF MotionUpdate
  <2>5. CASE SensorUpdate(t)
    <3>1. upd' = upd \/ upd' = [upd EXCEPT ![t] = [@ EXCEPT !.weighs = ranges]]
      BY <2>5, Zenon DEF SensorUpdate
    <3>2. upd' \in [Thread -> Local(arrived)]
      <4>1. [upd EXCEPT ![t] = [@ EXCEPT !.weighs = ranges]]
            \in [Thread -> Local(arrived)]
        BY LocalsKept
      <4> QED BY <3>1, <4>1
    <3> QED BY <2>5, <3>2 DEF SensorUpdate
  <2>6. CASE Return(t)
    <3>1. 0 \in 0 .. arrived
      OBVIOUS
    <3> QED BY <2>6, <3>1, LocalsKept DEF Return
  <2> QED BY <1>1, <2>2, <2>3, <2>4, <2>5, <2>6, <2>7 DEF RunUpdate
<1>2. ASSUME NEW n \in Nat, NEW t \in Thread, NEW s \in 0 .. n, CbScan(t, s),
             upd \in [Thread -> Local(n)]
      PROVE  upd' \in [Thread -> Local(n)]
  <2>1. \/ upd' = [upd EXCEPT ![t] = [NoUpdate EXCEPT !.scan = s]]
        \/ upd' = upd
    BY <1>2 DEF CbScan
  <2>2. [upd EXCEPT ![t] = [NoUpdate EXCEPT !.scan = s]] \in [Thread -> Local(n)]
    BY <1>2, LocalsKept
  <2> QED BY <1>2, <2>1, <2>2
<1>3. CASE ScanArrives
  <2>1. arrived' = arrived + 1 /\ stamp' = stamp /\ ranges' = ranges
    BY <1>3 DEF ScanArrives
  <2>2. waiting' \subseteq waiting \cup {arrived + 1}
    BY <1>3, <2>1 DEF ScanArrives, Enqueue
  <2>3. upd \in [Thread -> Local(arrived')]
    <3>1. 0 \in 0 .. arrived /\ "listener" \in Thread
      BY DEF Thread
    <3> QED BY <2>1, <3>1, LocalsKept
  <2>4. upd' \in [Thread -> Local(arrived')]
    <3>1. arrived' \in Nat /\ arrived' \in 0 .. arrived'
      BY <2>1
    <3>2. \/ CbScan("executor", arrived')
          \/ upd' = upd
      BY <1>3 DEF ScanArrives
    <3> QED BY <1>2, <2>3, <3>1, <3>2 DEF Thread
  <2> QED BY <2>1, <2>2, <2>4
<1>4. CASE TransformArrives
  <2>1. PICK s \in waiting : CbScan("listener", s) /\ waiting' = waiting \ {s}
    BY <1>4 DEF TransformArrives
  <2>2. upd' \in [Thread -> Local(arrived)]
    BY <1>2, <2>1 DEF Thread
  <2> QED BY <1>4, <2>1, <2>2 DEF TransformArrives
<1>5. CASE Configure \/ Activate \/ Deactivate \/ SetInitialPose
           \/ Decide \/ CbSimpleReset
  BY <1>5 DEF Configure, Activate, Deactivate, SetInitialPose, Decide, CbSimpleReset
<1>6. CASE ReceiveMap
  BY <1>6 DEF ReceiveMap
<1>7. CASE InitTF \/ Cleanup
  BY <1>7 DEF InitTF, Cleanup, Join, Build, Destroy, Clear
<1>8. CASE CbNomotionUpdate
  <2>1. 0 \in 0 .. arrived /\ "executor" \in Thread
    BY DEF Thread
  <2> QED BY <1>8, <2>1, LocalsKept DEF CbNomotionUpdate
<1>9. CASE UNCHANGED vars
  BY <1>9 DEF vars
<1> QED
  BY <1>1, <1>3, <1>4, <1>5, <1>6, <1>7, <1>8, <1>9 DEF Next, Executor, Listener, Thread

(* Enqueue() pushes out the oldest scan of a full queue. *)
LEMMA EnqueueKeepsSize ==
    ASSUME NEW n \in Nat, waiting \subseteq 1 .. n, Cardinality(waiting) <= QueueSize
    PROVE  /\ Cardinality(Enqueue(n + 1)) <= QueueSize
           /\ Cardinality(Enqueue(n + 1)) <= Cardinality(waiting) + 1
           /\ Enqueue(n + 1) \subseteq 1 .. n + 1
<1>1. IsFiniteSet(waiting) /\ Cardinality(waiting) \in Nat
  <2>1. IsFiniteSet(1 .. n)
    BY FS_Interval
  <2>2. IsFiniteSet(waiting)
    BY <2>1, FS_Subset
  <2> QED BY <2>2, FS_CardinalityType
<1> DEFINE more == waiting \cup {n + 1}
<1>2. Cardinality(more) = Cardinality(waiting) + 1
  <2>1. n + 1 \notin waiting
    OBVIOUS
  <2> QED BY <1>1, <2>1, FS_AddElement
<1>3. CASE Cardinality(waiting) < QueueSize
  <2>1. Enqueue(n + 1) = more /\ more \subseteq 1 .. n + 1
    BY <1>3 DEF Enqueue
  <2> HIDE DEF more
  <2>2. Cardinality(more) <= QueueSize /\ Cardinality(more) <= Cardinality(waiting) + 1
    <3> DEFINE a == Cardinality(waiting)
               b == Cardinality(more)
    <3>1. a \in Nat /\ b = a + 1 /\ a < QueueSize /\ QueueSize \in Nat
      BY <1>1, <1>2, <1>3, QueueSizeAssumption
    <3> HIDE DEF a, b
    <3>2. b <= QueueSize /\ b <= a + 1
      BY <3>1
    <3> QED BY <3>2 DEF a, b
  <2> QED BY <2>1, <2>2
<1>4. CASE ~(Cardinality(waiting) < QueueSize)
  <2>1. waiting # {}
    BY <1>4, QueueSizeAssumption, FS_EmptySet
  <2>2. PICK x \in waiting : \A y \in waiting : x <= y
    BY <2>1, NatHasLeast
  <2> DEFINE rest == {w \in waiting : \E v \in waiting : v < w}
  <2>3. rest \subseteq waiting \ {x}
    BY <2>2
  <2>4. Cardinality(waiting \ {x}) = Cardinality(waiting) - 1
        /\ IsFiniteSet(waiting \ {x})
    BY <1>1, <2>2, FS_RemoveElement
  <2>5. IsFiniteSet(rest) /\ Cardinality(rest) <= Cardinality(waiting) - 1
    BY <2>3, <2>4, FS_Subset
  <2>6. Cardinality(rest) \in Nat
    BY <2>5, FS_CardinalityType
  <2>7. Enqueue(n + 1) = rest \cup {n + 1} /\ n + 1 \notin rest
    BY <1>4 DEF Enqueue
  <2>8. rest \subseteq waiting
    OBVIOUS
  <2> HIDE DEF rest
  <2>9. Cardinality(Enqueue(n + 1)) = Cardinality(rest) + 1
    BY <2>5, <2>7, FS_AddElement
  <2>10. Enqueue(n + 1) \subseteq 1 .. n + 1
    <3>1. waiting \cup {n + 1} \subseteq 1 .. n + 1
      OBVIOUS
    <3> QED BY <2>7, <2>8, <3>1
  <2> QED BY <1>1, <2>5, <2>6, <2>9, <2>10, QueueSizeAssumption
<1> QED BY <1>3, <1>4

LEMMA EnteringIs == \A t \in Thread : Entering(t) \in {0, 1} /\ Entering(t)' \in {0, 1}
BY DEF Entering

(* Each scan is waiting, entering, or counted at most once. *)
LEMMA NextCounts == IInv /\ Counts /\ [Next]_vars => Counts'
<1> SUFFICES ASSUME IInv, Counts, [Next]_vars PROVE Counts'
  OBVIOUS
<1> USE BoundsAssumption, QueueSizeAssumption DEF Counts, queue, scan, threads
<1>0. /\ at \in [Thread -> {"idle"} \cup Update \cup Transition]
      /\ "executor" \in Thread /\ "listener" \in Thread
  BY DEF IInv, Places, Thread
<1>10. Cardinality(waiting) \in Nat /\ IsFiniteSet(waiting)
  <2>1. IsFiniteSet(1 .. arrived)
    BY FS_Interval
  <2> QED BY <2>1, FS_Subset, FS_CardinalityType
<1>11. Cardinality({}) = 0
  BY FS_EmptySet
<1>12. ASSUME NEW t \in Thread, NEW from, NEW to, Goto(t, from, to),
             from \notin {"stamp", "scan"} \/ to \in {"stamp", "scan"},
             to \notin {"stamp", "scan"} \/ from \in {"stamp", "scan"}
      PROVE  \A w \in Thread : Entering(w)' = Entering(w)
  BY <1>0, <1>12 DEF Goto, Entering
<1>13. ASSUME \A w \in Thread : Entering(w)' = Entering(w),
             arrived' = arrived, waiting' = waiting \/ waiting' = {},
             seq' = seq, processed' = processed \/ processed' \in -1 .. seq
      PROVE  Counts'
  <2>1. Cardinality(waiting') \in Nat /\ Cardinality(waiting') <= Cardinality(waiting)
        /\ waiting' \subseteq waiting
    BY <1>10, <1>11, <1>13
  <2>2. /\ Entering("executor")' = Entering("executor") /\ Entering("executor") \in {0, 1}
        /\ Entering("listener")' = Entering("listener") /\ Entering("listener") \in {0, 1}
    BY <1>0, <1>13, EnteringIs
  <2> QED BY <1>10, <1>13, <2>1, <2>2
<1>1. ASSUME NEW t \in Thread, RunUpdate(t) PROVE Counts'
  <2>1. CASE Stamp(t)
    <3>1. \A w \in Thread : Entering(w)' = Entering(w)
      BY <2>1, <1>12 DEF Stamp
    <3> QED BY <1>13, <2>1, <3>1 DEF Stamp
  <2>2. CASE SetScan(t)
    <3>1. /\ Entering(t) = 1 /\ Entering(t)' = 0
          /\ \A w \in Thread \ {t} : Entering(w)' = Entering(w)
      BY <1>0, <2>2 DEF SetScan, Goto, Entering
    <3>2. seq' = seq + 1 /\ arrived' = arrived
        /\ waiting' = waiting /\ processed' = processed
      BY <2>2 DEF SetScan
    <3>3. seq' + Entering("executor")' + Entering("listener")'
            = seq + Entering("executor") + Entering("listener")
      BY <3>1, <3>2, EnteringIs DEF Thread
    <3> QED BY <3>2, <3>3
  <2>3. CASE TakeRequest(t)
    BY <2>3, <1>12, <1>13 DEF TakeRequest
  <2>4. CASE RequestTaken(t)
    BY <2>4, <1>12, <1>13 DEF RequestTaken
  <2>5. CASE MotionUpdate(t)
    BY <2>5, <1>12, <1>13 DEF MotionUpdate
  <2>6. CASE SensorUpdate(t)
    BY <2>6, <1>12, <1>13 DEF SensorUpdate
  <2>7. CASE Processed(t)
    BY <2>7, <1>12, <1>13 DEF Processed
  <2>8. CASE Publish(t)
    BY <2>8, <1>12, <1>13 DEF Publish
  <2>9. CASE Return(t)
    BY <2>9, <1>12, <1>13 DEF Return
  <2> QED BY <1>1, <2>1, <2>2, <2>3, <2>4, <2>5, <2>6, <2>7, <2>8, <2>9 DEF RunUpdate
<1>2. ASSUME NEW t \in Thread, NEW s, CbScan(t, s)
      PROVE  /\ Entering(t) = 0
             /\ \A w \in Thread \ {t} : Entering(w)' = Entering(w)
  BY <1>0, <1>2 DEF CbScan, Goto, Entering, Idle
<1>3. CASE ScanArrives
  <2>1. /\ arrived' = arrived + 1 /\ arrived' <= MaxScan
        /\ seq' = seq /\ processed' = processed
        /\ \/ CbScan("executor", arrived') /\ UNCHANGED waiting
           \/ waiting' = Enqueue(arrived') /\ UNCHANGED threads
    BY <1>3 DEF ScanArrives
  <2>2. CASE CbScan("executor", arrived') /\ UNCHANGED waiting
    <3>1. /\ Entering("executor") = 0 /\ Entering("listener")' = Entering("listener")
      BY <1>0, <1>2, <2>2 DEF Thread
    <3> QED BY <2>1, <2>2, <3>1, <1>10, <1>0, EnteringIs
  <2>3. CASE waiting' = Enqueue(arrived') /\ UNCHANGED threads
    <3>1. \A w \in Thread : Entering(w)' = Entering(w)
      BY <2>3 DEF Entering
    <3>2. /\ Cardinality(waiting') <= QueueSize
          /\ Cardinality(waiting') <= Cardinality(waiting) + 1
          /\ waiting' \subseteq 1 .. arrived'
      BY <2>1, <2>3, EnqueueKeepsSize
    <3>3. Cardinality(waiting') \in Nat
      <4>1. IsFiniteSet(1 .. arrived')
        BY <2>1, FS_Interval
      <4> QED BY <3>2, <4>1, FS_Subset, FS_CardinalityType
    <3> QED BY <2>1, <3>1, <3>2, <3>3, <1>10, <1>0, EnteringIs
  <2> QED BY <2>1, <2>2, <2>3
<1>4. CASE TransformArrives
  <2>1. PICK s \in waiting : CbScan("listener", s) /\ waiting' = waiting \ {s}
    BY <1>4 DEF TransformArrives
  <2>2. arrived' = arrived /\ seq' = seq /\ processed' = processed
    BY <1>4 DEF TransformArrives
  <2>3. Entering("listener") = 0 /\ Entering("executor")' = Entering("executor")
    BY <1>0, <1>2, <2>1 DEF Thread
  <2>4. Cardinality(waiting') = Cardinality(waiting) - 1 /\ waiting' \subseteq waiting
    BY <2>1, <1>10, FS_RemoveElement
  <2> QED BY <2>2, <2>3, <2>4, <1>10, <1>0, EnteringIs
<1>5. CASE Configure \/ Activate \/ Deactivate \/ CbSimpleReset
  <2>1. \A w \in Thread : Entering(w)' = Entering(w)
    BY <1>5 DEF Configure, Activate, Deactivate, CbSimpleReset, Entering
  <2> QED BY <1>13, <1>5, <2>1 DEF Configure, Activate, Deactivate, CbSimpleReset
<1>6. CASE ReceiveMap
  <2>1. CASE init_pf
    <3>1. \A w \in Thread : Entering(w)' = Entering(w)
      BY <1>6, <2>1 DEF ReceiveMap, Entering
    <3> QED BY <1>13, <1>6, <2>1, <3>1 DEF ReceiveMap
  <2>2. CASE ~init_pf
    <3>1. \A w \in Thread : Entering(w)' = Entering(w)
      BY <1>6, <2>2, <1>12, <1>0 DEF ReceiveMap
    <3>2. arrived' = arrived /\ waiting' = waiting /\ seq' = 0 /\ processed' = -1
      BY <1>6, <2>2 DEF ReceiveMap
    <3> QED BY <1>10, <1>0, <3>1, <3>2, EnteringIs
  <2> QED BY <2>1, <2>2
<1>7. CASE InitTF \/ Cleanup
  <2>1. PICK from \in {"initTF", "join", "build", "idle", "unfilter",
                            "untfb", "unjoin", "clear"},
            to \in {"join", "build", "idle", "unfilter", "untfb", "unjoin", "clear"} :
          Goto("executor", from, to)
    BY <1>7 DEF InitTF, Cleanup, Join, Destroy, Build, Clear
  <2>2. \A w \in Thread : Entering(w)' = Entering(w)
    BY <2>1, <1>12, <1>0
  <2> QED BY <1>7, <1>13, <2>2 DEF InitTF, Cleanup, Join, Destroy, Build, Clear
<1>8. CASE SetInitialPose \/ Decide \/ CbNomotionUpdate
  <2>1. \A w \in Thread : Entering(w)' = Entering(w)
    BY <1>8, <1>12, <1>0 DEF SetInitialPose, Decide, CbNomotionUpdate
  <2> QED BY <1>13, <1>8, <2>1 DEF SetInitialPose, Decide, CbNomotionUpdate
<1>9. CASE UNCHANGED vars
  BY <1>9 DEF vars, Entering
<1> QED
  BY <1>1, <1>3, <1>4, <1>5, <1>6, <1>7, <1>8, <1>9, <1>0 DEF Next, Executor, Listener

LEMMA InitTyped == Init => TypedFlags /\ Requests /\ Locals /\ Counts
<1> SUFFICES ASSUME Init PROVE TypedFlags /\ Requests /\ Locals /\ Counts
  OBVIOUS
<1>1. TypedFlags
  BY DEF Init, TypedFlags
<1>5. Requests
  BY BoundsAssumption DEF Init, Requests
<1>2. Locals
  BY DEF Init, Locals, Local, NoUpdate
<1>3. Cardinality(waiting) = 0 /\ Entering("executor") = 0 /\ Entering("listener") = 0
  BY FS_EmptySet DEF Init, Entering, Thread
<1>4. Counts
  BY <1>3, BoundsAssumption, QueueSizeAssumption DEF Init, Counts
<1> QED BY <1>1, <1>2, <1>4, <1>5

(* The parts hold in every reachable state. *)
LEMMA ThreadsTyped == Safe => [](IInv /\ TypedFlags /\ Requests /\ Locals /\ Counts)
  BY InitInv, InitTyped, NextInv, NextFlags, NextRequests, NextLocals, NextCounts, PTL
  DEF Safe

(* Every member keeps its type: the queue its size, and seq_, which setScan *)
(* counts up, never passes the number of scans that have arrived.          *)
THEOREM ThreadsTypeOK == Safe => []TypeOK
<1>1. IInv /\ TypedFlags /\ Requests /\ Locals /\ Counts => TypeOK
  <2> SUFFICES ASSUME IInv, TypedFlags, Requests, Locals, Counts PROVE TypeOK
    OBVIOUS
  <2>1. seq \in 0 .. arrived
    <3>1. Cardinality(waiting) \in Nat
      <4>1. IsFiniteSet(1 .. arrived)
        BY FS_Interval DEF Counts
      <4> QED BY <4>1, FS_Subset, FS_CardinalityType DEF Counts
    <3>2. Entering("executor") \in {0, 1} /\ Entering("listener") \in {0, 1}
      BY EnteringIs DEF Thread
    <3> QED BY <3>1, <3>2, BoundsAssumption DEF Counts
  <2>2. /\ objs \subseteq Object
        /\ at["executor"] \in {"idle"} \cup Update \cup Transition
        /\ at["listener"] \in {"idle"} \cup Update
    BY DEF IInv, Existing, Places, Thread
  <2>3. processed \in -1 .. arrived
    BY <2>1, BoundsAssumption DEF Counts
  <2> QED BY <2>1, <2>2, <2>3 DEF TypeOK, TypedFlags, Requests, Locals, Local, Counts
<1> QED BY <1>1, ThreadsTyped, PTL

-----------------------------------------------------------------------------
(* The members a configured node has, but for those initTF is replacing    *)
(* and those on_cleanup has destroyed.                                     *)
Complete ==
    lifecycle # "unconfigured" /\ at["executor"] \notin
        {"unfilter", "untfb", "unjoin", "clear"} =>
        /\ "pubs" \in objs
        /\ at["executor"] \notin {"join", "build"} => Object \ {"pf"} \subseteq objs

(* What an update has put into the members is what it finds in them.       *)
Holds(t) ==
    LET u == upd[t] IN
    /\ at[t] \in {"stamp", "scan"} => u.scan # 0 /\ u.weighs = 0
    /\ at[t] = "scan" => stamp = u.scan
    /\ at[t] \in {"take", "posed", "scattered", "odom", "sensor"} =>
          u.weighs = 0 /\ (u.scan # 0 => ranges = u.scan /\ processed # seq)
    /\ at[t] \in {"sensor", "weigh", "publish"} => u.odom = stamp
    /\ at[t] \in {"weigh", "publish"} =>
          /\ u.weighs # 0 => u.weighs = ranges
          /\ u.scan # 0 => u.weighs = u.scan
    /\ at[t] = "posed" => obeyed = init_pose

(* The threads take turns, and the process lives.  Between two callbacks   *)
(* the scan kept is the one of the stamp, or none in a new filter.         *)
Turns ==
    /\ Idle("executor") \/ Idle("listener")
    /\ ~down
    /\ (\A t \in Thread : at[t] # "scan") => ranges \in {0, stamp}
    /\ \A t \in Thread : Holds(t)

(* initTF and on_cleanup leave the members complete, or none. *)
LEMMA NextComplete == IInv /\ Complete /\ [Next]_vars => Complete'
<1> SUFFICES ASSUME IInv, Complete, [Next]_vars PROVE Complete'
  OBVIOUS
<1> USE DEF Complete, IInv, Places, Unconfigured, CleanedSoFar, Idle, Thread, Update,
        Transition, Object, Goto, node, flags, queue, scan, request, threads
<1>1. ASSUME NEW t \in Thread, RunUpdate(t) PROVE Complete'
  BY <1>1 DEF RunUpdate, Stamp, SetScan, TakeRequest, RequestTaken, MotionUpdate,
              SensorUpdate, Processed, Publish, Return
<1>2. CASE ScanArrives \/ TransformArrives
  BY <1>2 DEF ScanArrives, TransformArrives, CbScan
<1>3. CASE Configure \/ Activate \/ Deactivate
  BY <1>3 DEF Configure, Activate, Deactivate
<1>4. CASE ReceiveMap
  <2>1. CASE init_pf
    BY <1>4, <2>1 DEF ReceiveMap
  <2>2. CASE ~init_pf
    BY <1>4, <2>2 DEF ReceiveMap
  <2> QED BY <2>1, <2>2
<1>5. CASE InitTF
  <2>1. CASE Destroy({"tfb"}, "initTF", "join")
    BY <2>1 DEF Destroy
  <2>2. CASE Join("join", "build")
    BY <2>2 DEF Join, Destroy
  <2>3. CASE Build
    BY <2>3 DEF Build
  <2> QED BY <1>5, <2>1, <2>2, <2>3 DEF InitTF
<1>6. CASE Cleanup
  BY <1>6 DEF Cleanup, Join, Destroy, Clear
<1>7. CASE SetInitialPose \/ Decide \/ CbNomotionUpdate \/ CbSimpleReset
  BY <1>7 DEF SetInitialPose, Decide, CbNomotionUpdate, CbSimpleReset
<1>9. CASE UNCHANGED vars
  BY <1>9 DEF vars
<1> QED
  BY <1>1, <1>2, <1>3, <1>4, <1>5, <1>6, <1>7, <1>9 DEF Next, Executor, Listener

(* Whoever moves, the other thread is idle and its locals are untouched. *)
LEMMA OneThreadMoves ==
    ASSUME Turns, NEW t \in Thread, \A w \in Thread \ {t} : Idle(w)' ,
           Holds(t)', ~down', (at'[t] # "scan" => ranges' \in {0, stamp'})
    PROVE  Turns'
<1>1. \A w \in Thread \ {t} : Holds(w)'
  BY DEF Holds, Idle
<1>2. (Idle("executor") \/ Idle("listener"))'
  BY DEF Thread
<1> QED BY <1>1, <1>2 DEF Turns

(* A step of an update that no other thread is in the middle of. *)
LEMMA TurnsUpdateStep ==
    ASSUME IInv, Locals, Counts, Complete, Turns,
           NEW t \in Thread, \A w \in Thread \ {t} : Idle(w), RunUpdate(t)
    PROVE  Turns'
<1> USE DEF Idle, Goto, node, flags, queue, scan, request
<1>0. at \in [Thread -> {"idle"} \cup Update \cup Transition] /\ upd[t] \in Local(arrived)
      /\ upd \in [Thread -> Local(arrived)]
  BY DEF IInv, Places, Locals
<1>1. \A w \in Thread \ {t} : Idle(w)'
  BY <1>0 DEF RunUpdate, Stamp, SetScan, TakeRequest, RequestTaken, MotionUpdate,
              SensorUpdate, Processed, Publish, Return
<1>10. (at[t] # "scan" => ranges \in {0, stamp}) /\ ~down /\ Holds(t)
  BY DEF Turns
<1>2. CASE Stamp(t)
  <2>1. at'[t] = "scan" /\ stamp' = upd[t].scan /\ upd'[t] = upd[t] /\ ~down'
        /\ upd[t].scan # 0 /\ upd[t].weighs = 0
    BY <1>0, <1>10, <1>2 DEF Stamp, Holds
  <2>2. Holds(t)'
    BY <2>1 DEF Holds
  <2> QED BY <1>1, <2>1, <2>2, OneThreadMoves
<1>3. CASE SetScan(t)
  <2>1. /\ at'[t] = "take" /\ stamp' = upd[t].scan /\ upd'[t] = upd[t] /\ ~down'
        /\ ranges' = upd[t].scan /\ upd[t].weighs = 0
        /\ seq' = seq + 1 /\ processed' = processed
    BY <1>0, <1>10, <1>3 DEF SetScan, Holds
  <2>2. Holds(t)'
    BY <2>1 DEF Holds, Counts
  <2> QED BY <1>1, <2>1, <2>2, OneThreadMoves
<1>4. CASE TakeRequest(t)
  <2>1. /\ at[t] = "take" /\ at'[t] \in {"posed", "scattered", "odom"}
        /\ UNCHANGED <<upd, stamp, ranges, seq, processed, down, init_pose>>
        /\ at'[t] = "posed" => obeyed' = init_pose
    BY <1>0, <1>4 DEF TakeRequest
  <2>2. Holds(t)'
    BY <1>10, <2>1 DEF Holds
  <2> QED BY <1>1, <1>10, <2>1, <2>2, OneThreadMoves
<1>5. CASE RequestTaken(t)
  <2>1. /\ at[t] \in {"posed", "scattered"} /\ at'[t] = "odom"
        /\ UNCHANGED <<upd, stamp, ranges, seq, processed, down>>
    BY <1>0, <1>5 DEF RequestTaken
  <2>2. Holds(t)'
    BY <1>10, <2>1 DEF Holds
  <2> QED BY <1>1, <1>10, <2>1, <2>2, OneThreadMoves
<1>6. CASE MotionUpdate(t)
  <2>1. /\ at[t] = "odom" /\ at'[t] \in {"sensor", "return"}
        /\ upd' = [upd EXCEPT ![t] = [@ EXCEPT !.odom = stamp]]
        /\ UNCHANGED <<stamp, ranges, seq, processed, down>>
    BY <1>0, <1>6 DEF MotionUpdate
  <2>2. upd'[t].scan = upd[t].scan /\ upd'[t].weighs = upd[t].weighs
        /\ upd'[t].odom = stamp
    BY <1>0, <2>1 DEF Local
  <2>3. Holds(t)'
    BY <1>10, <2>1, <2>2 DEF Holds
  <2> QED BY <1>1, <1>10, <2>1, <2>3, OneThreadMoves
<1>7. CASE SensorUpdate(t)
  <2>1. /\ at[t] = "sensor" /\ at'[t] \in {"weigh", "publish"}
        /\ UNCHANGED <<stamp, ranges, seq, processed, down>>
    BY <1>0, <1>7 DEF SensorUpdate
  <2>2. CASE processed = seq
    <3>1. upd' = upd /\ at'[t] = "publish"
      BY <1>0, <1>7, <2>2 DEF SensorUpdate
    <3>2. Holds(t)'
      BY <1>10, <2>1, <2>2, <3>1 DEF Holds
    <3> QED BY <1>1, <1>10, <2>1, <3>2, OneThreadMoves
  <2>3. CASE processed # seq
    <3>1. upd' = [upd EXCEPT ![t] = [@ EXCEPT !.weighs = ranges]]
      BY <1>7, <2>3 DEF SensorUpdate
    <3>2. upd'[t].scan = upd[t].scan /\ upd'[t].weighs = ranges
        /\ upd'[t].odom = upd[t].odom
      BY <1>0, <3>1 DEF Local
    <3>3. Holds(t)'
      BY <1>10, <2>1, <2>3, <3>2 DEF Holds
    <3> QED BY <1>1, <1>10, <2>1, <3>3, OneThreadMoves
  <2> QED BY <2>2, <2>3
<1>8. CASE Processed(t)
  <2>1. /\ at[t] = "weigh" /\ at'[t] = "publish"
        /\ UNCHANGED <<upd, stamp, ranges, down>>
    BY <1>0, <1>8 DEF Processed
  <2>2. Holds(t)'
    BY <1>10, <2>1 DEF Holds
  <2> QED BY <1>1, <1>10, <2>1, <2>2, OneThreadMoves
<1>9. CASE Publish(t)
  <2>1. at[t] = "publish" /\ lifecycle # "unconfigured"
    BY <1>9, <1>0 DEF Publish, IInv, Unconfigured, Thread
  <2>2. {"pubs", "tfb"} \subseteq objs
    BY <2>1, <1>0 DEF Complete, Object, Thread
  <2>3. /\ at'[t] = "return" /\ ~down'
        /\ UNCHANGED <<upd, stamp, ranges>>
    BY <1>0, <1>9, <2>2 DEF Publish
  <2>4. Holds(t)'
    BY <2>3 DEF Holds
  <2> QED BY <1>1, <1>10, <2>1, <2>3, <2>4, OneThreadMoves
<1>11. CASE Return(t)
  <2>1. t = "listener" => "filter" \in objs
    BY <1>11, <1>0 DEF Return, IInv, Unconfigured, Complete, Object, Thread
  <2>2. /\ at[t] = "return" /\ at'[t] = "idle" /\ ~down'
        /\ UNCHANGED <<stamp, ranges>>
    BY <1>0, <1>10, <1>11, <2>1 DEF Return
  <2>3. Holds(t)'
    BY <2>2 DEF Holds
  <2> QED BY <1>1, <1>10, <2>2, <2>3, OneThreadMoves
<1> QED
  BY <1>2, <1>3, <1>4, <1>5, <1>6, <1>7, <1>8, <1>9, <1>11 DEF RunUpdate

(* A scan delivered while neither thread is in a callback. *)
LEMMA TurnsDeliverStep ==
    ASSUME IInv, Locals, Turns, NEW t \in Thread, NEW s, s # 0, \A w \in Thread : Idle(w),
           CbScan(t, s), UNCHANGED <<stamp, ranges, down>>
    PROVE  Turns'
<1>0. at \in [Thread -> {"idle"} \cup Update \cup Transition]
      /\ upd \in [Thread -> Local(arrived)]
  BY DEF IInv, Places, Locals
<1>1. CASE active /\ init_pf
  <2>1. /\ at'[t] = "stamp" /\ upd'[t] = [NoUpdate EXCEPT !.scan = s]
        /\ \A w \in Thread \ {t} : Idle(w)'
    BY <1>0, <1>1 DEF CbScan, Goto, Idle
  <2>2. upd'[t].scan = s /\ upd'[t].weighs = 0
    BY <2>1 DEF NoUpdate
  <2>3. Holds(t)'
    BY <2>1, <2>2 DEF Holds
  <2>4. ranges \in {0, stamp} /\ ~down
    BY DEF Turns, Idle
  <2> QED BY <2>1, <2>3, <2>4, OneThreadMoves
<1>2. CASE ~(active /\ init_pf)
  <2>1. at' = at /\ upd' = upd
    BY <1>2 DEF CbScan, threads
  <2> QED BY <2>1 DEF Turns, Holds, Idle
<1> QED BY <1>1, <1>2

(* The executor's callbacks while the listener is idle. *)
LEMMA TurnsExecutorStep ==
    ASSUME IInv, Locals, Turns, Idle("listener"),
           \/ Configure \/ Activate \/ Deactivate \/ Cleanup \/ ReceiveMap \/ InitTF
           \/ SetInitialPose \/ Decide \/ CbSimpleReset \/ CbNomotionUpdate
    PROVE  Turns'
<1> DEFINE t == "executor"
<1> USE DEF Idle, Goto, node, flags, queue, scan, request, threads
<1>0. at \in [Thread -> {"idle"} \cup Update \cup Transition]
      /\ upd \in [Thread -> Local(arrived)] /\ t \in Thread /\ Thread \ {t} = {"listener"}
  BY DEF IInv, Places, Locals, Thread
<1>1. ~down /\ Holds(t) /\ (at[t] # "scan" => ranges \in {0, stamp})
  BY <1>0 DEF Turns, Thread
<1>2. CASE Configure \/ Activate \/ Deactivate \/ CbSimpleReset
  <2>1. UNCHANGED <<at, upd, stamp, ranges, down, seq, processed, init_pose, obeyed>>
    BY <1>2 DEF Configure, Activate, Deactivate, CbSimpleReset
  <2> QED BY <2>1 DEF Turns, Holds
<1>3. ASSUME NEW from \in {"idle", "decide"} \cup Transition,
             NEW to \in {"idle"} \cup Transition, Goto(t, from, to),
             UNCHANGED <<down, stamp>>, ranges' = ranges \/ ranges' = 0
      PROVE  Turns'
  <2>1. at'[t] = to /\ at[t] = from /\ at'["listener"] = "idle"
    BY <1>0, <1>3
  <2>2. Holds(t)' /\ (at'[t] # "scan" => ranges' \in {0, stamp'})
    BY <1>1, <1>3, <2>1 DEF Holds, Transition
  <2>3. \A w \in Thread \ {t} : Idle(w)'
    BY <1>0, <2>1
  <2> QED BY <1>0, <1>1, <1>3, <2>2, <2>3, OneThreadMoves
<1>4. CASE Cleanup \/ InitTF
  <2>1. \E from, to \in {"idle"} \cup Transition : Goto(t, from, to)
    BY <1>4 DEF Cleanup, InitTF, Join, Build, Destroy, Clear, Transition
  <2>2. UNCHANGED <<down, stamp, ranges>>
    BY <1>4 DEF Cleanup, InitTF, Join, Build, Destroy, Clear
  <2> QED BY <1>3, <2>1, <2>2
<1>5. CASE ReceiveMap
  <2>1. CASE init_pf
    <3>1. UNCHANGED <<at, upd, stamp, ranges, seq, processed, init_pose, obeyed>>
          /\ down' = down
      BY <1>5, <2>1 DEF ReceiveMap
    <3> QED BY <3>1 DEF Turns, Holds
  <2>2. CASE ~init_pf
    <3>1. Goto(t, "idle", "initTF") /\ UNCHANGED <<down, stamp>> /\ ranges' = 0
      BY <1>5, <2>2 DEF ReceiveMap
    <3> QED BY <1>3, <3>1 DEF Transition
  <2> QED BY <2>1, <2>2
<1>6. CASE SetInitialPose \/ Decide
  <2>1. \E from, to \in {"idle"} \cup Transition : Goto(t, from, to)
    BY <1>6 DEF SetInitialPose, Decide, Transition
  <2>2. UNCHANGED <<down, stamp, ranges>>
    BY <1>6 DEF SetInitialPose, Decide
  <2> QED BY <1>3, <2>1, <2>2
<1>7. CASE CbNomotionUpdate
  <2>1. /\ at[t] = "idle" /\ at'[t] = "take" /\ at'["listener"] = "idle"
        /\ upd'[t] = NoUpdate /\ UNCHANGED <<stamp, ranges, down>>
    BY <1>0, <1>7 DEF CbNomotionUpdate
  <2>2. Holds(t)'
    BY <2>1 DEF Holds, NoUpdate
  <2>3. \A w \in Thread \ {t} : Idle(w)'
    BY <1>0, <2>1
  <2> QED BY <1>0, <1>1, <2>1, <2>2, <2>3, OneThreadMoves
<1> QED BY <1>2, <1>4, <1>5, <1>6, <1>7

(* A step that is no overlap is one of a thread whose other is idle. *)
LEMMA NextTurns ==
    ASSUME IInv, Locals, Counts, Complete, ~overlapped => Turns, [Next]_vars
    PROVE  ~overlapped' => Turns'
<1> SUFFICES ASSUME ~overlapped' PROVE Turns'
  OBVIOUS
<1>1. CASE UNCHANGED vars
  BY <1>1 DEF vars, threads, scan, request, queue, Turns, Holds, Idle
<1>2. ASSUME Listener(TransformArrives \/ RunUpdate("listener"))
      PROVE  Turns'
  <2>1. Idle("executor") /\ Turns
    BY <1>2 DEF Listener
  <2>2. CASE RunUpdate("listener")
    <3>1. \A w \in Thread \ {"listener"} : Idle(w)
      BY <2>1 DEF Thread
    <3> QED BY <2>1, <2>2, <3>1, TurnsUpdateStep DEF Thread
  <2>3. CASE TransformArrives
    <3>1. PICK s \in waiting : CbScan("listener", s)
      BY <2>3 DEF TransformArrives
    <3>2. s # 0 /\ UNCHANGED <<stamp, ranges, down>>
      BY <2>3 DEF TransformArrives, Locals, scan
    <3>3. \A w \in Thread : Idle(w)
      BY <2>1, <3>1 DEF CbScan, Thread
    <3> QED BY <2>1, <3>1, <3>2, <3>3, TurnsDeliverStep DEF Thread
  <2> QED BY <1>2, <2>2, <2>3 DEF Listener
<1>3. ASSUME Executor(\/ ScanArrives \/ RunUpdate("executor")
                      \/ Configure \/ Activate \/ Deactivate \/ Cleanup \/ ReceiveMap
                      \/ InitTF \/ SetInitialPose \/ Decide \/ CbSimpleReset
                      \/ CbNomotionUpdate)
      PROVE  Turns'
  <2>1. Idle("listener") /\ Turns
    BY <1>3 DEF Executor
  <2>2. CASE RunUpdate("executor")
    <3>1. \A w \in Thread \ {"executor"} : Idle(w)
      BY <2>1 DEF Thread
    <3> QED BY <2>1, <2>2, <3>1, TurnsUpdateStep DEF Thread
  <2>3. CASE ScanArrives
    <3>1. UNCHANGED <<stamp, ranges, down>> /\ arrived' # 0 /\ Idle("executor")
      BY <2>3 DEF ScanArrives, Locals, scan
    <3>2. CASE CbScan("executor", arrived')
      BY <2>1, <3>1, <3>2, TurnsDeliverStep DEF Thread
    <3>3. CASE UNCHANGED threads
      <4>1. UNCHANGED <<at, upd, seq, processed, init_pose, obeyed>>
        BY <2>3, <3>3 DEF ScanArrives, threads, scan, request
      <4> QED BY <2>1, <3>1, <4>1 DEF Turns, Holds, Idle
    <3> QED BY <2>3, <3>2, <3>3 DEF ScanArrives
  <2> QED BY <1>3, <2>1, <2>2, <2>3, TurnsExecutorStep DEF Executor
<1> QED BY <1>1, <1>2, <1>3 DEF Next, Executor, Listener

LEMMA InitTurns == Init => Complete /\ Turns
BY DEF Init, Complete, Turns, Holds, Idle, Thread

LEMMA ThreadsTurns == Safe => [](IInv /\ Complete /\ (~overlapped => Turns))
<1>1. Init => Complete /\ (~overlapped => Turns)
  BY InitTurns
<1>2. IInv /\ Locals /\ Counts /\ Complete /\ (~overlapped => Turns) /\ [Next]_vars
        => Complete' /\ (~overlapped' => Turns')
  BY NextComplete, NextTurns
<1>3. Init /\ [](IInv /\ Locals /\ Counts) /\ [][Next]_vars
        => [](Complete /\ (~overlapped => Turns))
  BY <1>1, <1>2, PTL
<1> QED BY <1>3, ThreadsTyped, PTL DEF Safe

(* As long as no callback of one thread has run during a callback of the   *)
(* other, each update weighs its own scan with the odometry of its instant, *)
(* no pose request is lost, and the process lives.                         *)
THEOREM HarmTakesAnOverlap == Safe => []HarmOnlyByOverlap
<1>1. Complete /\ (~overlapped => Turns) => HarmOnlyByOverlap
  <2> SUFFICES ASSUME Turns PROVE OwnScan /\ SameInstant /\ PoseIsObeyed /\ ~down
    BY DEF HarmOnlyByOverlap
  <2>1. ASSUME NEW t \in Thread PROVE Holds(t)
                                 /\ (at[t] = "publish" => ranges \in {0, stamp})
    BY DEF Turns, Idle, Thread
  <2> QED BY <2>1 DEF Turns, Holds, OwnScan, SameInstant, PoseIsObeyed
<1> QED BY <1>1, ThreadsTurns, PTL
=============================================================================
