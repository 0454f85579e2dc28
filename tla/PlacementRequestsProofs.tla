----------------------- MODULE PlacementRequestsProofs -----------------------
(***************************************************************************)
(* Proofs about PlacementRequests, for any bound on the requests: each is  *)
(* obeyed at most once, and poses are obeyed in the order they were asked. *)
(***************************************************************************)
EXTENDS PlacementRequests, TLAPS

(* What is kept has not been obeyed: a kept pose is newer than every pose  *)
(* obeyed so far, a kept scatter is not among the requests obeyed.         *)
KeptNotServed ==
    /\ pose # 0 =>
        /\ asked[pose] = "pose"
        /\ \A i \in DOMAIN served : asked[served[i]] = "pose" => served[i] < pose
    /\ scatter # 0 =>
        /\ asked[scatter] = "scatter"
        /\ \A i \in DOMAIN served : served[i] # scatter

IInv == TypeOK /\ KeptNotServed /\ AtMostOnce /\ PosesInOrder

(* A longer history of requests keeps the requests it had. *)
LEMMA AskedGrows ==
    ASSUME asked \in Seq(Kind), NEW k \in Kind, asked' = Append(asked, k)
    PROVE  /\ asked' \in Seq(Kind)
           /\ Len(asked') = Len(asked) + 1
           /\ asked'[Len(asked')] = k
           /\ \A r \in Request : r \in Request' /\ asked'[r] = asked[r]
  BY DEF Request

(* A request obeyed is written after those obeyed before it. *)
LEMMA ServedGrows ==
    ASSUME NEW S, NEW T, S \subseteq T, NEW s \in Seq(S), NEW r \in T
    PROVE  /\ Append(s, r) \in Seq(T)
           /\ DOMAIN Append(s, r) = 1 .. Len(s) + 1
           /\ DOMAIN s = 1 .. Len(s)
           /\ \A i \in DOMAIN s : Append(s, r)[i] = s[i] /\ s[i] \in S
           /\ Append(s, r)[Len(s) + 1] = r
           /\ s \in Seq(T)
  OBVIOUS

LEMMA InitIInv == Init => IInv
<1> SUFFICES ASSUME Init PROVE IInv
  OBVIOUS
<1>1. TypeOK
  <2>1. asked \in Seq(Kind) /\ served \in Seq(Request)
    BY DEF Init
  <2>2. pose \in 0 .. Len(asked) /\ scatter \in 0 .. Len(asked)
    BY DEF Init
  <2> QED BY <2>1, <2>2 DEF Init, TypeOK
<1>2. DOMAIN served = {}
  BY DEF Init
<1>3. KeptNotServed /\ AtMostOnce /\ PosesInOrder
  BY <1>2 DEF Init, KeptNotServed, AtMostOnce, PosesInOrder
<1> QED BY <1>1, <1>3 DEF IInv

LEMMA NextIInv == IInv /\ [Next]_vars => IInv'
<1> SUFFICES ASSUME IInv, [Next]_vars PROVE IInv'
  OBVIOUS
<1> USE DEF IInv, TypeOK, KeptNotServed
<1>1. CASE AskPose
  <2> USE <1>1
  <2>0. asked' = Append(asked, "pose") /\ "pose" \in Kind /\ UNCHANGED <<scatter, up>>
    BY DEF AskPose, Ask, Kind
  <2>1. /\ asked' \in Seq(Kind)
        /\ Len(asked') = Len(asked) + 1
        /\ asked'[Len(asked')] = "pose"
        /\ \A r \in Request : r \in Request' /\ asked'[r] = asked[r]
    BY <2>0, AskedGrows
  <2> DEFINE n == Len(asked')
  <2>2. n \in Request' /\ n \in Nat /\ \A r \in Request : r < n
    BY <2>1 DEF Request
  <2>3. CASE served' = served /\ pose' \in {pose, n}
    BY <2>0, <2>1, <2>2, <2>3, ServedGrows DEF AtMostOnce, PosesInOrder, Request
  <2>4. CASE pose = 0 /\ served' = Append(served, n) /\ pose' = pose
    <3>1. /\ served' \in Seq(Request')
          /\ DOMAIN served' = 1 .. Len(served) + 1
          /\ DOMAIN served = 1 .. Len(served)
          /\ \A i \in DOMAIN served : served'[i] = served[i] /\ served[i] \in Request
          /\ served'[Len(served) + 1] = n
      BY <2>1, <2>2, <2>4, ServedGrows
    <3>2. TypeOK'
      BY <2>0, <2>1, <2>4, <3>1 DEF Request
    <3>3. KeptNotServed'
      BY <2>0, <2>1, <2>2, <2>4, <3>1 DEF Request
    <3>4. AtMostOnce'
      BY <2>2, <3>1 DEF AtMostOnce
    <3>5. PosesInOrder'
      BY <2>1, <2>2, <3>1 DEF PosesInOrder
    <3> QED BY <3>2, <3>3, <3>4, <3>5
  <2> QED BY <2>3, <2>4 DEF AskPose
<1>2. CASE AskScatter
  <2>0. /\ asked' = Append(asked, "scatter") /\ "scatter" \in Kind
        /\ scatter' = Len(asked')
        /\ UNCHANGED <<served, pose, up>>
    BY <1>2 DEF AskScatter, Ask, Kind
  <2>1. /\ asked' \in Seq(Kind)
        /\ Len(asked') = Len(asked) + 1
        /\ asked'[Len(asked')] = "scatter"
        /\ \A r \in Request : r \in Request' /\ asked'[r] = asked[r]
    BY <2>0, AskedGrows
  <2>2. /\ served \in Seq(Request')
        /\ DOMAIN served = 1 .. Len(served)
        /\ \A i \in DOMAIN served : served[i] \in Request
    BY <2>1
  <2>3. TypeOK'
    BY <2>0, <2>1, <2>2 DEF Request
  <2>4. KeptNotServed'
    BY <2>0, <2>1, <2>2 DEF Request
  <2>5. AtMostOnce'
    BY <2>0 DEF AtMostOnce
  <2>6. PosesInOrder'
    <3>1. SUFFICES ASSUME NEW i \in DOMAIN served, NEW j \in DOMAIN served,
                          asked'[served[i]] = "pose", asked'[served[j]] = "pose", i < j
                   PROVE  served[i] < served[j]
      BY <2>0 DEF PosesInOrder
    <3>2. asked[served[i]] = "pose" /\ asked[served[j]] = "pose"
      BY <2>1, <2>2, <3>1
    <3> QED BY <3>1, <3>2 DEF PosesInOrder
  <2> QED BY <2>3, <2>4, <2>5, <2>6
<1>3. CASE ServePose
  <2>1. /\ pose \in Request
        /\ served' = Append(served, pose)
        /\ pose' = 0
        /\ UNCHANGED <<asked, scatter, up>>
    BY <1>3 DEF ServePose, Request
  <2>2. pose # 0
    BY <1>3 DEF ServePose
  <2>3. /\ served' \in Seq(Request)
        /\ DOMAIN served' = 1 .. Len(served) + 1
        /\ DOMAIN served = 1 .. Len(served)
        /\ \A i \in DOMAIN served : served'[i] = served[i] /\ served[i] \in Request
        /\ served'[Len(served) + 1] = pose
    BY <2>1, ServedGrows
  <2>4. TypeOK'
    BY <2>1, <2>3 DEF Request
  <2>5. KeptNotServed'
    BY <2>1, <2>2, <2>3 DEF Request
  <2>6. AtMostOnce'
    BY <2>1, <2>2, <2>3 DEF AtMostOnce, Request
  <2>7. PosesInOrder'
    BY <2>1, <2>2, <2>3 DEF PosesInOrder, Request
  <2> QED BY <2>4, <2>5, <2>6, <2>7
<1>4. CASE ServeScatter
  <2>1. /\ scatter \in Request
        /\ served' = Append(served, scatter)
        /\ scatter' = 0
        /\ UNCHANGED <<asked, pose, up>>
    BY <1>4 DEF ServeScatter, Request
  <2>2. pose = 0 /\ scatter # 0
    BY <1>4 DEF ServeScatter
  <2>3. /\ served' \in Seq(Request)
        /\ DOMAIN served' = 1 .. Len(served) + 1
        /\ DOMAIN served = 1 .. Len(served)
        /\ \A i \in DOMAIN served : served'[i] = served[i] /\ served[i] \in Request
        /\ served'[Len(served) + 1] = scatter
    BY <2>1, ServedGrows
  <2>4. TypeOK'
    BY <2>1, <2>3 DEF Request
  <2>5. KeptNotServed'
    BY <2>1, <2>2
  <2>6. AtMostOnce'
    BY <2>2, <2>3 DEF AtMostOnce
  <2>7. PosesInOrder'
    BY <2>1, <2>2, <2>3 DEF PosesInOrder
  <2> QED BY <2>4, <2>5, <2>6, <2>7
<1>5. CASE Turn \/ Cancel
  <2>1. /\ UNCHANGED <<asked, served>>
        /\ pose' \in {0, pose} /\ scatter' \in {0, scatter} /\ up' \in BOOLEAN
    BY <1>5 DEF Turn, Cancel
  <2>2. TypeOK'
    BY <2>1 DEF Request
  <2>3. KeptNotServed'
    BY <2>1
  <2>4. AtMostOnce' /\ PosesInOrder'
    BY <2>1, Zenon DEF AtMostOnce, PosesInOrder
  <2> QED BY <2>2, <2>3, <2>4
<1>6. CASE UNCHANGED vars
  <2>1. UNCHANGED <<asked, served, pose, scatter, up>>
    BY <1>6 DEF vars
  <2>2. TypeOK'
    BY <2>1 DEF Request
  <2>3. KeptNotServed'
    BY <2>1
  <2>4. AtMostOnce' /\ PosesInOrder'
    BY <2>1, Zenon DEF AtMostOnce, PosesInOrder
  <2> QED BY <2>2, <2>3, <2>4
<1> QED BY <1>1, <1>2, <1>3, <1>4, <1>5, <1>6 DEF Next, Serve

(* The localizer's bookkeeping of requests: types, at most once, in order. *)
THEOREM RequestsInvariant == Safe => []IInv
  BY InitIInv, NextIInv, PTL DEF Safe

(* Only requests are kept, and only requests obeyed.                       *)
THEOREM RequestsTypeOK == Spec => []TypeOK
<1>1. IInv => TypeOK
  BY DEF IInv
<1> QED BY <1>1, RequestsInvariant, PTL DEF Spec

(* setInitialPose and loop() between them obey no request twice.           *)
THEOREM RequestsAtMostOnce == Spec => []AtMostOnce
<1>1. IInv => AtMostOnce
  BY DEF IInv
<1> QED BY <1>1, RequestsInvariant, PTL DEF Spec

(* An older pose never overrides a newer one.                              *)
THEOREM RequestsPosesInOrder == Spec => []PosesInOrder
<1>1. IInv => PosesInOrder
  BY DEF IInv
<1> QED BY <1>1, RequestsInvariant, PTL DEF Spec
=============================================================================
